-------------------------- MODULE MasterDataProofs --------------------------
(***************************************************************************)
(* Theorems about MasterData for any rows, requests, server processes and  *)
(* names, and whatever fails.                                              *)
(***************************************************************************)
EXTENDS MasterData, SequenceTheorems, TLAPS

(***************************************************************************)
(* The plans.                                                              *)
(***************************************************************************)
Managed == PosKinds \cup StockKinds
Operations == {"create", "update", "delete"}

Withs   == {With(k) : k \in References} \cup {Active(k) : k \in References}
Unuseds == {Unused(k) : k \in Referrers}
Reads   == {Look, LookName}
Writes  == {Insert, Patch, Whole, Merge, Save}
Checks  == {Found, Unnamed, Name, NewName, Again, Sync} \cup Withs
Steps   == {Gate, Find, Remove, Announce} \cup Reads \cup Writes \cup Checks \cup Unuseds

LEMMA Differ ==
  /\ Insert \notin {Patch, Whole, Merge, Save} /\ Patch \notin {Whole, Merge, Save}
  /\ Whole \notin {Merge, Save} /\ Merge # Save
  /\ Writes \cap (Reads \cup Checks \cup Unuseds \cup {Gate, Find, Remove, Announce}) = {}
  /\ Reads \cap (Writes \cup Checks \cup Unuseds \cup {Gate, Find, Remove, Announce}) = {}
BY DEF Writes, Reads, Checks, Unuseds, Withs, With, Active, Unused, Insert, Patch, Whole, Merge, Save, Gate,
       Find, Remove, Announce, Found, Unnamed, Name, NewName, Again, Sync, Look, LookName

\* Where the plan that a controller prepends two steps to ends up.
LEMMA Fronted ==
  ASSUME NEW S, NEW s \in Seq(S), NEW a, NEW b
  PROVE  LET t == <<a, b>> \o s
         IN  /\ Len(t) = Len(s) + 2 /\ t[1] = a /\ t[2] = b
             /\ \A n \in 1 .. Len(t) : n > 2 => n - 2 \in 1 .. Len(s) /\ t[n] = s[n - 2]
<1> DEFINE f == <<a, b>>
           T == S \cup {a, b}
<1>1. f \in Seq(T) /\ s \in Seq(T) /\ Len(f) = 2 /\ f[1] = a /\ f[2] = b
  OBVIOUS
<1> HIDE DEF f, T
<1>2. /\ f \o s \in Seq(T) /\ Len(f \o s) = Len(f) + Len(s)
      /\ \A n \in 1 .. Len(f) + Len(s) : (f \o s)[n] = IF n <= Len(f) THEN f[n] ELSE s[n - Len(f)]
  BY <1>1, ConcatProperties
<1>3. Len(s) \in Nat
  OBVIOUS
<1>4. Len(f \o s) = Len(s) + 2 /\ \A n \in 1 .. Len(s) + 2 : (f \o s)[n] = IF n <= 2 THEN f[n] ELSE s[n - 2]
  BY <1>1, <1>2, <1>3
<1>5. (f \o s)[1] = a /\ (f \o s)[2] = b
  BY <1>1, <1>3, <1>4
<1>6. \A n \in 1 .. Len(s) + 2 : n > 2 => n - 2 \in 1 .. Len(s) /\ (f \o s)[n] = s[n - 2]
  BY <1>3, <1>4
<1> QED
  BY <1>4, <1>5, <1>6 DEF f

LEMMA FrontedOnce ==
  ASSUME NEW S, NEW s \in Seq(S), NEW a
  PROVE  LET t == <<a>> \o s
         IN  /\ Len(t) = Len(s) + 1 /\ t[1] = a
             /\ \A n \in 1 .. Len(t) : n > 1 => n - 1 \in 1 .. Len(s) /\ t[n] = s[n - 1]
<1> DEFINE f == <<a>>
           T == S \cup {a}
<1>1. f \in Seq(T) /\ s \in Seq(T) /\ Len(f) = 1 /\ f[1] = a
  OBVIOUS
<1> HIDE DEF f, T
<1>2. /\ f \o s \in Seq(T) /\ Len(f \o s) = Len(f) + Len(s)
      /\ \A n \in 1 .. Len(f) + Len(s) : (f \o s)[n] = IF n <= Len(f) THEN f[n] ELSE s[n - Len(f)]
  BY <1>1, ConcatProperties
<1>3. Len(s) \in Nat
  OBVIOUS
<1>4. Len(f \o s) = Len(s) + 1 /\ \A n \in 1 .. Len(s) + 1 : (f \o s)[n] = IF n <= 1 THEN f[n] ELSE s[n - 1]
  BY <1>1, <1>2, <1>3
<1>5. (f \o s)[1] = a
  BY <1>1, <1>3, <1>4
<1>6. \A n \in 1 .. Len(s) + 1 : n > 1 => n - 1 \in 1 .. Len(s) /\ (f \o s)[n] = s[n - 1]
  BY <1>3, <1>4
<1> QED
  BY <1>4, <1>5, <1>6 DEF f

CreateSteps == Reads \cup Checks \cup {Insert, Announce}
DeleteSteps == Reads \cup Checks \cup Unuseds \cup {Find, Remove, Announce}
OwnWrites(k) == CASE k \in PatchedKinds     -> {Patch}
                  [] k = "stockCategory"    -> {Whole}
                  [] OTHER                  -> {Merge, Save}
UpdateSteps(k) == Checks \cup {Find, Announce} \cup OwnWrites(k)

LEMMA StepSets ==
  /\ {Name, NewName, Again, Sync, Found, Unnamed} \subseteq Checks
  /\ \A k \in References : With(k) \in Checks /\ Active(k) \in Checks
  /\ \A k \in Referrers : Unused(k) \in Unuseds
  /\ {Look, LookName} \subseteq Reads
BY DEF Checks, Withs, Unuseds, Reads

\* A plan never ends with a read.
EndsWell(s) == Len(s) > 0 /\ s[Len(s)] \in {Announce, Found}

\* The handlers by kind and operation.
LEMMA CreatesAre ==
  /\ Handlers["category"].create = CategoryCreate /\ Handlers["toppingGroup"].create = ToppingGroupCreate
  /\ Handlers["topping"].create = ToppingCreate /\ Handlers["product"].create = ProductCreate
  /\ Handlers["unit"].create = UnitCreate /\ Handlers["delivery"].create = DeliveryCreate
  /\ Handlers["discount"].create = DiscountCreate /\ Handlers["method"].create = MethodCreate
  /\ Handlers["stockCategory"].create = StockCategoryCreate
  /\ Handlers["stockUnit"].create = StockUnitCreate /\ Handlers["ingredient"].create = IngredientCreate
BY DEF Handlers, Handled, CategoryHandlers, ToppingGroupHandlers, ToppingHandlers, ProductHandlers,
       UnitHandlers, DeliveryHandlers, DiscountHandlers, MethodHandlers, StockCategoryHandlers,
       StockUnitHandlers, IngredientHandlers

LEMMA DeletesAre ==
  /\ Handlers["category"].delete = <<Look>> \o CategoryDelete
  /\ Handlers["toppingGroup"].delete = <<Look>> \o ToppingGroupDelete
  /\ Handlers["topping"].delete = <<Look>> \o ToppingDelete
  /\ Handlers["product"].delete = <<Look>> \o ProductDelete
  /\ Handlers["unit"].delete = <<Look>> \o UnitDelete
  /\ Handlers["delivery"].delete = <<Look>> \o DeliveryDelete
  /\ Handlers["discount"].delete = <<Look>> \o DiscountDelete
  /\ Handlers["method"].delete = <<Look>> \o MethodDelete
  /\ Handlers["stockCategory"].delete = <<Look>> \o StockCategoryDelete
  /\ Handlers["stockUnit"].delete = <<Look>> \o StockUnitDelete
  /\ Handlers["ingredient"].delete = <<Look>> \o IngredientDelete
BY DEF Handlers, Handled, CategoryHandlers, ToppingGroupHandlers, ToppingHandlers, ProductHandlers,
       UnitHandlers, DeliveryHandlers, DiscountHandlers, MethodHandlers, StockCategoryHandlers,
       StockUnitHandlers, IngredientHandlers

LEMMA UpdatesAre ==
  /\ Handlers["category"].update = <<Look, Gate>> \o CategoryUpdate
  /\ Handlers["toppingGroup"].update = <<Look, Gate>> \o ToppingGroupUpdate
  /\ Handlers["topping"].update = <<Look, Gate>> \o ToppingUpdate
  /\ Handlers["product"].update = <<Look, Gate>> \o ProductUpdate
  /\ Handlers["unit"].update = <<Look, Gate>> \o UnitUpdate
  /\ Handlers["delivery"].update = <<Look, Gate>> \o DeliveryUpdate
  /\ Handlers["discount"].update = <<Look, Gate>> \o DiscountUpdate
  /\ Handlers["method"].update = <<Look, Gate>> \o MethodUpdate
  /\ Handlers["stockCategory"].update = <<Look, Gate>> \o StockCategoryUpdate
  /\ Handlers["stockUnit"].update = <<Look, Gate>> \o StockUnitUpdate
  /\ Handlers["ingredient"].update = <<Look, Gate>> \o IngredientUpdate
BY DEF Handlers, Handled, CategoryHandlers, ToppingGroupHandlers, ToppingHandlers, ProductHandlers,
       UnitHandlers, DeliveryHandlers, DiscountHandlers, MethodHandlers, StockCategoryHandlers,
       StockUnitHandlers, IngredientHandlers

LEMMA CreatePlans ==
  ASSUME NEW k \in Managed
  PROVE  Handlers[k].create \in Seq(CreateSteps) /\ EndsWell(Handlers[k].create)
<1> DEFINE S == CreateSteps
<1>1. /\ {Name, NewName, Again, Sync, Found, Unnamed, Look, LookName, Insert, Announce} \subseteq S
      /\ With("category") \in S /\ With("toppingGroup") \in S /\ Active("stockUnit") \in S
      /\ Active("stockCategory") \in S
  BY StepSets DEF CreateSteps, References
<1> HIDE DEF S
<1>2. /\ CategoryCreate \in Seq(S) /\ ToppingGroupCreate \in Seq(S) /\ ToppingCreate \in Seq(S)
      /\ ProductCreate \in Seq(S) /\ UnitCreate \in Seq(S) /\ DeliveryCreate \in Seq(S)
      /\ DiscountCreate \in Seq(S) /\ MethodCreate \in Seq(S) /\ StockCategoryCreate \in Seq(S)
      /\ StockUnitCreate \in Seq(S) /\ IngredientCreate \in Seq(S)
  BY <1>1 DEF CategoryCreate, ToppingGroupCreate, ToppingCreate, ProductCreate, UnitCreate, DeliveryCreate,
     DiscountCreate, MethodCreate, StockCategoryCreate, StockUnitCreate, IngredientCreate
<1>3. /\ EndsWell(CategoryCreate) /\ EndsWell(ToppingGroupCreate) /\ EndsWell(ToppingCreate)
      /\ EndsWell(ProductCreate) /\ EndsWell(UnitCreate) /\ EndsWell(DeliveryCreate)
      /\ EndsWell(DiscountCreate) /\ EndsWell(MethodCreate) /\ EndsWell(StockCategoryCreate)
      /\ EndsWell(StockUnitCreate) /\ EndsWell(IngredientCreate)
  BY DEF CategoryCreate, ToppingGroupCreate, ToppingCreate, ProductCreate, UnitCreate, DeliveryCreate,
     DiscountCreate, MethodCreate, StockCategoryCreate, StockUnitCreate, IngredientCreate, EndsWell
<1>4. Handlers[k].create \in Seq(S) /\ EndsWell(Handlers[k].create)
  BY <1>2, <1>3, CreatesAre DEF Managed, PosKinds, StockKinds
<1> QED
  BY <1>4 DEF S

LEMMA DeletePlans ==
  ASSUME NEW k \in Managed
  PROVE  \E d \in Seq(DeleteSteps) : Handlers[k].delete = <<Look>> \o d /\ EndsWell(d)
<1> DEFINE S == DeleteSteps
<1>1. /\ {Look, Found, Find, Remove, Announce} \subseteq S
      /\ Unused("product") \in S /\ Unused("topping") \in S /\ Unused("sale") \in S
      /\ Unused("ingredient") \in S /\ Unused("purchase") \in S
  BY StepSets DEF DeleteSteps, Referrers
<1> HIDE DEF S
<1>2. /\ CategoryDelete \in Seq(S) /\ ToppingGroupDelete \in Seq(S) /\ ToppingDelete \in Seq(S)
      /\ ProductDelete \in Seq(S) /\ UnitDelete \in Seq(S) /\ DeliveryDelete \in Seq(S)
      /\ DiscountDelete \in Seq(S) /\ MethodDelete \in Seq(S) /\ StockCategoryDelete \in Seq(S)
      /\ StockUnitDelete \in Seq(S) /\ IngredientDelete \in Seq(S)
  BY <1>1 DEF CategoryDelete, ToppingGroupDelete, ToppingDelete, ProductDelete, UnitDelete, DeliveryDelete,
     DiscountDelete, MethodDelete, StockCategoryDelete, StockUnitDelete, IngredientDelete
<1>3. /\ EndsWell(CategoryDelete) /\ EndsWell(ToppingGroupDelete) /\ EndsWell(ToppingDelete)
      /\ EndsWell(ProductDelete) /\ EndsWell(UnitDelete) /\ EndsWell(DeliveryDelete)
      /\ EndsWell(DiscountDelete) /\ EndsWell(MethodDelete) /\ EndsWell(StockCategoryDelete)
      /\ EndsWell(StockUnitDelete) /\ EndsWell(IngredientDelete)
  BY DEF CategoryDelete, ToppingGroupDelete, ToppingDelete, ProductDelete, UnitDelete, DeliveryDelete,
     DiscountDelete, MethodDelete, StockCategoryDelete, StockUnitDelete, IngredientDelete, EndsWell
<1>4. \E d \in Seq(S) : Handlers[k].delete = <<Look>> \o d /\ EndsWell(d)
  BY <1>2, <1>3, DeletesAre DEF Managed, PosKinds, StockKinds
<1> QED
  BY <1>4 DEF S

LEMMA UpdatePlans ==
  ASSUME NEW k \in Managed \ {"product"}
  PROVE  \E u \in Seq(UpdateSteps(k)) :
           Handlers[k].update = <<Look, Gate>> \o u /\ EndsWell(u) /\ u[1] = Find
<1> DEFINE S == UpdateSteps(k)
<1>1. /\ {Name, NewName, Again, Sync, Found, Unnamed, Find, Announce} \subseteq S
      /\ With("category") \in S /\ With("toppingGroup") \in S /\ Active("stockUnit") \in S
      /\ Active("stockCategory") \in S
      /\ k \in PatchedKinds => Patch \in S
      /\ k = "stockCategory" => Whole \in S
      /\ k \in {"topping", "stockUnit", "ingredient"} => Merge \in S /\ Save \in S
  BY StepSets DEF UpdateSteps, OwnWrites, References, PatchedKinds
<1> HIDE DEF S
<1>2. k \in PatchedKinds =>
        /\ CategoryUpdate \in Seq(S) /\ ToppingGroupUpdate \in Seq(S) /\ UnitUpdate \in Seq(S)
        /\ DeliveryUpdate \in Seq(S) /\ DiscountUpdate \in Seq(S) /\ MethodUpdate \in Seq(S)
  BY <1>1 DEF CategoryUpdate, ToppingGroupUpdate, UnitUpdate, DeliveryUpdate, DiscountUpdate, MethodUpdate
<1>3. /\ k = "stockCategory" => StockCategoryUpdate \in Seq(S)
      /\ k = "topping" => ToppingUpdate \in Seq(S)
      /\ k = "stockUnit" => StockUnitUpdate \in Seq(S)
      /\ k = "ingredient" => IngredientUpdate \in Seq(S)
  BY <1>1 DEF StockCategoryUpdate, ToppingUpdate, StockUnitUpdate, IngredientUpdate
<1>4. /\ \A u \in {CategoryUpdate, ToppingGroupUpdate, UnitUpdate, DeliveryUpdate, DiscountUpdate, MethodUpdate,
                   StockCategoryUpdate, ToppingUpdate, StockUnitUpdate, IngredientUpdate} :
           EndsWell(u) /\ u[1] = Find
  BY DEF EndsWell, CategoryUpdate, ToppingGroupUpdate, UnitUpdate, DeliveryUpdate, DiscountUpdate, MethodUpdate,
     StockCategoryUpdate, ToppingUpdate, StockUnitUpdate, IngredientUpdate
<1>5. CASE k \in PatchedKinds
  BY <1>2, <1>4, <1>5, UpdatesAre DEF PatchedKinds, S
<1>6. CASE k \in {"stockCategory", "topping", "stockUnit", "ingredient"}
  BY <1>3, <1>4, <1>6, UpdatesAre DEF S
<1> QED
  BY <1>5, <1>6 DEF Managed, PosKinds, StockKinds, PatchedKinds

----------------------------------------------------------------------------
(* What the place in a plan says.                                           *)

PlanOf(k, op) == Handlers[k][op]

LEMMA CreateStep ==
  ASSUME NEW k \in Managed, NEW n \in 1 .. Len(PlanOf(k, "create"))
  PROVE  /\ PlanOf(k, "create")[n] \notin {Patch, Whole, Merge, Save}
         /\ PlanOf(k, "create")[n] \in Reads => n + 1 \in 1 .. Len(PlanOf(k, "create"))
<1> DEFINE s == Handlers[k].create
<1>1. s \in Seq(CreateSteps) /\ EndsWell(s)
  BY CreatePlans
<1>2. PlanOf(k, "create") = s
  BY DEF PlanOf
<1> HIDE DEF s
<1>3. s[n] \in CreateSteps /\ n \in Nat /\ Len(s) \in Nat /\ n >= 1 /\ n <= Len(s)
  BY <1>1, <1>2
<1>4. s[n] \notin {Patch, Whole, Merge, Save}
  BY <1>3, Differ DEF CreateSteps, Writes
<1>5. ASSUME s[n] \in Reads PROVE n # Len(s)
  BY <1>1, <1>5, Differ, StepSets DEF EndsWell
<1> QED
  BY <1>2, <1>3, <1>4, <1>5

LEMMA DeleteStep ==
  ASSUME NEW k \in Managed, NEW n \in 1 .. Len(PlanOf(k, "delete"))
  PROVE  /\ PlanOf(k, "delete")[n] \notin Writes
         /\ PlanOf(k, "delete")[n] \in Reads => n + 1 \in 1 .. Len(PlanOf(k, "delete"))
<1> DEFINE s == Handlers[k].delete
<1>1. PICK d \in Seq(DeleteSteps) : s = <<Look>> \o d /\ EndsWell(d)
  BY DeletePlans
<1>2. PlanOf(k, "delete") = s
  BY DEF PlanOf
<1> HIDE DEF s
<1>3. /\ Len(s) = Len(d) + 1 /\ s[1] = Look
      /\ \A m \in 1 .. Len(s) : m > 1 => m - 1 \in 1 .. Len(d) /\ s[m] = d[m - 1]
  BY <1>1, FrontedOnce
<1>4. n \in Nat /\ Len(d) \in Nat /\ n >= 1 /\ n <= Len(d) + 1 /\ Len(d) > 0
  BY <1>1, <1>2, <1>3 DEF EndsWell
<1>5. CASE n = 1
  <2>1. Look \notin Writes
    BY Differ, StepSets
  <2> QED
    BY <1>2, <1>3, <1>4, <1>5, <2>1
<1>6. CASE n > 1
  <2>1. n - 1 \in 1 .. Len(d) /\ s[n] = d[n - 1] /\ d[n - 1] \in DeleteSteps
    BY <1>1, <1>3, <1>4, <1>6
  <2>2. s[n] \notin Writes
    BY <2>1, Differ DEF DeleteSteps
  <2>3. ASSUME s[n] \in Reads PROVE n - 1 # Len(d)
    BY <1>1, <2>1, <2>3, Differ, StepSets DEF EndsWell
  <2> QED
    BY <1>2, <1>3, <1>4, <2>2, <2>3
<1> QED
  BY <1>4, <1>5, <1>6

LEMMA UpdateStep ==
  ASSUME NEW k \in Managed \ {"product"}, NEW n \in 1 .. Len(PlanOf(k, "update"))
  PROVE  /\ PlanOf(k, "update")[n] # Insert
         /\ PlanOf(k, "update")[n] = Patch => k \in PatchedKinds
         /\ PlanOf(k, "update")[n] \in {Whole, Merge, Save} => k \notin PatchedKinds /\ n >= 4
         /\ n = 3 => PlanOf(k, "update")[n] = Find
         /\ n >= 3 => PlanOf(k, "update")[n] \notin Reads
         /\ PlanOf(k, "update")[n] \in Reads => n + 1 \in 1 .. Len(PlanOf(k, "update"))
<1> DEFINE s == Handlers[k].update
<1>1. PICK u \in Seq(UpdateSteps(k)) : s = <<Look, Gate>> \o u /\ EndsWell(u) /\ u[1] = Find
  BY UpdatePlans
<1>2. PlanOf(k, "update") = s
  BY DEF PlanOf
<1> HIDE DEF s
<1>3. /\ Len(s) = Len(u) + 2 /\ s[1] = Look /\ s[2] = Gate
      /\ \A m \in 1 .. Len(s) : m > 2 => m - 2 \in 1 .. Len(u) /\ s[m] = u[m - 2]
  BY <1>1, Fronted
<1>4. n \in Nat /\ Len(u) \in Nat /\ n >= 1 /\ n <= Len(u) + 2 /\ Len(u) > 0
  BY <1>1, <1>2, <1>3 DEF EndsWell
<1>5. CASE n <= 2
  <2>1. s[n] \in {Look, Gate} /\ s[n] \notin Writes
    BY <1>3, <1>4, <1>5, Differ, StepSets
  <2>2. s[n] \notin {Insert, Patch, Whole, Merge, Save}
    BY <2>1 DEF Writes
  <2>3. n + 1 \in 1 .. Len(s) /\ ~(n >= 3) /\ n # 3
    BY <1>3, <1>4, <1>5
  <2> QED
    BY <1>2, <2>2, <2>3
<1>6. CASE n > 2
  <2>1. n - 2 \in 1 .. Len(u) /\ s[n] = u[n - 2] /\ u[n - 2] \in UpdateSteps(k)
    BY <1>1, <1>3, <1>4, <1>6
  <2>2. s[n] \notin Reads /\ s[n] # Insert
    BY <2>1, Differ, StepSets DEF UpdateSteps, OwnWrites, Writes
  <2>3. s[n] = Patch => k \in PatchedKinds
    BY <2>1, Differ, StepSets DEF UpdateSteps, OwnWrites, Writes
  <2>4. s[n] \in {Whole, Merge, Save} => k \notin PatchedKinds
    <3>1. ASSUME k \in PatchedKinds PROVE UpdateSteps(k) = Checks \cup {Find, Announce, Patch}
      BY <3>1 DEF UpdateSteps, OwnWrites, PatchedKinds
    <3>2. {Whole, Merge, Save} \cap (Checks \cup {Find, Announce, Patch}) = {}
      BY Differ DEF Writes
    <3> QED
      BY <2>1, <3>1, <3>2
  <2>5. n = 3 => s[n] = Find
    BY <1>1, <2>1
  <2>6. s[n] \in {Whole, Merge, Save} => n # 3
    BY <2>5, Differ DEF Writes
  <2> QED
    BY <1>2, <1>4, <1>6, <2>2, <2>3, <2>4, <2>5, <2>6
<1> QED
  BY <1>4, <1>5, <1>6

LEMMA ProductPlan ==
  LET s == PlanOf("product", "update")
  IN  /\ Len(s) = 13 /\ s[1] = Look /\ s[2] = Gate
      /\ s[3] = Look /\ s[4] = Found /\ s[5] = LookName /\ s[6] = Unnamed /\ s[7] = With("toppingGroup")
      /\ s[8] = Look /\ s[9] = Merge /\ s[10] = Save /\ s[11] = Announce /\ s[12] = Look /\ s[13] = Found
<1> DEFINE s == PlanOf("product", "update")
           u == ProductUpdate
           S == Reads \cup Checks \cup {Merge, Save, Announce}
<1>1. s = <<Look, Gate>> \o u
  BY UpdatesAre DEF PlanOf
<1>2. u = <<Look, Found, LookName, Unnamed, With("toppingGroup"), Look, Merge, Save, Announce, Look, Found>>
  BY DEF ProductUpdate
<1>3. /\ Len(u) = 11 /\ u[1] = Look /\ u[2] = Found /\ u[3] = LookName /\ u[4] = Unnamed
      /\ u[5] = With("toppingGroup") /\ u[6] = Look /\ u[7] = Merge /\ u[8] = Save /\ u[9] = Announce
      /\ u[10] = Look /\ u[11] = Found
  BY <1>2
<1>4. u \in Seq(S)
  <2>1. {Look, LookName, Found, Unnamed, Merge, Save, Announce} \subseteq S /\ With("toppingGroup") \in S
    BY StepSets DEF References
  <2> HIDE DEF S
  <2> QED
    BY <1>2, <2>1
<1> HIDE DEF s, u
<1>5. /\ Len(s) = 13 /\ s[1] = Look /\ s[2] = Gate
      /\ \A m \in 1 .. Len(s) : m > 2 => s[m] = u[m - 2]
  <2> HIDE DEF S
  <2>1. /\ Len(s) = Len(u) + 2 /\ s[1] = Look /\ s[2] = Gate
        /\ \A m \in 1 .. Len(s) : m > 2 => m - 2 \in 1 .. Len(u) /\ s[m] = u[m - 2]
    BY <1>1, <1>4, Fronted
  <2> QED
    BY <1>3, <2>1
<1>6. /\ s[3] = Look /\ s[4] = Found /\ s[5] = LookName /\ s[6] = Unnamed /\ s[7] = With("toppingGroup")
      /\ s[8] = Look /\ s[9] = Merge /\ s[10] = Save /\ s[11] = Announce /\ s[12] = Look /\ s[13] = Found
  BY <1>3, <1>5
<1> QED
  BY <1>5, <1>6 DEF s

LEMMA ProductStep ==
  ASSUME NEW n \in 1 .. Len(PlanOf("product", "update"))
  PROVE  /\ PlanOf("product", "update")[n] \notin {Insert, Patch, Whole}
         /\ n = 8 => PlanOf("product", "update")[n] = Look
         /\ PlanOf("product", "update")[n] = Merge <=> n = 9
         /\ PlanOf("product", "update")[n] = Save => n = 10
         /\ PlanOf("product", "update")[n] \in Reads => n + 1 \in 1 .. Len(PlanOf("product", "update")) /\ n # 9
<1> DEFINE s == PlanOf("product", "update")
<1>5. Len(s) = 13 /\ s[1] = Look /\ s[2] = Gate
  BY ProductPlan
<1>6. /\ s[3] = Look /\ s[4] = Found /\ s[5] = LookName /\ s[6] = Unnamed /\ s[7] = With("toppingGroup")
      /\ s[8] = Look /\ s[9] = Merge /\ s[10] = Save /\ s[11] = Announce /\ s[12] = Look /\ s[13] = Found
  BY ProductPlan
<1> HIDE DEF s
<1>7. n \in 1 .. 13
  BY <1>5 DEF s
<1>8. /\ {s[2], s[4], s[6], s[7], s[11], s[13]} \cap (Reads \cup Writes) = {}
      /\ {s[1], s[3], s[5], s[8], s[12]} \subseteq Reads /\ {s[1], s[3], s[5], s[8], s[12]} \cap Writes = {}
      /\ {s[9], s[10]} \cap (Reads \cup {Insert, Patch, Whole}) = {} /\ s[9] # Save /\ s[10] # Merge
  <2>1. With("toppingGroup") \in Checks
    BY StepSets DEF References
  <2>2. /\ {Gate, Found, Unnamed, With("toppingGroup"), Announce} \cap (Reads \cup Writes) = {}
        /\ {Look, LookName} \subseteq Reads /\ {Look, LookName} \cap Writes = {}
    BY <2>1, Differ, StepSets
  <2>3. {Merge, Save} \cap (Reads \cup {Insert, Patch, Whole}) = {} /\ Merge # Save
    BY Differ DEF Writes
  <2> QED
    BY <1>5, <1>6, <2>2, <2>3
<1>9. CASE n \in {2, 4, 6, 7, 11, 13}
  <2>1. s[n] \notin Reads \cup Writes /\ n # 8 /\ n # 9 /\ n # 10
    BY <1>8, <1>9
  <2> QED
    BY <2>1 DEF s, Writes
<1>10. CASE n \in {1, 3, 5, 8, 12}
  <2>1. s[n] \notin Writes /\ n # 9 /\ n # 10 /\ n + 1 \in 1 .. Len(s) /\ (n = 8 => s[n] = Look)
    BY <1>5, <1>6, <1>8, <1>10
  <2> QED
    BY <2>1 DEF s, Writes
<1>11. CASE n \in {9, 10}
  <2>1. s[n] \notin Reads \cup {Insert, Patch, Whole} /\ n # 8 /\ (s[n] = Merge <=> n = 9) /\ (s[n] = Save => n = 10)
    <3>1. CASE n = 9
      BY <1>6, <1>8, <3>1
    <3>2. CASE n = 10
      BY <1>6, <1>8, <3>2
    <3> QED
      BY <1>11, <3>1, <3>2
  <2> QED
    BY <2>1 DEF s
<1> QED
  BY <1>7, <1>9, <1>10, <1>11

----------------------------------------------------------------------------
(* Rows, changes and requests, whatever they are called: K is the kinds in  *)
(* play and N the names.                                                    *)

IsRow(x, k, N) ==
  /\ DOMAIN x = {"kind", "name", "on", "refs"}
  /\ x.kind = k /\ x.name \in N /\ x.on \in BOOLEAN
  /\ x.refs \subseteq Things /\ (k \in PatchedKinds => x.refs = {})

ChangeFits(k, op, c, N) ==
  /\ op = "create" => IsRow(c, k, N)
  /\ op = "update" =>
       /\ DOMAIN c \subseteq Fields
       /\ "name" \in DOMAIN c => c.name \in N
       /\ "on" \in DOMAIN c => c.on \in BOOLEAN
       /\ "refs" \in DOMAIN c => c.refs \subseteq Things /\ (k \in PatchedKinds => c.refs = {})

\* What an update has read by the time it is at step n.
GotFits(k, op, n, got, N) ==
  op = "update" =>
    /\ k # "product" /\ n >= 4 => IsRow(got, k, N)
    /\ k = "product" /\ n = 9  => IsRow(got, k, N) \/ got = NoThing
    /\ k = "product" /\ n = 10 => IsRow(got, k, N)

IsEdit(x, K, N) ==
  /\ DOMAIN x = {"op", "kind", "id", "server", "at", "change", "may", "got"}
  /\ x.kind \in K \cap Managed /\ x.op \in Operations /\ x.id \in Things /\ x.server \in Servers
  /\ x.at \in 1 .. Len(PlanOf(x.kind, x.op))
  /\ ChangeFits(x.kind, x.op, x.change, N)
  /\ GotFits(x.kind, x.op, x.at, x.got, N)

\* The step of a request.
StepOf(x) == PlanOf(x.kind, x.op)[x.at]

LEMMA NothingIsNoRow ==
  ASSUME NEW k, NEW N
  PROVE  ~IsRow(NoThing, k, N)
BY DEF IsRow, NoThing

LEMMA EditsAreMarked ==
  ASSUME NEW x, NEW K, NEW N, IsEdit(x, K, N)
  PROVE  x # NotYet /\ x # Over
<1>1. DOMAIN NotYet = {"op"} /\ DOMAIN Over = {"op"}
  BY DEF NotYet, Over
<1>2. "kind" \in DOMAIN x
  BY DEF IsEdit
<1> QED
  BY <1>1, <1>2

LEMMA AppliedRow ==
  ASSUME NEW x, NEW k, NEW N, NEW c, IsRow(x, k, N), ChangeFits(k, "update", c, N)
  PROVE  IsRow(Applied(x, c), k, N)
<1> DEFINE y == Applied(x, c)
<1>1. /\ DOMAIN y = {"kind", "name", "on", "refs"}
      /\ \A f \in {"kind", "name", "on", "refs"} : y[f] = IF f \in DOMAIN c THEN c[f] ELSE x[f]
  BY DEF Applied, IsRow
<1>2. "kind" \notin DOMAIN c
  BY DEF ChangeFits, Fields
<1> HIDE DEF y
<1>3. IsRow(y, k, N)
  BY <1>1, <1>2 DEF IsRow, ChangeFits
<1> QED
  BY <1>1, <1>3 DEF y, Fields

LEMMA AppliedField ==
  ASSUME NEW x, NEW k, NEW N, NEW c, IsRow(x, k, N), NEW f \in Fields
  PROVE  /\ f \in DOMAIN c => Applied(x, c)[f] = c[f]
         /\ f \notin DOMAIN c => Applied(x, c)[f] = x[f]
BY DEF Applied, IsRow, Fields

LEMMA MergedRow ==
  ASSUME NEW x, NEW k, NEW N, NEW c, IsRow(x, k, N), ChangeFits(k, "update", c, N),
         k \notin PatchedKinds, NEW r \in SUBSET Things
  PROVE  IsRow([Applied(x, c) EXCEPT !.refs = r], k, N)
<1> DEFINE y == Applied(x, c)
<1>1. IsRow(y, k, N)
  BY AppliedRow
<1> HIDE DEF y
<1>2. IsRow([y EXCEPT !.refs = r], k, N)
  BY <1>1 DEF IsRow
<1> QED
  BY <1>2 DEF y

LEMMA PlansAreSequences ==
  ASSUME NEW k \in Managed, NEW op \in Operations
  PROVE  Len(PlanOf(k, op)) \in Nat /\ Len(PlanOf(k, op)) >= 1
<1>1. CASE op = "create"
  BY <1>1, CreatePlans DEF PlanOf, EndsWell
<1>2. CASE op = "delete"
  <2>1. PICK d \in Seq(DeleteSteps) : Handlers[k].delete = <<Look>> \o d /\ EndsWell(d)
    BY DeletePlans
  <2>2. Len(<<Look>> \o d) = Len(d) + 1
    BY FrontedOnce
  <2> QED
    BY <1>2, <2>1, <2>2 DEF PlanOf, EndsWell
<1>3. CASE op = "update" /\ k # "product"
  <2>1. PICK u \in Seq(UpdateSteps(k)) :
          Handlers[k].update = <<Look, Gate>> \o u /\ EndsWell(u) /\ u[1] = Find
    BY <1>3, UpdatePlans
  <2>2. Len(<<Look, Gate>> \o u) = Len(u) + 2
    BY Fronted
  <2> QED
    BY <1>3, <2>1, <2>2 DEF PlanOf, EndsWell
<1>4. CASE op = "update" /\ k = "product"
  BY <1>4, ProductPlan
<1> QED
  BY <1>1, <1>2, <1>3, <1>4 DEF Operations

\* A read never ends a plan, and what is read late in it is a row.
LEMMA ReadsGoOn ==
  ASSUME NEW x, NEW K, NEW N, IsEdit(x, K, N), StepOf(x) \in Reads
  PROVE  /\ x.at + 1 \in 1 .. Len(PlanOf(x.kind, x.op))
         /\ \A got : (StepOf(x) = Look => got = NoThing \/ IsRow(got, x.kind, N))
                     => GotFits(x.kind, x.op, x.at + 1, got, N)
<1>1. /\ x.kind \in Managed /\ x.op \in Operations /\ x.at \in 1 .. Len(PlanOf(x.kind, x.op))
      /\ x.at \in Nat
  BY DEF IsEdit
<1>2. CASE x.op = "create"
  BY <1>1, <1>2, CreateStep DEF StepOf, GotFits
<1>3. CASE x.op = "delete"
  BY <1>1, <1>3, DeleteStep DEF StepOf, GotFits
<1>4. CASE x.op = "update" /\ x.kind # "product"
  <2>1. x.kind \in Managed \ {"product"}
    BY <1>1, <1>4
  <2>2. x.at + 1 \in 1 .. Len(PlanOf(x.kind, x.op)) /\ ~(x.at >= 3)
    BY <1>1, <1>4, <2>1, UpdateStep DEF StepOf
  <2> QED
    BY <1>1, <1>4, <2>2 DEF GotFits
<1>5. CASE x.op = "update" /\ x.kind = "product"
  <2>1. x.at + 1 \in 1 .. Len(PlanOf(x.kind, x.op)) /\ x.at # 9 /\ (x.at = 8 => StepOf(x) = Look)
    BY <1>1, <1>5, ProductStep DEF StepOf
  <2> QED
    BY <1>1, <1>5, <2>1 DEF GotFits
<1> QED
  BY <1>1, <1>2, <1>3, <1>4, <1>5 DEF Operations

\* A step that reads nothing keeps what was read.
LEMMA GotIsKept ==
  ASSUME NEW x, NEW K, NEW N, IsEdit(x, K, N), StepOf(x) \notin {Look, Find, Merge}
  PROVE  GotFits(x.kind, x.op, x.at + 1, x.got, N)
<1>1. /\ x.kind \in Managed /\ x.op \in Operations /\ x.at \in 1 .. Len(PlanOf(x.kind, x.op))
      /\ x.at \in Nat /\ GotFits(x.kind, x.op, x.at, x.got, N)
  BY DEF IsEdit
<1>2. CASE x.op # "update"
  BY <1>2 DEF GotFits
<1>3. CASE x.op = "update" /\ x.kind # "product"
  <2>1. x.kind \in Managed \ {"product"}
    BY <1>1, <1>3
  <2>2. x.at # 3
    BY <1>1, <1>3, <2>1, UpdateStep DEF StepOf
  <2> QED
    BY <1>1, <1>3, <2>2 DEF GotFits
<1>4. CASE x.op = "update" /\ x.kind = "product"
  <2>1. x.at # 8 /\ x.at # 9
    BY <1>1, <1>4, ProductStep DEF StepOf
  <2> QED
    BY <1>1, <1>4, <2>1 DEF GotFits
<1> QED
  BY <1>2, <1>3, <1>4

\* What a request that writes holds.
LEMMA WritersHold ==
  ASSUME NEW x, NEW K, NEW N, IsEdit(x, K, N)
  PROVE  /\ StepOf(x) = Insert => x.op = "create"
         /\ StepOf(x) = Patch => x.op = "update" /\ x.kind \in PatchedKinds
         /\ StepOf(x) = Whole => x.op = "update" /\ x.kind \notin PatchedKinds /\ IsRow(x.got, x.kind, N)
         /\ StepOf(x) = Merge => x.op = "update" /\ x.kind \notin PatchedKinds
                                 /\ (x.got = NoThing \/ IsRow(x.got, x.kind, N))
         /\ StepOf(x) = Save => x.op = "update" /\ x.kind \notin PatchedKinds /\ IsRow(x.got, x.kind, N)
<1>1. /\ x.kind \in Managed /\ x.op \in Operations /\ x.at \in 1 .. Len(PlanOf(x.kind, x.op))
      /\ x.at \in Nat /\ GotFits(x.kind, x.op, x.at, x.got, N)
  BY DEF IsEdit
<1>2. CASE x.op = "create"
  BY <1>1, <1>2, CreateStep DEF StepOf
<1>3. CASE x.op = "delete"
  <2>1. StepOf(x) \notin Writes
    BY <1>1, <1>3, DeleteStep DEF StepOf
  <2> QED
    BY <2>1 DEF Writes
<1>4. CASE x.op = "update" /\ x.kind # "product"
  <2>1. x.kind \in Managed \ {"product"}
    BY <1>1, <1>4
  <2>2. /\ StepOf(x) # Insert /\ (StepOf(x) = Patch => x.kind \in PatchedKinds)
        /\ StepOf(x) \in {Whole, Merge, Save} => x.kind \notin PatchedKinds /\ x.at >= 4
    BY <1>1, <1>4, <2>1, UpdateStep DEF StepOf
  <2> QED
    BY <1>1, <1>4, <2>2 DEF GotFits
<1>5. CASE x.op = "update" /\ x.kind = "product"
  <2>1. /\ StepOf(x) \notin {Insert, Patch, Whole} /\ (StepOf(x) = Merge => x.at = 9)
        /\ StepOf(x) = Save => x.at = 10
    BY <1>1, <1>5, ProductStep DEF StepOf
  <2> QED
    BY <1>1, <1>5, <2>1 DEF GotFits, PatchedKinds
<1> QED
  BY <1>1, <1>2, <1>3, <1>4, <1>5 DEF Operations

\* The next step of a request.
LEMMA Advanced ==
  ASSUME NEW x, NEW K, NEW N, IsEdit(x, K, N), x.at + 1 \in 1 .. Len(PlanOf(x.kind, x.op)),
         NEW got, GotFits(x.kind, x.op, x.at + 1, got, N)
  PROVE  LET y == Further(x, got)
         IN  IsEdit(y, K, N) /\ y.kind = x.kind /\ y.id = x.id /\ y # x
<1> DEFINE y == Further(x, got)
<1>1. /\ DOMAIN y = {"op", "kind", "id", "server", "at", "change", "may", "got"}
      /\ y.op = x.op /\ y.kind = x.kind /\ y.id = x.id /\ y.server = x.server /\ y.change = x.change
      /\ y.at = x.at + 1 /\ y.got = got
  BY DEF IsEdit, Further
<1>2. x.at \in Nat
  BY DEF IsEdit
<1> HIDE DEF y
<1>3. IsEdit(y, K, N)
  BY <1>1 DEF IsEdit
<1>4. y # x
  BY <1>1, <1>2
<1> QED
  BY <1>1, <1>3, <1>4 DEF y

----------------------------------------------------------------------------
(* The invariant.                                                           *)

Names == scene.names \cup {"used"}

RowIn(x, K, N) == x = NoThing \/ (x.kind \in K /\ IsRow(x, x.kind, N))

ShelfFits ==
  /\ shelf = [i \in Things |-> shelf[i]]
  /\ \A i \in Things : RowIn(shelf[i], scene.kinds, Names)

\* What is remembered of a single row, and what a read of one brings.
KeptFits(f, N) == \A key \in DOMAIN f :
                    key[1] = "single" => f[key] = NoThing \/ IsRow(f[key], key[2], N)
CopiesFit == /\ copies = [p \in Servers |-> copies[p]] /\ \A p \in Servers : KeptFits(copies[p], Names)
FlightsFit == /\ flights = [p \in Servers |-> flights[p]] /\ \A p \in Servers : KeptFits(flights[p], Names)

EditsFit ==
  /\ edits = [e \in Editors |-> edits[e]]
  /\ \A e \in Editors : edits[e] \in {NotYet, Over} \/ IsEdit(edits[e], scene.kinds, Names)

\* Who is at work on a row takes it for the kind it is.
KindsAgree ==
  /\ \A e \in Editors : Going(e) /\ There(Self(e)) => shelf[Self(e)].kind = edits[e].kind
  /\ \A e, g \in Editors : Going(e) /\ Going(g) /\ Self(e) = Self(g) => edits[e].kind = edits[g].kind

DataInv ==
  /\ scene \in Scenes /\ scene.kinds \subseteq Managed \cup UserKinds
  /\ ShelfFits /\ CopiesFit /\ FlightsFit /\ EditsFit /\ KindsAgree
  /\ dated \subseteq Servers
  /\ Resolved

----------------------------------------------------------------------------
(* What a step may do to the requests and to the shelf.                     *)

\* Request e takes a step or ends; the others stay.
Moves(e) ==
  /\ edits' = [g \in Editors |-> edits'[g]]
  /\ \A g \in Editors \ {e} : edits'[g] = edits[g]
  /\ edits'[e] # edits[e]
  /\ edits'[e] # Over => /\ IsEdit(edits'[e], scene.kinds, Names)
                         /\ edits'[e].kind = edits[e].kind /\ edits'[e].id = edits[e].id

LEMMA GoesMoves ==
  ASSUME EditsFit, NEW e \in Editors, Going(e), NEW got, Goes(e, got),
         edits[e].at + 1 \in 1 .. Len(Plan(e))
           => GotFits(edits[e].kind, edits[e].op, edits[e].at + 1, got, Names)
  PROVE  Moves(e)
<1> DEFINE x == edits[e]
           y == Further(x, got)
<1>1. IsEdit(x, scene.kinds, Names) /\ edits = [g \in Editors |-> edits[g]]
  BY DEF EditsFit, Going
<1>2. Plan(e) = PlanOf(x.kind, x.op)
  BY DEF Plan, PlanOf
<1>3. edits' = [edits EXCEPT ![e] = IF x.at = Len(Plan(e)) THEN Over ELSE y]
  BY DEF Goes
<1>4. x # Over
  BY <1>1, EditsAreMarked
<1>5. x.at \in Nat /\ Len(Plan(e)) \in Nat /\ x.at >= 1 /\ x.at <= Len(Plan(e))
  <2>1. x.at \in 1 .. Len(Plan(e))
    BY <1>1, <1>2 DEF IsEdit
  <2>2. Len(Plan(e)) \in Nat
    BY <1>1, <1>2, PlansAreSequences DEF IsEdit
  <2> QED
    BY <2>1, <2>2
<1>6. x.at # Len(Plan(e)) => IsEdit(y, scene.kinds, Names) /\ y.kind = x.kind /\ y.id = x.id /\ y # x
  <2> SUFFICES ASSUME x.at # Len(Plan(e))
               PROVE  IsEdit(y, scene.kinds, Names) /\ y.kind = x.kind /\ y.id = x.id /\ y # x
    OBVIOUS
  <2>1. x.at + 1 \in 1 .. Len(Plan(e))
    BY <1>5
  <2>2. GotFits(x.kind, x.op, x.at + 1, got, Names)
    BY <2>1
  <2>3. x.at + 1 \in 1 .. Len(PlanOf(x.kind, x.op))
    BY <1>2, <2>1
  <2> HIDE DEF x
  <2> QED
    BY <1>1, <2>2, <2>3, Advanced
<1> HIDE DEF y
<1>7. /\ edits' = [g \in Editors |-> edits'[g]] /\ \A g \in Editors \ {e} : edits'[g] = edits[g]
      /\ edits'[e] = IF x.at = Len(Plan(e)) THEN Over ELSE y
  BY <1>1, <1>3
<1> QED
  BY <1>4, <1>6, <1>7 DEF Moves

LEMMA RefusedMoves ==
  ASSUME EditsFit, NEW e \in Editors, Going(e), Refused(e)
  PROVE  Moves(e)
BY DEF EditsFit, Going, Refused, Moves

LEMMA CheckedMoves ==
  ASSUME EditsFit, NEW e \in Editors, Going(e), Goes(e, edits[e].got) \/ Refused(e),
         Now(e) \notin {Look, Find, Merge}
  PROVE  Moves(e)
<1>1. CASE Refused(e)
  BY <1>1, RefusedMoves
<1>2. CASE Goes(e, edits[e].got)
  <2>1. IsEdit(edits[e], scene.kinds, Names)
    BY DEF EditsFit, Going
  <2>2. Now(e) = StepOf(edits[e])
    BY DEF Now, StepOf, Plan, PlanOf
  <2>3. GotFits(edits[e].kind, edits[e].op, edits[e].at + 1, edits[e].got, Names)
    BY <2>1, <2>2, GotIsKept
  <2> QED
    BY <1>2, <2>3, GoesMoves
<1> QED
  BY <1>1, <1>2

\* Every request stays, ends or goes on with the row it is about.
AllMove == /\ edits' = [g \in Editors |-> edits'[g]]
           /\ \A g \in Editors :
                \/ edits'[g] \in {edits[g], Over}
                \/ /\ Going(g) /\ IsEdit(edits'[g], scene.kinds, Names)
                   /\ edits'[g].kind = edits[g].kind /\ edits'[g].id = edits[g].id

\* Only rows that requests are at work on may be new on the shelf.
ShelfFrom ==
  \A i \in Things : shelf'[i] # NoThing =>
    \/ shelf[i] # NoThing /\ shelf'[i].kind = shelf[i].kind
    \/ \E e \in Editors : Going(e) /\ i = Self(e) /\ shelf'[i].kind = edits[e].kind

LEMMA AMoveIsAll ==
  ASSUME NEW e \in Editors, Going(e), Moves(e)
  PROVE  AllMove
BY DEF Moves, AllMove

LEMMA MovesKeep ==
  ASSUME EditsFit, scene' = scene, AllMove
  PROVE  EditsFit'
<1>1. Names' = Names
  BY DEF Names
<1>2. \A g \in Editors : edits'[g] \in {NotYet, Over} \/ IsEdit(edits'[g], scene.kinds, Names)
  BY DEF AllMove, EditsFit
<1>3. \A g \in Editors : edits'[g] \in {NotYet, Over} \/ IsEdit(edits'[g], scene'.kinds, Names')
  BY <1>1, <1>2
<1> QED
  BY <1>3 DEF AllMove, EditsFit

LEMMA MovesAgree ==
  ASSUME EditsFit, KindsAgree, AllMove, ShelfFrom
  PROVE  KindsAgree'
<1>1. \A g \in Editors : Going(g)' => Going(g) /\ edits'[g].kind = edits[g].kind /\ edits'[g].id = edits[g].id
  BY DEF AllMove, Going
<1>2. \A g \in Editors : Going(g) => Self(g) \in Things
  BY DEF EditsFit, Going, Self, IsEdit
<1>3. ASSUME NEW g \in Editors, Going(g)', shelf'[edits'[g].id] # NoThing
      PROVE  shelf'[edits'[g].id].kind = edits'[g].kind
  <2>1. Going(g) /\ edits'[g].kind = edits[g].kind /\ edits'[g].id = edits[g].id /\ edits[g].id \in Things
    BY <1>1, <1>2, <1>3 DEF Self
  <2>2. CASE shelf[edits[g].id] # NoThing /\ shelf'[edits[g].id].kind = shelf[edits[g].id].kind
    BY <2>1, <2>2 DEF KindsAgree, There, Self
  <2>3. ASSUME NEW e \in Editors, Going(e), edits[g].id = edits[e].id, shelf'[edits[g].id].kind = edits[e].kind
        PROVE  shelf'[edits'[g].id].kind = edits'[g].kind
    BY <2>1, <2>3 DEF KindsAgree, Self
  <2> QED
    BY <1>3, <2>1, <2>2, <2>3 DEF ShelfFrom, Self
<1>4. ASSUME NEW g \in Editors, NEW h \in Editors, Going(g)', Going(h)', edits'[g].id = edits'[h].id
      PROVE  edits'[g].kind = edits'[h].kind
  BY <1>1, <1>4 DEF KindsAgree, Self
<1> QED
  BY <1>3, <1>4 DEF KindsAgree, There, Self

----------------------------------------------------------------------------
(* What a step may do to the rows.                                          *)

LEMMA ShelfStays ==
  ASSUME ShelfFits, Resolved, shelf' = shelf, scene' = scene
  PROVE  ShelfFits' /\ Resolved' /\ ShelfFrom
<1>1. Names' = Names /\ ShelfFrom
  BY DEF Names, ShelfFrom
<1>2. ShelfFits'
  BY <1>1 DEF ShelfFits, There
<1>3. \A k, refs : Complete(k, refs) <=> Complete(k, refs)'
  BY DEF Complete, There
<1>4. Resolved'
  BY <1>3 DEF Resolved, There
<1> QED
  BY <1>1, <1>2, <1>4

\* What a product, an ingredient, a sale or a purchase must refer to, it
\* refers to by a foreign key.
LEMMA NeededIsKeyed ==
  ASSUME NEW k, k # "topping"
  PROVE  Needed(k) \subseteq KeyedTo(k)
BY DEF Needed, KeyedTo

\* A row is put on the shelf, in its own place, and what it refers to is there.
LEMMA RowIsPut ==
  ASSUME ShelfFits, Resolved, scene' = scene,
         NEW i \in Things, NEW k \in scene.kinds, NEW row, IsRow(row, k, Names),
         There(i) => shelf[i].kind = k,
         \A j \in row.refs : There(j),
         k # "topping" => Complete(k, row.refs),
         shelf' = [shelf EXCEPT ![i] = row]
  PROVE  ShelfFits' /\ Resolved'
<1>1. Names' = Names /\ scene.kinds' = scene.kinds
  BY DEF Names
<1>2. shelf' = [j \in Things |-> shelf'[j]] /\ \A j \in Things : shelf'[j] = IF j = i THEN row ELSE shelf[j]
  BY DEF ShelfFits
<1>3. row # NoThing /\ row.kind = k /\ row.refs \subseteq Things
  BY NothingIsNoRow DEF IsRow
<1>4. \A j \in Things : RowIn(shelf'[j], scene.kinds, Names)
  BY <1>2, <1>3 DEF ShelfFits, RowIn
<1>5. ShelfFits'
  BY <1>1, <1>2, <1>4 DEF ShelfFits
<1>8. \A j \in Things : There(j) => shelf'[j] # NoThing /\ shelf'[j].kind = shelf[j].kind
  BY <1>2, <1>3 DEF There
<1>9. ASSUME NEW a \in Things, shelf'[a] # NoThing
      PROVE  /\ \A j \in shelf'[a].refs : There(j) /\ j \in Things
             /\ shelf'[a].kind # "topping" => Complete(shelf'[a].kind, shelf'[a].refs)
  <2>1. CASE a = i
    BY <1>2, <1>3, <2>1
  <2>2. CASE a # i
    BY <1>2, <1>9, <2>2 DEF Resolved, There, ShelfFits, RowIn, IsRow
  <2> QED
    BY <2>1, <2>2
<1>10. ASSUME NEW a \in Things, shelf'[a] # NoThing
       PROVE  /\ \A j \in shelf'[a].refs : shelf'[j] # NoThing
              /\ shelf'[a].kind # "topping" =>
                   \A t \in Needed(shelf'[a].kind) \cap scene'.kinds :
                     \E j \in shelf'[a].refs : shelf'[j] # NoThing /\ shelf'[j].kind = t
  BY <1>1, <1>8, <1>9, <1>10 DEF Complete
<1>11. Resolved'
  BY <1>10 DEF Resolved, Complete, There
<1> QED
  BY <1>5, <1>11

LEMMA TrimmedRow ==
  ASSUME NEW x, NEW k, NEW N, IsRow(x, k, N), NEW i
  PROVE  LET y == [x EXCEPT !.refs = @ \ {i}]
         IN  /\ IsRow(y, k, N) /\ y # NoThing /\ y.refs = x.refs \ {i} /\ y.name = x.name /\ y.on = x.on
             /\ k \in PatchedKinds => y.refs = x.refs
<1> DEFINE y == [x EXCEPT !.refs = @ \ {i}]
<1>1. /\ DOMAIN y = {"kind", "name", "on", "refs"} /\ y.kind = x.kind /\ y.name = x.name /\ y.on = x.on
      /\ y.refs = x.refs \ {i}
  BY DEF IsRow
<1> HIDE DEF y
<1>2. IsRow(y, k, N) /\ (k \in PatchedKinds => y.refs = x.refs)
  BY <1>1 DEF IsRow
<1> QED
  BY <1>1, <1>2, NothingIsNoRow DEF y

\* A row that no foreign key holds is taken off the shelf.
LEMMA RowIsTaken ==
  ASSUME ShelfFits, Resolved, scene' = scene,
         NEW i \in Things, ~Held(i), shelf' = Without(i)
  PROVE  /\ ShelfFits' /\ Resolved' /\ ShelfFrom
         /\ \A j \in Things : shelf'[j] # NoThing =>
              /\ shelf[j] # NoThing /\ shelf'[j].kind = shelf[j].kind /\ shelf'[j].name = shelf[j].name
              /\ shelf'[j].on = shelf[j].on /\ (shelf[j].kind \in PatchedKinds => shelf'[j].refs = shelf[j].refs)
<1>1. Names' = Names /\ scene.kinds' = scene.kinds
  BY DEF Names
<1>2. /\ shelf' = [j \in Things |-> shelf'[j]]
      /\ shelf'[i] = NoThing
      /\ \A j \in Things \ {i} :
           shelf'[j] = IF There(j) /\ shelf[i].kind \notin HeldBy(shelf[j].kind)
                       THEN [shelf[j] EXCEPT !.refs = @ \ {i}] ELSE shelf[j]
  BY DEF Without
<1>4. ASSUME NEW j \in Things \ {i}, There(j)
      PROVE  /\ shelf'[j] # NoThing /\ shelf[j].kind \in scene.kinds
             /\ IsRow(shelf[j], shelf[j].kind, Names) /\ IsRow(shelf'[j], shelf[j].kind, Names)
             /\ shelf'[j].refs = shelf[j].refs \ {i}
             /\ shelf'[j].name = shelf[j].name /\ shelf'[j].on = shelf[j].on
             /\ shelf[j].kind \in PatchedKinds => shelf'[j].refs = shelf[j].refs
  <2>1. shelf[j].kind \in scene.kinds /\ IsRow(shelf[j], shelf[j].kind, Names)
    BY <1>4 DEF ShelfFits, RowIn, There
  <2>2. CASE shelf[i].kind \notin HeldBy(shelf[j].kind)
    <3>1. shelf'[j] = [shelf[j] EXCEPT !.refs = @ \ {i}]
      BY <1>2, <1>4, <2>2
    <3> QED
      BY <2>1, <3>1, TrimmedRow
  <2>3. CASE shelf[i].kind \in HeldBy(shelf[j].kind)
    <3>1. i \notin shelf[j].refs
      BY <1>4, <2>3 DEF Held
    <3>2. shelf'[j] = shelf[j]
      BY <1>2, <1>4, <2>3
    <3> QED
      BY <1>4, <2>1, <3>1, <3>2 DEF There
  <2> QED
    BY <2>1, <2>2, <2>3
<1>3. ASSUME NEW j \in Things, shelf'[j] # NoThing
      PROVE  /\ There(j) /\ j # i /\ shelf[j].kind \in scene.kinds /\ IsRow(shelf[j], shelf[j].kind, Names)
             /\ IsRow(shelf'[j], shelf[j].kind, Names) /\ shelf'[j].refs = shelf[j].refs \ {i}
             /\ shelf'[j].name = shelf[j].name /\ shelf'[j].on = shelf[j].on
             /\ shelf[j].kind \in PatchedKinds => shelf'[j].refs = shelf[j].refs
  BY <1>2, <1>3, <1>4 DEF There
<1>5. \A j \in Things : shelf'[j] # NoThing => shelf'[j].kind = shelf[j].kind
  BY <1>3 DEF IsRow
<1>6. \A j \in Things : RowIn(shelf'[j], scene.kinds, Names)
  BY <1>3, <1>5 DEF RowIn
<1>7. ShelfFits'
  BY <1>1, <1>2, <1>6 DEF ShelfFits
<1>9. ASSUME NEW a \in Things, shelf'[a] # NoThing
      PROVE  /\ \A j \in shelf'[a].refs : shelf'[j] # NoThing
             /\ shelf'[a].kind # "topping" =>
                  \A t \in Needed(shelf'[a].kind) \cap scene'.kinds :
                    \E j \in shelf'[a].refs : shelf'[j] # NoThing /\ shelf'[j].kind = t
  <2>1. /\ There(a) /\ shelf'[a].kind = shelf[a].kind /\ shelf'[a].refs = shelf[a].refs \ {i}
        /\ shelf[a].refs \subseteq Things
    BY <1>3, <1>5, <1>9 DEF IsRow
  <2>2. \A j \in shelf'[a].refs : shelf'[j] # NoThing
    BY <1>4, <2>1 DEF Resolved
  <2>3. ASSUME shelf[a].kind # "topping", NEW t \in Needed(shelf[a].kind) \cap scene.kinds
        PROVE  \E j \in shelf'[a].refs : shelf'[j] # NoThing /\ shelf'[j].kind = t
    <3>1. PICK j \in shelf[a].refs : There(j) /\ shelf[j].kind = t
      BY <2>1, <2>3 DEF Resolved, Complete
    <3>2. t \in KeyedTo(shelf[a].kind)
      BY <2>3, NeededIsKeyed
    <3>3. j # i
      BY <2>1, <3>1, <3>2 DEF Held, HeldBy
    <3> QED
      BY <1>4, <1>5, <2>1, <3>1, <3>3
  <2> QED
    BY <1>1, <2>1, <2>2, <2>3
<1>10. Resolved'
  BY <1>9 DEF Resolved, Complete, There
<1>11. ShelfFrom
  BY <1>3, <1>5 DEF ShelfFrom, There
<1> QED
  BY <1>3, <1>5, <1>7, <1>10, <1>11 DEF There
----------------------------------------------------------------------------
(* Every step keeps the invariant.                                          *)

LEMMA Together ==
  ASSUME DataInv, scene' = scene, AllMove, ShelfFrom, ShelfFits', Resolved',
         CopiesFit', FlightsFit', dated' \subseteq Servers
  PROVE  DataInv'
<1>1. EditsFit' /\ KindsAgree'
  BY MovesKeep, MovesAgree DEF DataInv
<1>2. scene' \in Scenes /\ scene'.kinds \subseteq Managed \cup UserKinds
  BY DEF DataInv
<1> QED
  BY <1>1, <1>2 DEF DataInv

LEMMA MemoryStays ==
  ASSUME scene' = scene
  PROVE  /\ CopiesFit /\ copies' = copies => CopiesFit'
         /\ FlightsFit /\ flights' = flights => FlightsFit'
BY DEF CopiesFit, FlightsFit, Names

LEMMA RequestsStay ==
  ASSUME EditsFit, edits' = edits
  PROVE  AllMove
BY DEF EditsFit, AllMove

LEMMA PutFits ==
  ASSUME NEW f, NEW N, KeptFits(f, N), NEW key, NEW v,
         key[1] = "single" => v = NoThing \/ IsRow(v, key[2], N)
  PROVE  KeptFits(Put(f, key, v), N)
BY DEF KeptFits, Put

LEMMA DropFits ==
  ASSUME NEW f, NEW N, KeptFits(f, N), NEW keys
  PROVE  KeptFits(Drop(f, keys), N)
BY DEF KeptFits, Drop

\* A step that only moves requests and what the servers remember.
LEMMA RowsAside ==
  ASSUME DataInv, AllMove, shelf' = shelf, scene' = scene,
         CopiesFit', FlightsFit', dated' \subseteq Servers
  PROVE  DataInv'
BY ShelfStays, Together DEF DataInv

LEMMA QuietSteps ==
  \A x \in {Gate, Remove, Announce, Insert, Patch, Whole, Save} \cup Checks \cup Unuseds :
    x \notin {Look, Find, Merge}
<1>1. Find \notin {Gate, Remove, Announce, Insert, Patch, Whole, Save} \cup Checks \cup Unuseds
  BY DEF Checks, Unuseds, Withs, With, Active, Unused, Insert, Patch, Whole, Save, Gate,
         Find, Remove, Announce, Found, Unnamed, Name, NewName, Again, Sync
<1>2. Look \in Reads /\ Merge \in Writes /\ {Insert, Patch, Whole, Save} \subseteq Writes
  BY DEF Reads, Writes
<1> QED
  BY <1>1, <1>2, Differ

LEMMA GoingIsEdit ==
  ASSUME EditsFit, NEW e \in Editors, Going(e)
  PROVE  /\ IsEdit(edits[e], scene.kinds, Names) /\ Now(e) = StepOf(edits[e])
         /\ Self(e) \in Things /\ edits[e].kind \in Managed \cap scene.kinds /\ edits[e].server \in Servers
<1>1. IsEdit(edits[e], scene.kinds, Names)
  BY DEF EditsFit, Going
<1>2. Now(e) = StepOf(edits[e])
  BY DEF Now, StepOf, Plan, PlanOf
<1> QED
  BY <1>1, <1>2 DEF IsEdit, Self

LEMMA CheckMoves ==
  ASSUME DataInv, NEW e \in Editors, Check(e)
  PROVE  Going(e) /\ Moves(e)
<1>0. EditsFit
  BY DEF DataInv
<1>1. ASSUME NEW step \in {Gate} \cup Checks \cup Unuseds, At(e, step), Goes(e, edits[e].got) \/ Refused(e)
      PROVE  Going(e) /\ Moves(e)
  BY <1>0, <1>1, QuietSteps, CheckedMoves DEF At
<1>2. CASE DoGate(e)
  BY <1>1, <1>2 DEF DoGate, Checked
<1>3. CASE DoFound(e)
  BY <1>1, <1>3, StepSets DEF DoFound, Checked
<1>4. CASE DoUnnamed(e)
  BY <1>1, <1>4, StepSets DEF DoUnnamed, Checked
<1>5. CASE DoFind(e)
  <2>1. Going(e) /\ (IF There(Self(e)) THEN Goes(e, shelf[Self(e)]) ELSE Refused(e))
    BY <1>5 DEF DoFind, At
  <2>2. CASE There(Self(e))
    <3>1. IsRow(shelf[Self(e)], edits[e].kind, Names)
      BY <1>0, <2>1, <2>2, GoingIsEdit DEF DataInv, ShelfFits, RowIn, KindsAgree, There
    <3>2. \A n : GotFits(edits[e].kind, edits[e].op, n, shelf[Self(e)], Names)
      BY <3>1 DEF GotFits
    <3> QED
      BY <1>0, <2>1, <2>2, <3>2, GoesMoves
  <2>3. CASE ~There(Self(e))
    BY <1>0, <2>1, <2>3, RefusedMoves
  <2> QED
    BY <2>1, <2>2, <2>3
<1>6. CASE DoName(e)
  <2>1. \/ At(e, Name) /\ (Goes(e, edits[e].got) \/ Refused(e))
        \/ At(e, NewName) /\ (Goes(e, edits[e].got) \/ Refused(e))
    BY <1>6 DEF DoName, Checked
  <2> QED
    BY <1>1, <2>1, StepSets
<1>7. CASE DoAgain(e)
  BY <1>1, <1>7, StepSets DEF DoAgain, Checked
<1>8. CASE DoSync(e)
  BY <1>1, <1>8, StepSets DEF DoSync, Checked
<1>9. CASE DoWith(e)
  <2>1. PICK k \in References : At(e, With(k)) /\ (Goes(e, edits[e].got) \/ Refused(e))
    BY <1>9 DEF DoWith, Checked
  <2> QED
    BY <1>1, <2>1, StepSets
<1>10. CASE DoActive(e)
  <2>1. PICK k \in References : At(e, Active(k)) /\ (Goes(e, edits[e].got) \/ Refused(e))
    BY <1>10 DEF DoActive, Checked
  <2> QED
    BY <1>1, <2>1, StepSets
<1>11. CASE DoUnused(e)
  <2>1. PICK k \in Referrers : At(e, Unused(k)) /\ (Goes(e, edits[e].got) \/ Refused(e))
    BY <1>11 DEF DoUnused, Checked
  <2> QED
    BY <1>1, <2>1, StepSets
<1> QED
  BY <1>2, <1>3, <1>4, <1>5, <1>6, <1>7, <1>8, <1>9, <1>10, <1>11 DEF Check

LEMMA CheckKeeps ==
  ASSUME DataInv, NEW e \in Editors, Check(e)
  PROVE  DataInv'
<1>1. AllMove
  BY CheckMoves, AMoveIsAll
<1>2. shelf' = shelf /\ copies' = copies /\ flights' = flights /\ scene' = scene /\ dated' = dated
  BY DEF Check
<1> QED
  BY <1>1, <1>2, MemoryStays, RowsAside DEF DataInv

\* What a request that looks something up goes on with.
LEMMA AskerGoesOn ==
  ASSUME DataInv, NEW e \in Editors, NEW p, NEW key, Asks(e, p, key), NEW got,
         key[1] = "single" => got = NoThing \/ IsRow(got, key[2], Names)
  PROVE  /\ Going(e) /\ edits[e].at + 1 \in 1 .. Len(Plan(e))
         /\ GotFits(edits[e].kind, edits[e].op, edits[e].at + 1, got, Names)
<1>1. Going(e) /\ Now(e) \in Reads /\ EditsFit
  BY StepSets DEF Asks, At, DataInv
<1>2. IsEdit(edits[e], scene.kinds, Names) /\ Now(e) = StepOf(edits[e]) /\ Plan(e) = PlanOf(edits[e].kind, edits[e].op)
  BY <1>1, GoingIsEdit DEF Plan, PlanOf
<1>3. Now(e) = Look => key[1] = "single" /\ key[2] = edits[e].kind
  BY <1>1 DEF Asks, KeyOf, At
<1> QED
  BY <1>1, <1>2, <1>3, ReadsGoOn

LEMMA LookKeeps ==
  ASSUME DataInv, NEW e \in Editors, LookAtCopy(e) \/ LookForNoName(e)
  PROVE  DataInv'
<1>1. CASE LookAtCopy(e)
  <2>1. PICK p \in Servers, key \in Keys : Asks(e, p, key) /\ HasCopy(p, key) /\ Goes(e, copies[p][key])
    BY <1>1 DEF LookAtCopy
  <2>2. key[1] = "single" => copies[p][key] = NoThing \/ IsRow(copies[p][key], key[2], Names)
    BY <2>1 DEF DataInv, CopiesFit, KeptFits, HasCopy
  <2>3. AllMove
    BY <2>1, <2>2, AskerGoesOn, GoesMoves, AMoveIsAll DEF DataInv
  <2>4. shelf' = shelf /\ copies' = copies /\ flights' = flights /\ scene' = scene /\ dated' = dated
    BY <1>1 DEF LookAtCopy
  <2> QED
    BY <2>3, <2>4, MemoryStays, RowsAside DEF DataInv
<1>2. CASE LookForNoName(e)
  <2>1. At(e, LookName) /\ Goes(e, [found |-> {}])
    BY <1>2 DEF LookForNoName
  <2>2. Going(e) /\ StepOf(edits[e]) = LookName /\ LookName \in Reads /\ LookName # Look
    BY <2>1, GoingIsEdit, StepSets DEF At, DataInv, Look, LookName
  <2>3. GotFits(edits[e].kind, edits[e].op, edits[e].at + 1, [found |-> {}], Names)
    BY <2>2, GoingIsEdit, ReadsGoOn DEF DataInv
  <2>4. AllMove
    BY <2>1, <2>2, <2>3, GoesMoves, AMoveIsAll DEF DataInv
  <2>5. shelf' = shelf /\ copies' = copies /\ flights' = flights /\ scene' = scene /\ dated' = dated
    BY <1>2 DEF LookForNoName
  <2> QED
    BY <2>4, <2>5, MemoryStays, RowsAside DEF DataInv
<1> QED
  BY <1>1, <1>2

LEMMA FailKeeps ==
  ASSUME DataInv, NEW e \in Editors, Fail(e)
  PROVE  DataInv'
<1>1. Going(e) /\ Refused(e) /\ dated' = dated \cup {edits[e].server}
  BY DEF Fail
<1>2. shelf' = shelf /\ copies' = copies /\ flights' = flights /\ scene' = scene
  BY DEF Fail
<1>3. AllMove
  BY <1>1, RefusedMoves, AMoveIsAll DEF DataInv
<1>4. dated' \subseteq Servers
  BY <1>1, GoingIsEdit DEF DataInv
<1> QED
  BY <1>2, <1>3, <1>4, MemoryStays, RowsAside DEF DataInv

\* The keys of single rows.
LEMMA KeyShape ==
  ASSUME DataInv, NEW key \in Keys, key[1] = "single"
  PROVE  key[2] # "none" /\ key[3] \in Things
<1>1. PICK k \in scene.kinds \ UserKinds : key \in KindKeys(k) \cup {<<"single", k, i>> : i \in Things}
  BY DEF Keys
<1>2. key \notin KindKeys(k)
  BY DEF KindKeys
<1>3. PICK i \in Things : key = <<"single", k, i>>
  BY <1>1, <1>2
<1>4. k # "none"
  BY <1>1 DEF DataInv, Managed, PosKinds, StockKinds, UserKinds
<1> QED
  BY <1>3, <1>4

LEMMA FetchKeeps ==
  ASSUME DataInv, NEW p \in Servers, NEW key \in Keys, Fetch(p, key)
  PROVE  DataInv'
<1>1. /\ shelf' = shelf /\ copies' = copies /\ edits' = edits /\ scene' = scene /\ dated' = dated
      /\ flights' = [flights EXCEPT ![p] = Put(@, key, Stored(key))]
  BY DEF Fetch
<1>2. key[1] = "single" => Stored(key) = NoThing \/ IsRow(Stored(key), key[2], Names)
  BY KeyShape DEF Stored, OfKind, DataInv, ShelfFits, RowIn, NoThing
<1>3. flights = [q \in Servers |-> flights[q]] /\ \A q \in Servers : KeptFits(flights[q], Names)
  BY DEF DataInv, FlightsFit
<1>4. KeptFits(Put(flights[p], key, Stored(key)), Names)
  BY <1>2, <1>3, PutFits
<1>5. Names' = Names
  BY <1>1 DEF Names
<1>6. FlightsFit'
  BY <1>1, <1>3, <1>4, <1>5 DEF FlightsFit
<1> QED
  BY <1>1, <1>6, MemoryStays, RequestsStay, RowsAside DEF DataInv

LEMMA ExpireKeeps ==
  ASSUME DataInv, NEW p \in Servers, NEW key \in Keys, Expire(p, key)
  PROVE  DataInv'
<1>1. /\ shelf' = shelf /\ flights' = flights /\ edits' = edits /\ scene' = scene /\ dated' = dated
      /\ copies' = [copies EXCEPT ![p] = Drop(@, {key})]
  BY DEF Expire
<1>3. copies = [q \in Servers |-> copies[q]] /\ \A q \in Servers : KeptFits(copies[q], Names)
  BY DEF DataInv, CopiesFit
<1>4. KeptFits(Drop(copies[p], {key}), Names)
  BY <1>3, DropFits
<1>5. Names' = Names
  BY <1>1 DEF Names
<1>6. CopiesFit'
  BY <1>1, <1>3, <1>4, <1>5 DEF CopiesFit
<1> QED
  BY <1>1, <1>6, MemoryStays, RequestsStay, RowsAside DEF DataInv

LEMMA LandKeeps ==
  ASSUME DataInv, NEW p \in Servers, NEW key \in Keys, Land(p, key)
  PROVE  DataInv'
<1> DEFINE v == flights[p][key]
<1>1. /\ shelf' = shelf /\ scene' = scene /\ dated' = dated /\ key \in DOMAIN flights[p]
      /\ flights' = [flights EXCEPT ![p] = Drop(@, {key})]
      /\ copies' = [copies EXCEPT ![p] = IF key[1] = scene.keeps THEN Put(@, key, v) ELSE @]
      /\ edits' = [e \in Editors |-> IF Asks(e, p, key) THEN Further(edits[e], v) ELSE edits[e]]
  BY DEF Land, OnItsWay
<1>2. Names' = Names
  BY <1>1 DEF Names
<1>3. flights = [q \in Servers |-> flights[q]] /\ \A q \in Servers : KeptFits(flights[q], Names)
  BY DEF DataInv, FlightsFit
<1>4. copies = [q \in Servers |-> copies[q]] /\ \A q \in Servers : KeptFits(copies[q], Names)
  BY DEF DataInv, CopiesFit
<1>5. key[1] = "single" => v = NoThing \/ IsRow(v, key[2], Names)
  BY <1>1, <1>3 DEF KeptFits
<1> HIDE DEF v
<1>6. KeptFits(Drop(flights[p], {key}), Names) /\ KeptFits(Put(copies[p], key, v), Names)
  BY <1>3, <1>4, <1>5, DropFits, PutFits
<1>7. FlightsFit'
  BY <1>1, <1>2, <1>3, <1>6 DEF FlightsFit
<1>8. CopiesFit'
  BY <1>1, <1>2, <1>4, <1>6 DEF CopiesFit
<1>9. AllMove
  <2>1. ASSUME NEW e \in Editors, Asks(e, p, key)
        PROVE  /\ Going(e) /\ IsEdit(Further(edits[e], v), scene.kinds, Names)
               /\ Further(edits[e], v).kind = edits[e].kind /\ Further(edits[e], v).id = edits[e].id
    <3>1. /\ Going(e) /\ edits[e].at + 1 \in 1 .. Len(Plan(e))
          /\ GotFits(edits[e].kind, edits[e].op, edits[e].at + 1, v, Names)
      BY <1>5, <2>1, AskerGoesOn
    <3>2. IsEdit(edits[e], scene.kinds, Names) /\ Plan(e) = PlanOf(edits[e].kind, edits[e].op)
      BY <3>1, GoingIsEdit DEF DataInv, Plan, PlanOf
    <3> QED
      BY <3>1, <3>2, Advanced
  <2>2. \A e \in Editors : edits'[e] = IF Asks(e, p, key) THEN Further(edits[e], v) ELSE edits[e]
    BY <1>1
  <2>3. edits' = [e \in Editors |-> edits'[e]]
    BY <1>1
  <2> QED
    BY <2>1, <2>2, <2>3 DEF AllMove
<1> QED
  BY <1>1, <1>7, <1>8, <1>9, RowsAside DEF DataInv
\* A request that starts is about a row of the kind it takes it for.
LEMMA StartKeeps ==
  ASSUME DataInv, NEW e \in Editors, NEW p \in Servers, NEW k \in scene.kinds \cap Managed,
         NEW op \in Operations, NEW i \in Things, NEW c, NEW may,
         edits[e] = NotYet, ChangeFits(k, op, c, Names), Started(e, p, k, op, i, c, may),
         \/ There(i) /\ shelf[i].kind = k
         \/ ~There(i) /\ \A g \in Editors : Going(g) => Self(g) # i,
         shelf' = shelf, copies' = copies, flights' = flights, scene' = scene, dated' = dated
  PROVE  DataInv'
<1> DEFINE x == [op |-> op, kind |-> k, id |-> i, server |-> p, at |-> 1, change |-> c, may |-> may, got |-> NoThing]
<1>1. edits' = [edits EXCEPT ![e] = x]
  BY DEF Started
<1>2. 1 \in 1 .. Len(PlanOf(k, op)) /\ GotFits(k, op, 1, NoThing, Names)
  BY PlansAreSequences DEF GotFits
<1>3. IsEdit(x, scene.kinds, Names) /\ x.kind = k /\ x.id = i
  BY <1>2 DEF IsEdit
<1> HIDE DEF x
<1>4. x \notin {NotYet, Over}
  BY <1>3, EditsAreMarked
<1>5. /\ edits' = [g \in Editors |-> edits'[g]]
      /\ \A g \in Editors : edits'[g] = IF g = e THEN x ELSE edits[g]
  BY <1>1 DEF DataInv, EditsFit
<1>6. Names' = Names
  BY DEF Names
<1>7. EditsFit'
  <2>1. \A g \in Editors : edits'[g] \in {NotYet, Over} \/ IsEdit(edits'[g], scene.kinds, Names)
    BY <1>3, <1>5 DEF DataInv, EditsFit
  <2>2. \A g \in Editors : edits'[g] \in {NotYet, Over} \/ IsEdit(edits'[g], scene'.kinds, Names')
    BY <1>6, <2>1
  <2> QED
    BY <1>5, <2>2 DEF EditsFit
<1>8. \A g \in Editors \ {e} : (Going(g)' <=> Going(g)) /\ edits'[g] = edits[g]
  BY <1>5 DEF Going
<1>9. \A g \in Editors : Going(g) /\ Self(g) = i => edits[g].kind = k
  BY DEF DataInv, KindsAgree
<1>10. ASSUME NEW g \in Editors, Going(g)', shelf[edits'[g].id] # NoThing
       PROVE  shelf[edits'[g].id].kind = edits'[g].kind
  <2>1. CASE g = e
    BY <1>3, <1>5, <1>10, <2>1 DEF There
  <2>2. CASE g # e
    BY <1>8, <1>10, <2>2 DEF DataInv, KindsAgree, There, Self
  <2> QED
    BY <2>1, <2>2
<1>11. ASSUME NEW g \in Editors, NEW h \in Editors, Going(g)', Going(h)', edits'[g].id = edits'[h].id
       PROVE  edits'[g].kind = edits'[h].kind
  <2>1. CASE g = e /\ h = e
    BY <2>1
  <2>2. CASE g = e /\ h # e
    BY <1>3, <1>5, <1>8, <1>9, <1>11, <2>2 DEF Self
  <2>3. CASE g # e /\ h = e
    BY <1>3, <1>5, <1>8, <1>9, <1>11, <2>3 DEF Self
  <2>4. CASE g # e /\ h # e
    BY <1>8, <1>11, <2>4 DEF DataInv, KindsAgree, Self
  <2> QED
    BY <2>1, <2>2, <2>3, <2>4
<1>12. KindsAgree'
  BY <1>10, <1>11 DEF KindsAgree, There, Self
<1>13. ShelfFits' /\ Resolved' /\ CopiesFit' /\ FlightsFit'
  BY ShelfStays, MemoryStays DEF DataInv
<1> QED
  BY <1>7, <1>12, <1>13 DEF DataInv

LEMMA RefSetsFit ==
  ASSUME NEW k, NEW r \in RefSets(k)
  PROVE  /\ r \subseteq Things
         /\ \A j \in r : There(j) /\ shelf[j].kind \in KeyedTo(k) \cup JoinedTo(k)
         /\ k \in PatchedKinds => r = {}
<1>1. r \subseteq Things /\ \A j \in r : shelf[j].kind \in KeyedTo(k) \cup JoinedTo(k)
  BY DEF RefSets
<1>2. "none" \notin KeyedTo(k) \cup JoinedTo(k)
  BY DEF KeyedTo, JoinedTo
<1>3. k \in PatchedKinds => KeyedTo(k) = {} /\ JoinedTo(k) = {}
  BY DEF KeyedTo, JoinedTo, PatchedKinds
<1> QED
  BY <1>1, <1>2, <1>3 DEF There, NoThing

LEMMA StartsKeep ==
  ASSUME DataInv, NEW e \in Editors, NEW p \in Servers,
         StartCreate(e, p) \/ StartUpdate(e, p) \/ StartDelete(e, p)
  PROVE  DataInv'
<1>0. \A i \in Things : There(i) => shelf[i].kind \in scene.kinds
  BY DEF DataInv, ShelfFits, RowIn, There
<1>1. CASE StartCreate(e, p)
  <2>1. PICK k \in scene.kinds \ UserKinds, i \in FreeThings :
          \E d \in Drafts(k) : Started(e, p, k, "create", i, d, {})
    BY <1>1 DEF StartCreate
  <2>2. PICK d \in Drafts(k) : Started(e, p, k, "create", i, d, {})
    BY <2>1
  <2>3. PICK n \in scene.names, r \in RefSets(k) : d = Row(k, n, r)
    BY DEF Drafts
  <2>4. ChangeFits(k, "create", d, Names)
    BY <2>3, RefSetsFit DEF ChangeFits, IsRow, Row, Names
  <2>5. /\ edits[e] = NotYet /\ k \in scene.kinds \cap Managed /\ i \in Things /\ "create" \in Operations
        /\ ~There(i) /\ \A g \in Editors : Going(g) => Self(g) # i
    BY <1>1 DEF StartCreate, FreeThings, DataInv, Operations
  <2>6. shelf' = shelf /\ copies' = copies /\ flights' = flights /\ scene' = scene /\ dated' = dated
    BY <1>1 DEF StartCreate
  <2> QED
    BY <2>2, <2>4, <2>5, <2>6, StartKeeps
<1>2. CASE StartUpdate(e, p)
  <2>1. PICK i \in Things :
          /\ There(i) /\ shelf[i].kind \notin UserKinds
          /\ \E c \in Changes(shelf[i].kind), may \in Grants : Started(e, p, shelf[i].kind, "update", i, c, may)
    BY <1>2 DEF StartUpdate
  <2>2. PICK c \in Changes(shelf[i].kind), may \in Grants : Started(e, p, shelf[i].kind, "update", i, c, may)
    BY <2>1
  <2> DEFINE k == shelf[i].kind
  <2>3. \A r \in RefSets(k) : r \subseteq Things /\ (k \in PatchedKinds => r = {})
    BY RefSetsFit
  <2>4. c \in [name : scene.names] \/ c \in [on : {FALSE}] \/ c \in [refs : RefSets(k)]
    BY DEF Changes
  <2>5. ChangeFits(k, "update", c, Names)
    BY <2>3, <2>4 DEF ChangeFits, Names, Fields
  <2>6. edits[e] = NotYet /\ k \in scene.kinds \cap Managed /\ "update" \in Operations
    BY <1>0, <1>2, <2>1 DEF StartUpdate, DataInv, Operations
  <2>7. shelf' = shelf /\ copies' = copies /\ flights' = flights /\ scene' = scene /\ dated' = dated
    BY <1>2 DEF StartUpdate
  <2> QED
    BY <2>1, <2>2, <2>5, <2>6, <2>7, StartKeeps
<1>3. CASE StartDelete(e, p)
  <2>1. PICK i \in Things :
          There(i) /\ shelf[i].kind \notin UserKinds /\ Started(e, p, shelf[i].kind, "delete", i, NoChange, {})
    BY <1>3 DEF StartDelete
  <2>2. edits[e] = NotYet /\ shelf[i].kind \in scene.kinds \cap Managed /\ "delete" \in Operations
    BY <1>0, <1>3, <2>1 DEF StartDelete, DataInv, Operations
  <2>3. ChangeFits(shelf[i].kind, "delete", NoChange, Names)
    BY DEF ChangeFits
  <2>4. shelf' = shelf /\ copies' = copies /\ flights' = flights /\ scene' = scene /\ dated' = dated
    BY <1>3 DEF StartDelete
  <2> QED
    BY <2>1, <2>2, <2>3, <2>4, StartKeeps
<1> QED
  BY <1>1, <1>2, <1>3

LEMMA UseKeeps ==
  ASSUME DataInv, NEW k \in UserKinds, Use(k)
  PROVE  DataInv'
<1>1. PICK i \in FreeThings, r \in RefSets(k) \ {{}} : shelf' = [shelf EXCEPT ![i] = Row(k, "used", r)]
  BY DEF Use
<1>2. /\ k \in scene.kinds /\ i \in Things /\ ~There(i) /\ \A g \in Editors : Going(g) => Self(g) # i
      /\ copies' = copies /\ flights' = flights /\ edits' = edits /\ scene' = scene /\ dated' = dated
  BY DEF Use, FreeThings
<1> DEFINE row == Row(k, "used", r)
<1>3. k \notin PatchedKinds \cup ExactIndex \cup FoldedIndex /\ k # "topping" /\ Needed(k) = {}
  BY DEF UserKinds, PatchedKinds, ExactIndex, FoldedIndex, Needed
<1>4. IsRow(row, k, Names) /\ row.refs = r /\ row.kind = k
  BY <1>3, RefSetsFit DEF IsRow, Row, Names
<1>5. ~Clashes(k, row.name, i) /\ Complete(k, row.refs) /\ \A j \in row.refs : There(j)
  BY <1>3, <1>4, RefSetsFit DEF Clashes, Complete
<1> HIDE DEF row
<1>6. shelf' = [shelf EXCEPT ![i] = row]
  BY <1>1 DEF row
<1>7. ShelfFits' /\ Resolved'
  BY <1>2, <1>4, <1>5, <1>6, RowIsPut DEF DataInv
<1>8. \A j \in Things \ {i} : shelf'[j] = shelf[j]
  BY <1>6 DEF DataInv, ShelfFits
<1>9. \A g \in Editors : (Going(g)' <=> Going(g)) /\ edits'[g] = edits[g] /\ (Going(g) => Self(g) \in Things \ {i})
  BY <1>2, GoingIsEdit DEF Going, DataInv
<1>10. KindsAgree'
  BY <1>8, <1>9 DEF DataInv, KindsAgree, There, Self
<1>11. EditsFit'
  BY <1>2, RequestsStay, MovesKeep DEF DataInv
<1> QED
  BY <1>2, <1>7, <1>10, <1>11, MemoryStays DEF DataInv

----------------------------------------------------------------------------
(* The steps that write.                                                    *)

\* What a statement does to the rows.
LEMMA StoresKeeps ==
  ASSUME DataInv, NEW e \in Editors, Going(e), Now(e) \notin {Look, Find, Merge},
         NEW row, IsRow(row, edits[e].kind, Names), Stores(e, Self(e), row)
  PROVE  DataInv' /\ Moves(e)
<1> DEFINE k == edits[e].kind
           i == Self(e)
<1>0. EditsFit /\ k \in scene.kinds /\ i \in Things /\ edits[e].server \in Servers
  BY GoingIsEdit DEF DataInv
<1>1. copies' = copies /\ flights' = flights /\ scene' = scene
  BY DEF Stores
<1>2. Goes(e, edits[e].got) \/ Refused(e)
  BY DEF Stores
<1>3. Moves(e)
  BY <1>0, <1>2, CheckedMoves
<1>4. row.kind = k /\ (There(i) => shelf[i].kind = k)
  BY DEF IsRow, DataInv, KindsAgree
<1>5. CASE shelf' = shelf /\ dated' = dated
  BY <1>1, <1>3, <1>5, AMoveIsAll, MemoryStays, RowsAside DEF DataInv
<1>6. CASE /\ ~Clashes(row.kind, row.name, i) /\ HasKeys(row) /\ \A j \in row.refs : There(j)
           /\ shelf' = [shelf EXCEPT ![i] = row] /\ dated' = dated \cup (Servers \ {edits[e].server})
  <2>1. k # "topping" => Complete(k, row.refs)
    BY <1>4, <1>6, NeededIsKeyed DEF HasKeys, Complete, RefsTo
  <2> HIDE DEF k, i
  <2>2. ShelfFits' /\ Resolved'
    BY <1>0, <1>1, <1>4, <1>6, <2>1, RowIsPut DEF DataInv, k
  <2>3. ShelfFrom
    BY <1>0, <1>4, <1>6 DEF ShelfFrom, DataInv, ShelfFits, k, i
  <2>4. dated' \subseteq Servers
    BY <1>6 DEF DataInv
  <2> QED
    BY <1>1, <1>3, <2>2, <2>3, <2>4, AMoveIsAll, MemoryStays, Together DEF DataInv
<1> QED
  BY <1>3, <1>5, <1>6 DEF Stores

LEMMA InsertKeeps ==
  ASSUME DataInv, NEW e \in Editors, DoInsert(e)
  PROVE  /\ DataInv' /\ Moves(e)
         /\ Going(e) /\ edits[e].op = "create" /\ IsRow(edits[e].change, edits[e].kind, Names)
         /\ Stores(e, Self(e), edits[e].change)
<1>1. Going(e) /\ Now(e) = Insert /\ Stores(e, Self(e), edits[e].change)
  BY DEF DoInsert, At
<1>2. edits[e].op = "create" /\ ChangeFits(edits[e].kind, edits[e].op, edits[e].change, Names)
  BY <1>1, GoingIsEdit, WritersHold DEF DataInv, IsEdit
<1>3. IsRow(edits[e].change, edits[e].kind, Names)
  BY <1>2 DEF ChangeFits
<1> QED
  BY <1>1, <1>2, <1>3, QuietSteps, StoresKeeps

LEMMA NothingThereKeeps ==
  ASSUME DataInv, NEW e \in Editors, Going(e), Now(e) \notin {Look, Find, Merge}, NothingThere(e)
  PROVE  DataInv'
<1>1. shelf' = shelf /\ copies' = copies /\ flights' = flights /\ scene' = scene /\ dated' = dated
  BY DEF NothingThere
<1>2. AllMove
  BY CheckedMoves, AMoveIsAll DEF NothingThere, DataInv
<1> QED
  BY <1>1, <1>2, MemoryStays, RowsAside DEF DataInv

LEMMA PatchKeeps ==
  ASSUME DataInv, NEW e \in Editors, DoPatch(e)
  PROVE  /\ DataInv'
         /\ \/ shelf' = shelf
            \/ /\ Going(e) /\ There(Self(e)) /\ Moves(e)
               /\ IsRow(shelf[Self(e)], edits[e].kind, Names)
               /\ ChangeFits(edits[e].kind, "update", edits[e].change, Names)
               /\ Stores(e, Self(e), Applied(shelf[Self(e)], edits[e].change))
<1>1. Going(e) /\ Now(e) = Patch
  BY DEF DoPatch, At
<1>2. ChangeFits(edits[e].kind, "update", edits[e].change, Names) /\ Now(e) \notin {Look, Find, Merge}
  BY <1>1, GoingIsEdit, WritersHold, QuietSteps DEF DataInv, IsEdit
<1>3. CASE NothingThere(e)
  BY <1>1, <1>2, <1>3, NothingThereKeeps DEF NothingThere
<1>4. CASE There(Self(e)) /\ Stores(e, Self(e), Applied(shelf[Self(e)], edits[e].change))
  <2>1. IsRow(shelf[Self(e)], edits[e].kind, Names)
    BY <1>1, <1>4, GoingIsEdit DEF DataInv, ShelfFits, RowIn, KindsAgree, There
  <2>2. IsRow(Applied(shelf[Self(e)], edits[e].change), edits[e].kind, Names)
    BY <1>2, <2>1, AppliedRow
  <2> QED
    BY <1>1, <1>2, <1>4, <2>1, <2>2, StoresKeeps
<1> QED
  BY <1>3, <1>4 DEF DoPatch

LEMMA WholeKeeps ==
  ASSUME DataInv, NEW e \in Editors, DoWhole(e)
  PROVE  /\ DataInv'
         /\ \/ shelf' = shelf
            \/ \E row : /\ Going(e) /\ edits[e].kind \notin PatchedKinds
                        /\ IsRow(row, edits[e].kind, Names) /\ Stores(e, Self(e), row)
<1>1. Going(e) /\ Now(e) = Whole
  BY DEF DoWhole, At
<1>2. /\ ChangeFits(edits[e].kind, "update", edits[e].change, Names) /\ Now(e) \notin {Look, Find, Merge}
      /\ edits[e].kind \notin PatchedKinds /\ IsRow(edits[e].got, edits[e].kind, Names)
  BY <1>1, GoingIsEdit, WritersHold, QuietSteps DEF DataInv, IsEdit
<1>3. CASE NothingThere(e)
  BY <1>1, <1>2, <1>3, NothingThereKeeps DEF NothingThere
<1>4. CASE Stores(e, Self(e), Applied(edits[e].got, edits[e].change))
  <2>1. IsRow(Applied(edits[e].got, edits[e].change), edits[e].kind, Names)
    BY <1>2, AppliedRow
  <2> QED
    BY <1>1, <1>2, <1>4, <2>1, StoresKeeps
<1> QED
  BY <1>3, <1>4 DEF DoWhole

LEMMA SaveKeeps ==
  ASSUME DataInv, NEW e \in Editors, DoSave(e)
  PROVE  /\ DataInv' /\ Going(e) /\ edits[e].kind \notin PatchedKinds
         /\ IsRow(edits[e].got, edits[e].kind, Names) /\ Stores(e, Self(e), edits[e].got)
<1>1. Going(e) /\ Now(e) = Save /\ Stores(e, Self(e), edits[e].got)
  BY DEF DoSave, At
<1>2. /\ Now(e) \notin {Look, Find, Merge}
      /\ edits[e].kind \notin PatchedKinds /\ IsRow(edits[e].got, edits[e].kind, Names)
  BY <1>1, GoingIsEdit, WritersHold, QuietSteps DEF DataInv
<1> QED
  BY <1>1, <1>2, StoresKeeps

LEMMA MergeKeeps ==
  ASSUME DataInv, NEW e \in Editors, DoMerge(e)
  PROVE  DataInv' /\ shelf' = shelf
<1> DEFINE old == edits[e].got
           c == edits[e].change
           k == edits[e].kind
           p == edits[e].server
           key == <<"single", k, Self(e)>>
           isCopy == k = "product" /\ HasCopy(p, key)
           choices == IF ~Sends(e, "refs") THEN {old.refs}
                      ELSE {old.refs, c.refs, c.refs \cup {i \in old.refs : shelf[i].kind \in JoinedTo(old.kind)}}
<1>1. /\ At(e, Merge) /\ shelf' = shelf /\ flights' = flights /\ scene' = scene
      /\ IF old = NoThing THEN Refused(e) /\ UNCHANGED <<copies, dated>>
         ELSE \E refs \in choices :
                LET new == [Applied(old, c) EXCEPT !.refs = refs] IN
                /\ Goes(e, new)
                /\ copies' = [copies EXCEPT ![p] = IF isCopy THEN Put(@, key, new) ELSE @]
                /\ dated' = IF isCopy THEN dated \cup {p} ELSE dated
  BY DEF DoMerge
<1>2. /\ Going(e) /\ k \notin PatchedKinds /\ (old = NoThing \/ IsRow(old, k, Names))
      /\ ChangeFits(k, "update", c, Names) /\ p \in Servers
  <2>1. Going(e) /\ Now(e) = Merge
    BY <1>1 DEF At
  <2> QED
    BY <2>1, GoingIsEdit, WritersHold DEF DataInv, IsEdit
<1>3. CASE old = NoThing
  <2>1. AllMove /\ copies' = copies /\ dated' = dated
    BY <1>1, <1>2, <1>3, RefusedMoves, AMoveIsAll DEF DataInv
  <2> QED
    BY <1>1, <2>1, MemoryStays, RowsAside DEF DataInv
<1>4. CASE old # NoThing
  <2>1. PICK refs \in choices :
          /\ Goes(e, [Applied(old, c) EXCEPT !.refs = refs])
          /\ copies' = [copies EXCEPT ![p] = IF isCopy THEN Put(@, key, [Applied(old, c) EXCEPT !.refs = refs]) ELSE @]
          /\ dated' = IF isCopy THEN dated \cup {p} ELSE dated
    BY <1>1, <1>4
  <2>2. refs \subseteq Things
    BY <1>2, <1>4 DEF IsRow, ChangeFits, Sends
  <2> DEFINE new == [Applied(old, c) EXCEPT !.refs = refs]
  <2>3. IsRow(new, k, Names)
    BY <1>2, <1>4, <2>2, MergedRow
  <2>4. /\ Goes(e, new) /\ dated' = IF isCopy THEN dated \cup {p} ELSE dated
        /\ copies' = [copies EXCEPT ![p] = IF isCopy THEN Put(@, key, new) ELSE @]
    BY <2>1
  <2> HIDE DEF new
  <2>5. \A n : GotFits(k, edits[e].op, n, new, Names)
    BY <2>3 DEF GotFits
  <2>6. AllMove
    BY <1>2, <2>4, <2>5, GoesMoves, AMoveIsAll DEF DataInv
  <2>7. copies = [q \in Servers |-> copies[q]] /\ \A q \in Servers : KeptFits(copies[q], Names)
    BY DEF DataInv, CopiesFit
  <2>8. KeptFits(Put(copies[p], key, new), Names)
    BY <1>2, <2>3, <2>7, PutFits
  <2> HIDE DEF isCopy, key, p
  <2>9. CopiesFit'
    <3>1. Names' = Names
      BY <1>1 DEF Names
    <3> QED
      BY <1>2, <2>4, <2>7, <2>8, <3>1 DEF CopiesFit
  <2>10. dated' \subseteq Servers
    BY <1>2, <2>4 DEF DataInv
  <2> QED
    BY <1>1, <2>6, <2>9, <2>10, MemoryStays, RowsAside DEF DataInv
<1> QED
  BY <1>1, <1>3, <1>4

LEMMA RemoveKeeps ==
  ASSUME DataInv, NEW e \in Editors, DoRemove(e)
  PROVE  /\ DataInv'
         /\ \/ shelf' = shelf
            \/ Self(e) \in Things /\ ~Held(Self(e)) /\ shelf' = Without(Self(e)) /\ scene' = scene
<1>1. Going(e) /\ Now(e) = Remove /\ copies' = copies /\ flights' = flights /\ scene' = scene
  BY DEF DoRemove, At
<1>2. EditsFit /\ Now(e) \notin {Look, Find, Merge} /\ Self(e) \in Things /\ edits[e].server \in Servers
  BY <1>1, QuietSteps, GoingIsEdit DEF DataInv
<1>3. Goes(e, edits[e].got) \/ Refused(e)
  BY DEF DoRemove
<1>4. AllMove
  BY <1>1, <1>2, <1>3, CheckedMoves, AMoveIsAll
<1>5. CASE shelf' = shelf /\ dated' = dated
  BY <1>1, <1>4, <1>5, MemoryStays, RowsAside DEF DataInv
<1>6. CASE /\ ~Held(Self(e)) /\ shelf' = Without(Self(e))
           /\ dated' = IF \E j \in Things : There(j) /\ Self(e) \in shelf[j].refs THEN Servers
                       ELSE dated \cup (Servers \ {edits[e].server})
  <2>1. ShelfFits' /\ Resolved' /\ ShelfFrom
    BY <1>1, <1>2, <1>6, RowIsTaken DEF DataInv
  <2>2. dated' \subseteq Servers
    BY <1>6 DEF DataInv
  <2> QED
    BY <1>1, <1>2, <1>4, <1>6, <2>1, <2>2, MemoryStays, Together DEF DataInv
<1> QED
  BY <1>5, <1>6 DEF DoRemove

LEMMA AnnounceKeeps ==
  ASSUME DataInv, NEW e \in Editors, DoAnnounce(e)
  PROVE  DataInv' /\ shelf' = shelf
<1> DEFINE p == edits[e].server
           keys == Forgotten(edits[e].kind, Self(e))
<1>1. /\ Going(e) /\ Now(e) = Announce /\ shelf' = shelf /\ flights' = flights /\ scene' = scene
      /\ Goes(e, edits[e].got)
      /\ copies' = [copies EXCEPT ![p] = Drop(@, keys)]
      /\ dated' = IF DOMAIN flights[p] \cap keys # {} THEN dated \cup {p} ELSE dated
  BY DEF DoAnnounce, At
<1>2. EditsFit /\ Now(e) \notin {Look, Find, Merge} /\ p \in Servers
  BY <1>1, QuietSteps, GoingIsEdit DEF DataInv
<1>3. AllMove
  BY <1>1, <1>2, CheckedMoves, AMoveIsAll
<1>4. dated' \subseteq Servers
  BY <1>1, <1>2 DEF DataInv
<1>5. copies = [q \in Servers |-> copies[q]] /\ \A q \in Servers : KeptFits(copies[q], Names)
  BY DEF DataInv, CopiesFit
<1>6. KeptFits(Drop(copies[p], keys), Names)
  BY <1>2, <1>5, DropFits
<1> HIDE DEF p, keys
<1>7. CopiesFit'
  <2>1. Names' = Names
    BY <1>1 DEF Names
  <2> QED
    BY <1>1, <1>2, <1>5, <1>6, <2>1 DEF CopiesFit
<1> QED
  BY <1>1, <1>3, <1>4, <1>7, MemoryStays, RowsAside DEF DataInv

LEMMA WriteKeeps ==
  ASSUME DataInv, NEW e \in Editors, Write(e)
  PROVE  DataInv'
BY InsertKeeps, PatchKeeps, WholeKeeps, MergeKeeps, SaveKeeps, RemoveKeeps, AnnounceKeeps DEF Write

----------------------------------------------------------------------------
(* The invariant holds.                                                     *)

LEMMA DataStarts ==
  ASSUME DataInit
  PROVE  DataInv
<1>1. scene \in Scenes /\ scene.kinds \subseteq Managed \cup UserKinds
  BY SceneKinds DEF DataInit, Managed
<1> DEFINE rows == {NoThing} \cup {Row(k, n, r) : k \in scene.kinds \ UserKinds,
                                                      n \in scene.names, r \in SUBSET Things}
<1>2. shelf \in [Things -> rows] /\ Sound(shelf)
  BY DEF DataInit
<1>3. PatchedKinds \cap {"product", "ingredient", "sale", "purchase", "topping"} = {}
  BY DEF PatchedKinds
<1>4. ASSUME NEW i \in Things, shelf[i] # NoThing
      PROVE  shelf[i].kind \in scene.kinds /\ IsRow(shelf[i], shelf[i].kind, Names)
  <2>0. shelf[i] \in rows
    BY <1>2
  <2>1. PICK k \in scene.kinds \ UserKinds, n \in scene.names, r \in SUBSET Things : shelf[i] = Row(k, n, r)
    BY <1>4, <2>0
  <2>2. \A j \in r : FALSE \/ shelf[j].kind \in KeyedTo(k) \cup JoinedTo(k)
    BY <1>2, <1>4, <2>1 DEF Sound, Row
  <2>3. k \in PatchedKinds => KeyedTo(k) = {} /\ JoinedTo(k) = {}
    BY DEF PatchedKinds, KeyedTo, JoinedTo
  <2>4. k \in PatchedKinds => r = {}
    BY <2>2, <2>3
  <2> QED
    BY <2>1, <2>4 DEF Row, IsRow, Names
<1>5. ShelfFits
  BY <1>2, <1>4 DEF ShelfFits, RowIn
<1>6. /\ copies = [p \in Servers |-> << >>] /\ flights = [p \in Servers |-> << >>]
      /\ edits = [e \in Editors |-> NotYet] /\ dated = {}
  BY DEF DataInit
<1>7. KeptFits(<< >>, Names)
  BY DEF KeptFits
<1>8. CopiesFit /\ FlightsFit
  BY <1>6, <1>7 DEF CopiesFit, FlightsFit
<1>9. EditsFit /\ KindsAgree
  BY <1>6 DEF EditsFit, KindsAgree, Going
<1>11. Resolved
  BY <1>2 DEF Sound, Resolved, Complete, There
<1> QED
  BY <1>1, <1>5, <1>6, <1>8, <1>9, <1>11 DEF DataInv

LEMMA DataKeeps ==
  ASSUME DataInv, [DataNext]_dataVars
  PROVE  DataInv'
<1>1. CASE UNCHANGED dataVars
  BY <1>1, RequestsStay, MemoryStays, RowsAside DEF dataVars, DataInv
<1>2. CASE \E e \in Editors, p \in Servers : StartCreate(e, p) \/ StartUpdate(e, p) \/ StartDelete(e, p)
  BY <1>2, StartsKeep
<1>3. CASE \E e \in Editors : Proceeds(e) \/ Fail(e)
  BY <1>3, LookKeeps, CheckKeeps, WriteKeeps, FailKeeps DEF Proceeds
<1>4. CASE \E p \in Servers, key \in Keys : Fetch(p, key) \/ Land(p, key) \/ Expire(p, key)
  BY <1>4, FetchKeeps, LandKeeps, ExpireKeeps
<1>5. CASE \E k \in UserKinds : Use(k)
  BY <1>5, UseKeeps
<1> QED
  BY <1>1, <1>2, <1>3, <1>4, <1>5 DEF DataNext

\* The invariant: rows, copies and requests are what their kinds say, and the
\* requests at work on one row agree on its kind.
THEOREM DataInductive == DataSpec => []DataInv
<1>1. DataInit => DataInv
  BY DataStarts
<1>2. DataInv /\ [DataNext]_dataVars => DataInv'
  BY DataKeeps
<1> QED
  BY <1>1, <1>2, PTL DEF DataSpec

\* Rows are of the kinds in play with names that someone chose, and a request
\* is at a step of its handler.
THEOREM DataTypesHold == DataSpec => []DataTypeOK
<1>1. DataInv => DataTypeOK
  <2> SUFFICES ASSUME DataInv PROVE DataTypeOK
    OBVIOUS
  <2>1. \A i \in Things : There(i) => /\ shelf[i].kind \in scene.kinds
                                      /\ shelf[i].name \in scene.names \cup {"used"}
                                      /\ shelf[i].on \in BOOLEAN /\ shelf[i].refs \subseteq Things
    BY DEF DataInv, ShelfFits, RowIn, IsRow, There, Names
  <2>2. \A e \in Editors : Going(e) => edits[e].at \in 1 .. Len(Plan(e))
    BY GoingIsEdit DEF DataInv, IsEdit, Plan, PlanOf
  <2> QED
    BY <2>1, <2>2 DEF DataTypeOK, DataInv
<1> QED
  BY <1>1, DataInductive, PTL

----------------------------------------------------------------------------
(* What a step may do to the rows that others refer to.                     *)

\* Row j refers to row i by a key that holds it.
Uses(j, i) == There(j) /\ i \in shelf[j].refs /\ shelf[i].kind \in HeldBy(shelf[j].kind)

LEMMA StoresOne ==
  ASSUME ShelfFits, NEW e \in Editors, NEW i \in Things, NEW row, Stores(e, i, row)
  PROVE  \/ shelf' = shelf
         \/ \A j \in Things : shelf'[j] = IF j = i THEN row ELSE shelf[j]
<1>1. shelf' = shelf \/ shelf' = [shelf EXCEPT ![i] = row]
  BY DEF Stores
<1> QED
  BY <1>1 DEF ShelfFits

\* A statement that writes a row takes none away.
LEMMA StoresStay ==
  ASSUME DataInv, NEW e \in Editors, Going(e),
         NEW row, IsRow(row, edits[e].kind, Names), Stores(e, Self(e), row),
         NEW i \in Things, There(i)
  PROVE  shelf'[i].kind = shelf[i].kind
<1>1. Self(e) \in Things
  BY GoingIsEdit DEF DataInv
<1>2. \/ shelf' = shelf
      \/ \A j \in Things : shelf'[j] = IF j = Self(e) THEN row ELSE shelf[j]
  BY <1>1, StoresOne DEF DataInv
<1>3. There(Self(e)) => shelf[Self(e)].kind = row.kind
  BY DEF DataInv, KindsAgree, IsRow
<1> QED
  BY <1>2, <1>3

LEMMA WriteOfUsed ==
  ASSUME DataInv, NEW e \in Editors, Write(e), shelf' # shelf,
         NEW j \in Things, NEW i \in Things, There(i), Uses(j, i)
  PROVE  shelf'[i].kind = shelf[i].kind
<1>1. CASE DoInsert(e)
  <2>1. Going(e) /\ IsRow(edits[e].change, edits[e].kind, Names) /\ Stores(e, Self(e), edits[e].change)
    BY <1>1, InsertKeeps
  <2> QED
    BY <2>1, StoresStay
<1>2. CASE DoPatch(e)
  <2> DEFINE row == Applied(shelf[Self(e)], edits[e].change)
  <2>1. /\ Going(e) /\ IsRow(shelf[Self(e)], edits[e].kind, Names)
        /\ ChangeFits(edits[e].kind, "update", edits[e].change, Names)
        /\ Stores(e, Self(e), row)
    BY <1>2, PatchKeeps
  <2>2. IsRow(row, edits[e].kind, Names)
    BY <2>1, AppliedRow
  <2> HIDE DEF row
  <2> QED
    BY <2>1, <2>2, StoresStay
<1>3. CASE DoWhole(e)
  <2>1. PICK row : Going(e) /\ IsRow(row, edits[e].kind, Names) /\ Stores(e, Self(e), row)
    BY <1>3, WholeKeeps
  <2> QED
    BY <2>1, StoresStay
<1>4. CASE DoMerge(e)
  BY <1>4, MergeKeeps
<1>5. CASE DoSave(e)
  BY <1>5, SaveKeeps, StoresStay
<1>6. CASE DoRemove(e)
  <2>1. Self(e) \in Things /\ ~Held(Self(e)) /\ shelf' = Without(Self(e))
    BY <1>6, RemoveKeeps
  <2>2. i # Self(e)
    BY <2>1 DEF Held, Uses
  <2>3. IsRow(shelf[i], shelf[i].kind, Names)
    BY DEF DataInv, ShelfFits, RowIn, There
  <2>4. shelf'[i] = shelf[i] \/ shelf'[i] = [shelf[i] EXCEPT !.refs = @ \ {Self(e)}]
    BY <2>1, <2>2 DEF Without
  <2> QED
    BY <2>3, <2>4 DEF IsRow
<1>7. CASE DoAnnounce(e)
  BY <1>7, AnnounceKeeps
<1> QED
  BY <1>1, <1>2, <1>3, <1>4, <1>5, <1>6, <1>7 DEF Write

LEMMA StepsOfUsed ==
  ASSUME DataInv, [DataNext]_dataVars, NEW j \in Things, NEW i \in shelf[j].refs, Uses(j, i)
  PROVE  shelf'[i].kind = shelf[i].kind
<1>0. i \in Things /\ There(i)
  BY DEF DataInv, Resolved, ShelfFits, RowIn, IsRow, There, Uses
<1>1. CASE UNCHANGED dataVars
  BY <1>1 DEF dataVars
<1>2. CASE \E e \in Editors, p \in Servers : StartCreate(e, p) \/ StartUpdate(e, p) \/ StartDelete(e, p)
  BY <1>2 DEF StartCreate, StartUpdate, StartDelete
<1>3. CASE \E e \in Editors : Proceeds(e) \/ Fail(e)
  BY <1>0, <1>3, WriteOfUsed DEF Proceeds, LookAtCopy, LookForNoName, Check, Fail
<1>4. CASE \E p \in Servers, key \in Keys : Fetch(p, key) \/ Land(p, key) \/ Expire(p, key)
  BY <1>4 DEF Fetch, Land, Expire
<1>5. CASE \E k \in UserKinds : Use(k)
  <2>1. PICK k \in UserKinds : Use(k)
    BY <1>5
  <2>2. PICK h \in FreeThings, r \in RefSets(k) \ {{}} : shelf' = [shelf EXCEPT ![h] = Row(k, "used", r)]
    BY <2>1 DEF Use
  <2>3. h # i
    BY <1>0, <2>2 DEF FreeThings
  <2> QED
    BY <1>0, <2>2, <2>3 DEF DataInv, ShelfFits
<1> QED
  BY <1>1, <1>2, <1>3, <1>4, <1>5 DEF DataNext

\* No step takes a row away while a product, a topping, an ingredient, a sale
\* or a purchase refers to it by a key that holds it, and none leaves a
\* reference that leads nowhere, however the deletion that looked for users
\* and the creation that looked for the row went past each other.
THEOREM UsedIsKeptHolds == DataSpec => UsedIsKept
<1>1. ASSUME DataInv, DataInv', [DataNext]_dataVars
      PROVE  [/\ \A j \in Things : There(j) =>
                   \A i \in shelf[j].refs :
                     shelf[i].kind \in HeldBy(shelf[j].kind) => shelf'[i].kind = shelf[i].kind
              /\ Resolved']_dataVars
  <2>1. \A j \in Things : There(j) =>
          \A i \in shelf[j].refs :
            shelf[i].kind \in HeldBy(shelf[j].kind) => shelf'[i].kind = shelf[i].kind
    BY <1>1, StepsOfUsed DEF Uses
  <2>2. Resolved'
    BY <1>1 DEF DataInv
  <2> QED
    BY <2>1, <2>2
<1> QED
  BY <1>1, DataInductive, PTL DEF DataSpec, UsedIsKept

----------------------------------------------------------------------------
(* What a step may do to the rows of the kinds that are patched.            *)

\* Someone who is at work on row i sent the field.
SomeoneSent(i, f) ==
  \E e \in Editors : /\ Going(e) /\ Self(e) = i /\ edits'[e] # edits[e]
                     /\ Sends(e, f) /\ edits[e].change[f] = shelf'[i][f]
                     /\ There(i) \/ edits[e].op = "create"

Changed(i, f) == /\ shelf'[i] # NoThing /\ shelf'[i].kind \in PatchedKinds
                 /\ There(i) => shelf'[i][f] # shelf[i][f]

LEMMA OtherStores ==
  ASSUME DataInv, NEW e \in Editors, Going(e), edits[e].kind \notin PatchedKinds,
         NEW row, IsRow(row, edits[e].kind, Names), Stores(e, Self(e), row),
         NEW i \in Things, NEW f \in Fields
  PROVE  ~Changed(i, f)
<1>1. Self(e) \in Things
  BY GoingIsEdit DEF DataInv
<1>2. \/ shelf' = shelf
      \/ \A j \in Things : shelf'[j] = IF j = Self(e) THEN row ELSE shelf[j]
  BY <1>1, StoresOne DEF DataInv
<1>3. row.kind \notin PatchedKinds
  BY DEF IsRow
<1> QED
  BY <1>2, <1>3 DEF Changed, There

LEMMA WriteOfSent ==
  ASSUME DataInv, NEW e \in Editors, Write(e), NEW i \in Things, NEW f \in Fields, Changed(i, f)
  PROVE  SomeoneSent(i, f)
<1>0. shelf' # shelf
  BY DEF Changed, There
<1>1. CASE DoInsert(e)
  <2>1. /\ Moves(e) /\ Going(e) /\ edits[e].op = "create" /\ IsRow(edits[e].change, edits[e].kind, Names)
        /\ Stores(e, Self(e), edits[e].change)
    BY <1>1, InsertKeeps
  <2>2. Self(e) \in Things
    BY <2>1, GoingIsEdit DEF DataInv
  <2>3. \A j \in Things : shelf'[j] = IF j = Self(e) THEN edits[e].change ELSE shelf[j]
    BY <1>0, <2>1, <2>2, StoresOne DEF DataInv
  <2>4. i = Self(e)
    BY <2>3 DEF Changed, There
  <2>5. Sends(e, f) /\ edits[e].change[f] = shelf'[i][f]
    BY <2>1, <2>3, <2>4 DEF Sends, Fields, IsRow
  <2>6. edits'[e] # edits[e]
    BY <2>1 DEF Moves
  <2> QED
    BY <2>1, <2>4, <2>5, <2>6 DEF SomeoneSent
<1>2. CASE DoPatch(e)
  <2>1. /\ Going(e) /\ There(Self(e)) /\ Moves(e)
        /\ IsRow(shelf[Self(e)], edits[e].kind, Names)
        /\ ChangeFits(edits[e].kind, "update", edits[e].change, Names)
        /\ Stores(e, Self(e), Applied(shelf[Self(e)], edits[e].change))
    BY <1>0, <1>2, PatchKeeps
  <2>2. Self(e) \in Things
    BY <2>1, GoingIsEdit DEF DataInv
  <2>3. \A j \in Things : shelf'[j] = IF j = Self(e) THEN Applied(shelf[Self(e)], edits[e].change) ELSE shelf[j]
    BY <1>0, <2>1, <2>2, StoresOne DEF DataInv
  <2>4. i = Self(e)
    BY <2>3 DEF Changed, There
  <2>5. shelf'[i][f] = IF f \in DOMAIN edits[e].change THEN edits[e].change[f] ELSE shelf[i][f]
    <3> DEFINE x == shelf[Self(e)]
               c == edits[e].change
    <3>1. shelf'[i] = Applied(x, c)
      BY <2>2, <2>3, <2>4
    <3>2. IsRow(x, edits[e].kind, Names)
      BY <2>1
    <3> HIDE DEF x, c
    <3>3. /\ f \in DOMAIN c => Applied(x, c)[f] = c[f]
          /\ f \notin DOMAIN c => Applied(x, c)[f] = x[f]
      BY <3>2, AppliedField
    <3> QED
      BY <2>4, <3>1, <3>3 DEF x, c
  <2>6. Sends(e, f) /\ edits[e].change[f] = shelf'[i][f]
    BY <2>1, <2>4, <2>5 DEF Sends, Changed
  <2>7. edits'[e] # edits[e]
    BY <2>1 DEF Moves
  <2> QED
    BY <2>1, <2>4, <2>6, <2>7 DEF SomeoneSent
<1>3. CASE DoWhole(e)
  <2>1. PICK row : /\ Going(e) /\ edits[e].kind \notin PatchedKinds
                   /\ IsRow(row, edits[e].kind, Names) /\ Stores(e, Self(e), row)
    BY <1>0, <1>3, WholeKeeps
  <2> QED
    BY <2>1, OtherStores
<1>4. CASE DoMerge(e)
  BY <1>0, <1>4, MergeKeeps
<1>5. CASE DoSave(e)
  BY <1>5, SaveKeeps, OtherStores
<1>6. CASE DoRemove(e)
  <2>1. Self(e) \in Things /\ ~Held(Self(e)) /\ shelf' = Without(Self(e)) /\ scene' = scene
    BY <1>0, <1>6, RemoveKeeps
  <2>2. /\ shelf[i] # NoThing /\ shelf'[i].kind = shelf[i].kind /\ shelf'[i].name = shelf[i].name
        /\ shelf'[i].on = shelf[i].on /\ (shelf[i].kind \in PatchedKinds => shelf'[i].refs = shelf[i].refs)
    BY <2>1, RowIsTaken DEF DataInv, Changed
  <2>3. shelf'[i][f] = shelf[i][f]
    BY <2>2 DEF Changed, Fields
  <2> QED
    BY <2>2, <2>3 DEF Changed, There
<1>7. CASE DoAnnounce(e)
  BY <1>0, <1>7, AnnounceKeeps
<1> QED
  BY <1>1, <1>2, <1>3, <1>4, <1>5, <1>6, <1>7 DEF Write

LEMMA StepsOfSent ==
  ASSUME DataInv, [DataNext]_dataVars, NEW i \in Things, NEW f \in Fields, Changed(i, f)
  PROVE  SomeoneSent(i, f)
<1>0. shelf' # shelf
  BY DEF Changed, There
<1>1. CASE UNCHANGED dataVars
  BY <1>0, <1>1 DEF dataVars
<1>2. CASE \E e \in Editors, p \in Servers : StartCreate(e, p) \/ StartUpdate(e, p) \/ StartDelete(e, p)
  BY <1>0, <1>2 DEF StartCreate, StartUpdate, StartDelete
<1>3. CASE \E e \in Editors : Proceeds(e) \/ Fail(e)
  BY <1>0, <1>3, WriteOfSent DEF Proceeds, LookAtCopy, LookForNoName, Check, Fail
<1>4. CASE \E p \in Servers, key \in Keys : Fetch(p, key) \/ Land(p, key) \/ Expire(p, key)
  BY <1>0, <1>4 DEF Fetch, Land, Expire
<1>5. CASE \E k \in UserKinds : Use(k)
  <2>1. PICK k \in UserKinds : Use(k)
    BY <1>5
  <2>2. PICK j \in FreeThings, r \in RefSets(k) \ {{}} : shelf' = [shelf EXCEPT ![j] = Row(k, "used", r)]
    BY <2>1 DEF Use
  <2>3. j \in Things /\ \A h \in Things : shelf'[h] = IF h = j THEN Row(k, "used", r) ELSE shelf[h]
    BY <2>2 DEF FreeThings, DataInv, ShelfFits
  <2>4. Row(k, "used", r).kind \notin PatchedKinds
    BY DEF Row, UserKinds, PatchedKinds
  <2> QED
    BY <2>3, <2>4 DEF Changed, There
<1> QED
  BY <1>1, <1>2, <1>3, <1>4, <1>5 DEF DataNext

\* Where only the columns that were sent are written, a row changes in a
\* column only as someone at work on it sent, and comes into being only by a
\* creation, whoever else works on the row.
THEOREM OnlyWhatWasSentHolds == DataSpec => OnlyWhatWasSent
<1>1. ASSUME DataInv, [DataNext]_dataVars
      PROVE  [\A i \in Things, f \in Fields :
                /\ shelf'[i] # NoThing /\ shelf'[i].kind \in PatchedKinds
                /\ There(i) => shelf'[i][f] # shelf[i][f]
                => \E e \in Editors : /\ Going(e) /\ Self(e) = i /\ edits'[e] # edits[e]
                                      /\ Sends(e, f) /\ edits[e].change[f] = shelf'[i][f]
                                      /\ There(i) \/ edits[e].op = "create"]_dataVars
  <2>1. \A i \in Things, f \in Fields : Changed(i, f) => SomeoneSent(i, f)
    BY <1>1, StepsOfSent
  <2> QED
    BY <2>1 DEF Changed, SomeoneSent
<1> QED
  BY <1>1, DataInductive, PTL DEF DataSpec, OnlyWhatWasSent
=============================================================================
