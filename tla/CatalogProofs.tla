---------------------------- MODULE CatalogProofs ---------------------------
(***************************************************************************)
(* What Catalog keeps for every number of organizations, workspaces,       *)
(* customers, products, prices and requests, and every page limit.         *)
(*                                                                         *)
(* What a request has read of the tables is old when it writes.  The       *)
(* invariant says what of it is still true: the workspace the guards have  *)
(* found belongs to the caller's organization (Aims); a customer that was  *)
(* read is in that workspace or has been removed, and has been stamped at  *)
(* least as often as the copy says, and exactly as often if nobody else    *)
(* has read it to update it (CopyOf, RaceInv); an id that was drawn is no  *)
(* row's and no other request's (DrawnInv); the prices of a product whose  *)
(* prices were counted are late (CountInv).                                *)
(***************************************************************************)
EXTENDS Catalog, FiniteSetTheorems, SequenceTheorems, TLAPS

-----------------------------------------------------------------------------
(* The guards *)

\* The calls that change what a workspace holds.
WritingCalls ==
    Customers("create") \union Customers("update") \union Customers("addNote") \union Customers("remove")
    \union Products({"create", "remove", "archive", "unarchive", "addPrice", "archivePrice"})
    \union Workspaces("create") \union Workspaces("remove")

\* OrgGuard admits none but admins and owners to them.
LEMMA WritersManage ==
    ASSUME NEW role \in Role, NEW call \in WritingCalls, Admits(role, RouteOf(call))
    PROVE  role \in {"admin", "owner"}
<1>1. RouteOf(call) \in {Writes("customer:write"), Writes("product:write"), ForRole("admin")}
  <2>1. CASE call \in Customers("create") \union Customers("update") \union Customers("addNote") \union Customers("remove")
    BY <2>1 DEF RouteOf, Controller, Customers, CustomersController
  <2>2. CASE call \in Products({"create", "remove", "archive", "unarchive", "addPrice", "archivePrice"})
    BY <2>2 DEF RouteOf, Controller, Products, ProductsController
  <2>3. CASE call \in Workspaces("create") \union Workspaces("remove")
    BY <2>3 DEF RouteOf, Controller, Workspaces, WorkspacesController
  <2> QED BY <2>1, <2>2, <2>3 DEF WritingCalls
<1>2. ~ Admits("member", Writes("customer:write"))
  BY DEF Admits, Writes, Can, Grants, MemberGrants
<1>3. ~ Admits("member", Writes("product:write"))
  BY DEF Admits, Writes, Can, Grants, MemberGrants
<1>4. ~ Admits("member", ForRole("admin"))
  <2>1. Rank["member"] = 0 /\ Rank["admin"] = 1
    BY DEF Rank
  <2>2. ForRole("admin").role = "admin"
    BY DEF ForRole
  <2>3. ~ Satisfies("member", "admin")
    BY <2>1 DEF Satisfies
  <2> QED BY <2>2, <2>3 DEF Admits
<1> QED BY <1>1, <1>2, <1>3, <1>4 DEF Role

-----------------------------------------------------------------------------
(* Requests *)

CustomerTargets == Customers("update") \union Customers("addNote")
ProductTargets == Products({"remove", "archive", "unarchive", "addPrice", "archivePrice"})

RequestState ==
    [pc : {"idle", "admitted", "entered", "drawn", "read", "counted"},
     call : {<<>>} \union calls.handlers, role : Role \union {"none"},
     org : Organization \union {NoWorkspace}, workspace : Workspace \union {NoWorkspace},
     target : Customer \union Product \union {NoTarget}, copy : CustomerRow]

\* What the guards have proved of a request, and what it aims at.
Aims(q) ==
    /\ q.pc # "idle" => /\ q.role \in Role /\ q.org \in Organization
                        /\ q.call \in calls.handlers /\ Admits(q.role, RouteOf(q.call))
    /\ q.pc \notin {"idle", "admitted"} => q.workspace \in Workspace /\ OrgOf[q.workspace] = q.org
    /\ q.pc = "drawn" =>
         q.call \in Customers("create") /\ q.target \in Customer /\ q.target \in drawn
    /\ q.pc = "read" =>
         \/ q.call \in CustomerTargets /\ q.target \in Customer /\ q.target \in drawn
         \/ /\ q.call \in ProductTargets
            /\ q.target \in Product /\ products[q.target].workspace = q.workspace
    /\ q.pc = "counted" =>
         /\ q.call \in Products({"remove"})
         /\ q.target \in Product /\ products[q.target].workspace = q.workspace

RequestInv ==
    /\ calls \in Calls
    /\ request \in [Request -> RequestState]
    /\ \A r \in Request : Aims(request[r])

ProductsStay ==
    \A p \in Product : products[p].workspace \in Workspace =>
        products'[p].workspace = products[p].workspace

\* The others are as they were.
OthersWait(r) == \A q \in Request : q # r => request'[q] = request[q]

\* A request that goes on.
LEMMA RequestMoves ==
    ASSUME RequestInv, NEW r \in Request, NEW next \in RequestState, Becomes(r, next), Aims(request[r])',
           UNCHANGED calls, drawn \subseteq drawn', ProductsStay
    PROVE  RequestInv' /\ request'[r] = next /\ OthersWait(r)
<1>1. \A q \in Request : request'[q] = IF q = r THEN next ELSE request[q]
  BY DEF RequestInv, Becomes
<1>2. request' \in [Request -> RequestState] /\ RequestState' = RequestState
  BY DEF RequestInv, Becomes, RequestState
<1>3. ASSUME NEW q \in Request, q # r PROVE Aims(request[q])'
  <2>1. Aims(request[q]) /\ request'[q] = request[q]
    BY <1>1, <1>3 DEF RequestInv
  <2>2. \A c \in Customer : c \in drawn => c \in drawn'
    BY DEF Customer
  <2> QED BY <2>1, <2>2 DEF Aims, ProductsStay
<1> QED BY <1>1, <1>2, <1>3 DEF RequestInv, OthersWait

LEMMA IdleIsFine == Idle \in RequestState /\ Aims(Idle) /\ NoCustomer \in CustomerRow
BY CatalogAssumption DEF Idle, RequestState, Aims, NoCustomer, CustomerRow

\* A request that has ended.
LEMMA Finished ==
    ASSUME RequestInv, NEW r \in Request, Finishes(r),
           UNCHANGED calls, drawn \subseteq drawn', ProductsStay
    PROVE  RequestInv' /\ request'[r] = Idle /\ OthersWait(r)
<1>1. request'[r] = Idle
  BY DEF RequestInv, Finishes, Becomes
<1>2. Aims(request[r])'
  BY <1>1 DEF Aims, Idle
<1> QED BY <1>2, IdleIsFine, RequestMoves DEF Finishes

\* The calls that draw, read customers and read products are different ones.
LEMMA Kinds ==
    /\ Customers("create") \cap (CustomerTargets \union ProductTargets) = {}
    /\ CustomerTargets \cap ProductTargets = {}
    /\ Customers("update") \subseteq CustomerTargets /\ Customers("addNote") \subseteq CustomerTargets
    /\ Products({"remove"}) \subseteq ProductTargets
    /\ Products({"archive", "unarchive"}) \subseteq ProductTargets
    /\ Products({"addPrice"}) \subseteq ProductTargets
    /\ Products({"archivePrice"}) \subseteq ProductTargets
BY DEF CustomerTargets, ProductTargets, Customers, Products

\* What a request has read.
LEMMA Targets ==
    ASSUME RequestInv, NEW r \in Request
    PROVE  /\ request[r] \in RequestState
           /\ At(r, "read", CustomerTargets) => request[r].target \in Customer /\ request[r].target \in drawn
           /\ At(r, "read", ProductTargets) =>
                /\ request[r].target \in Product
                /\ products[request[r].target].workspace = request[r].workspace
BY Kinds DEF RequestInv, Aims, At

-----------------------------------------------------------------------------
(* The tables *)

\* What a row says of where it belongs.
RowInv ==
    /\ \A c \in Customer : customers[c] # NoCustomer => customers[c].workspace \in Workspace /\ c \in drawn
    /\ \A p \in Product : products[p].status # "none" <=> products[p].workspace \in Workspace
    /\ \A x \in Price : There(prices[x]) => prices[x].product \in Product

TypeInv == TablesSound /\ RowInv /\ RequestInv

LEMMA TypeInit == Init => TypeInv
<1> SUFFICES ASSUME Init PROVE TypeInv
  OBVIOUS
<1> USE CatalogAssumption DEF Init
<1>1. TypeOK
  BY IdleIsFine DEF TypeOK, ProductRow, PriceRow
<1>2. RowInv
  BY DEF RowInv, There
<1>3. TablesSound
  BY <1>1 DEF TablesSound, There
<1>4. RequestInv
  <2>1. Idle \in RequestState /\ Aims(Idle)
    BY IdleIsFine
  <2> QED BY <2>1 DEF RequestInv
<1> QED BY <1>2, <1>3, <1>4 DEF TypeInv

\* An id that a request has drawn is no row's yet.
DrawnFree ==
    \A r \in Request : request[r].pc = "drawn" => customers[request[r].target] = NoCustomer

\* One request ends and has changed these tables.
LEMMA TablesStep ==
    ASSUME TypeInv, DrawnFree, NEW r \in Request,
           \/ \E stage \in Stage : CustomerInsert(r, stage)
           \/ \E stage \in Stage \union {Keep} : CustomerWrite(r, stage)
           \/ \E c \in Customer : CustomerRemove(r, c)
           \/ NoteInsert(r)
           \/ \E p \in Product : ProductCreate(r, p)
           \/ ProductRemove(r) \/ ProductSetStatus(r)
           \/ \E x \in Price : PriceAdd(r, x) \/ PriceArchive(r, x)
           \/ \E w \in Workspace : WorkspaceCreate(r, w) \/ WorkspaceRemove(r, w)
    PROVE  TypeOK' /\ RowInv' /\ TablesSound' /\ Finishes(r) /\ UNCHANGED <<drawn, calls>> /\ ProductsStay
<1> USE CatalogAssumption
<1>0. /\ TypeOK /\ RowInv /\ TablesSound
      /\ request[r] \in RequestState /\ Aims(request[r])
  BY DEF TypeInv, TablesSound, RequestInv
<1>1. ASSUME NEW c \in Customer, NEW row \in CustomerRow, customers' = [customers EXCEPT ![c] = row],
             c \in drawn, row.workspace \in Workspace, workspaces[row.workspace] = "there",
             customers[c].workspace \in {NoWorkspace, row.workspace},
             UNCHANGED <<workspaces, products, prices, invoiced, sold, drawn>>
      PROVE  TypeOK' /\ RowInv' /\ TablesSound'
  <2>1. TypeOK'
    BY <1>0, <1>1 DEF TypeOK
  <2>2. RowInv'
    BY <1>0, <1>1 DEF TypeOK, RowInv, There
  <2>3. row # NoCustomer
    BY <1>1 DEF NoCustomer
  <2>4. \A d \in Customer : customers'[d] = IF d = c THEN row ELSE customers[d]
    BY <1>0, <1>1 DEF TypeOK
  <2>5. \A d \in Customer, v \in Workspace : <<d, v>> \in invoiced' => customers'[d].workspace = v
    BY <1>0, <1>1, <2>4 DEF TablesSound
  <2> QED BY <1>0, <1>1, <2>1, <2>2, <2>3, <2>4, <2>5 DEF TablesSound, There
<1>2. CASE \E stage \in Stage : CustomerInsert(r, stage)
  <2> PICK stage \in Stage : CustomerInsert(r, stage)
    BY <1>2
  <2> DEFINE row == [workspace |-> request[r].workspace, stage |-> stage,
                     converted |-> IF stage = "active" THEN 1 ELSE 0, notes |-> 0]
  <2>1. row \in CustomerRow /\ row.workspace \in Workspace /\ workspaces[row.workspace] = "there"
        /\ request[r].target \in Customer /\ request[r].target \in drawn
        /\ customers[request[r].target].workspace = NoWorkspace
    BY <1>0 DEF CustomerInsert, CustomerRow, At, Aims, DrawnFree, NoCustomer
  <2>2. customers' = [customers EXCEPT ![request[r].target] = row]
    BY DEF CustomerInsert
  <2> HIDE DEF row
  <2> QED BY <1>1, <2>1, <2>2 DEF CustomerInsert, ProductsStay, History
<1>3. CASE \E stage \in Stage \union {Keep} : CustomerWrite(r, stage)
  <2> PICK stage \in Stage \union {Keep} : CustomerWrite(r, stage)
    BY <1>3
  <2> DEFINE c == request[r].target
             written == IF stage = Keep THEN customers[c].stage ELSE stage
             counted == IF Stamps(stage, request[r].copy) THEN customers[c].converted + 1
                        ELSE customers[c].converted
             row == [customers[c] EXCEPT !.stage = written, !.converted = counted]
  <2>1. c \in Customer /\ c \in drawn
    BY Targets, Kinds DEF TypeInv, CustomerWrite, At
  <2>2. customers[c] \in CustomerRow /\ customers[c].workspace \in Workspace
        /\ workspaces[customers[c].workspace] = "there"
    <3>1. request[r].workspace \in Workspace
      BY <1>0 DEF CustomerWrite, Aims, At
    <3>2. customers[c] # NoCustomer
      BY <3>1 DEF CustomerWrite, IsIn, NoCustomer
    <3> QED BY <1>0, <2>1, <3>2 DEF TypeOK, RowInv, TablesSound
  <2>3. row \in CustomerRow /\ row.workspace = customers[c].workspace
    <3>1. written \in Stage \union {Keep} /\ counted \in Nat
      BY <2>2 DEF CustomerRow
    <3> HIDE DEF written, counted
    <3> QED BY <2>2, <3>1 DEF CustomerRow
  <2>4. customers' = [customers EXCEPT ![c] = row]
    BY <1>0, <2>1, <2>2 DEF CustomerWrite, TypeOK, CustomerRow
  <2>5. UNCHANGED <<workspaces, products, prices, invoiced, sold, drawn, calls>> /\ Finishes(r)
    BY DEF CustomerWrite, History
  <2> HIDE DEF row, c
  <2> QED BY <1>1, <2>1, <2>2, <2>3, <2>4, <2>5 DEF ProductsStay
<1>4. CASE \E c \in Customer : CustomerRemove(r, c)
  <2> PICK c \in Customer : CustomerRemove(r, c)
    BY <1>4
  <2>1. NoCustomer \in CustomerRow
    BY IdleIsFine
  <2>2. /\ customers' = [customers EXCEPT ![c] = NoCustomer] /\ ~ Invoiced(c) /\ Finishes(r)
        /\ UNCHANGED <<workspaces, products, prices, invoiced, sold, drawn, calls>>
    BY DEF CustomerRemove, History
  <2>3. \A d \in Customer : customers'[d] = IF d = c THEN NoCustomer ELSE customers[d]
    BY <1>0, <2>2 DEF TypeOK
  <2>4. TypeOK'
    BY <1>0, <2>1, <2>2 DEF TypeOK
  <2>5. RowInv'
    BY <1>0, <2>2, <2>3 DEF RowInv, There
  <2>6. TablesSound'
    <3>1. \A v \in Workspace : <<c, v>> \notin invoiced
      BY <2>2 DEF Invoiced
    <3> QED BY <1>0, <2>2, <2>3, <2>4, <3>1 DEF TablesSound, NoCustomer
  <2> QED BY <2>2, <2>4, <2>5, <2>6 DEF ProductsStay
<1>5. CASE NoteInsert(r)
  <2> DEFINE c == request[r].target
             row == [customers[c] EXCEPT !.notes = customers[c].notes + 1]
  <2>1. c \in Customer /\ c \in drawn
    BY <1>5, Targets, Kinds DEF TypeInv, NoteInsert, At
  <2>2. customers[c] \in CustomerRow /\ customers[c].workspace \in Workspace
        /\ workspaces[customers[c].workspace] = "there" /\ customers[c].notes < MaxNotes
    BY <1>0, <1>5, <2>1 DEF NoteInsert, TypeOK, RowInv, TablesSound
  <2>3. row \in CustomerRow /\ row.workspace = customers[c].workspace
    BY <2>2 DEF CustomerRow
  <2>4. customers' = [customers EXCEPT ![c] = row]
    BY <1>0, <1>5, <2>1, <2>2 DEF NoteInsert, TypeOK, CustomerRow
  <2>5. UNCHANGED <<workspaces, products, prices, invoiced, sold, drawn, calls>> /\ Finishes(r)
    BY <1>5 DEF NoteInsert, History
  <2> HIDE DEF row, c
  <2> QED BY <1>1, <2>1, <2>2, <2>3, <2>4, <2>5 DEF ProductsStay
<1>6. CASE \E p \in Product : ProductCreate(r, p)
  <2> PICK p \in Product : ProductCreate(r, p)
    BY <1>6
  <2>1. request[r].workspace \in Workspace
    BY <1>0 DEF ProductCreate, Aims, At
  <2>2. TypeOK'
    BY <1>0, <2>1 DEF ProductCreate, TypeOK, ProductRow
  <2>3. \A q \in Product : products'[q] = IF q = p THEN [workspace |-> request[r].workspace, status |-> "active"]
                                          ELSE products[q]
    BY <1>0 DEF ProductCreate, TypeOK
  <2>4. RowInv'
    BY <1>0, <2>1, <2>3 DEF ProductCreate, RowInv, There
  <2>5. TablesSound'
    BY <1>0, <2>1, <2>2, <2>3 DEF ProductCreate, RowInv, TablesSound, There
  <2>6. ProductsStay
    BY <1>0, <2>3 DEF ProductCreate, ProductsStay, RowInv
  <2> QED BY <2>2, <2>4, <2>5, <2>6 DEF ProductCreate, History
<1>7. CASE ProductRemove(r)
  <2> DEFINE p == request[r].target
  <2>1. p \in Product
    BY <1>0, <1>7 DEF ProductRemove, Aims, At
  <2>2. \A q \in Product : products'[q] = IF q = p THEN [products[q] EXCEPT !.status = "gone"] ELSE products[q]
    BY <1>0, <1>7, <2>1 DEF ProductRemove, TypeOK
  <2>3. \A x \in Price : prices'[x] = IF prices[x].product = p /\ There(prices[x])
                                      THEN [prices[x] EXCEPT !.status = "gone"] ELSE prices[x]
    BY <1>7 DEF ProductRemove, Gone, PricesOf
  <2>4. TypeOK'
    BY <1>0, <1>7, <2>1 DEF ProductRemove, Gone, TypeOK, ProductRow, PriceRow
  <2>5. /\ \A q \in Product : products'[q].workspace = products[q].workspace
        /\ \A q \in Product : products'[q].status = IF q = p THEN "gone" ELSE products[q].status
        /\ \A x \in Price : prices'[x].product = prices[x].product
        /\ \A x \in Price : prices'[x].status = IF prices[x].product = p /\ There(prices[x])
                                                 THEN "gone" ELSE prices[x].status
    <3>1. \A q \in Product : products[q] \in ProductRow
      BY <1>0 DEF TypeOK
    <3>2. \A x \in Price : prices[x] \in PriceRow
      BY <1>0 DEF TypeOK
    <3>3. ASSUME NEW q \in Product
          PROVE  /\ products'[q].workspace = products[q].workspace
                 /\ products'[q].status = IF q = p THEN "gone" ELSE products[q].status
      BY <2>2, <3>1 DEF ProductRow
    <3>4. ASSUME NEW x \in Price
          PROVE  /\ prices'[x].product = prices[x].product
                 /\ prices'[x].status = IF prices[x].product = p /\ There(prices[x])
                                       THEN "gone" ELSE prices[x].status
      BY <2>3, <3>2 DEF PriceRow
    <3> QED BY <3>3, <3>4
  <2>6. There(products[p]) /\ \A x \in Price : prices[x].product = p /\ There(prices[x])
                                            => \A v \in Workspace : <<x, v>> \notin sold
    BY <1>7 DEF ProductRemove, PricesOf, Sold
  <2>7. UNCHANGED <<workspaces, customers, invoiced, sold, drawn, calls>> /\ Finishes(r)
    BY <1>7 DEF ProductRemove, History
  <2> HIDE DEF p
  <2>8. RowInv'
    BY <1>0, <2>1, <2>5, <2>6, <2>7 DEF RowInv, There
  <2>9. TablesSound'
    <3>1. \A x \in Price : There(prices'[x]) => There(prices[x]) /\ prices[x].product # p
      BY <2>5 DEF There
    <3>2. \A x \in Price : There(prices'[x]) => There(products'[prices'[x].product])
      BY <1>0, <2>5, <3>1 DEF RowInv, TablesSound, There
    <3>3. \A x \in Price, v \in Workspace :
            <<x, v>> \in sold' => There(prices'[x]) /\ products'[prices'[x].product].workspace = v
      BY <1>0, <2>5, <2>6, <2>7 DEF TablesSound, RowInv, There
    <3>4. \A q \in Product : There(products'[q]) => workspaces'[products'[q].workspace] = "there"
      BY <1>0, <2>5, <2>7 DEF TablesSound, There
    <3> QED BY <1>0, <2>4, <2>7, <3>2, <3>3, <3>4 DEF TablesSound
  <2> QED BY <2>4, <2>5, <2>7, <2>8, <2>9 DEF ProductsStay
<1>8. CASE ProductSetStatus(r)
  <2> DEFINE p == request[r].target
  <2>1. p \in Product /\ There(products[p])
    BY <1>8, Targets, Kinds DEF TypeInv, ProductSetStatus, At
  <2>2. TypeOK'
    BY <1>0, <1>8, <2>1 DEF ProductSetStatus, TypeOK, ProductRow
  <2>3. /\ \A q \in Product : products'[q].workspace = products[q].workspace
        /\ \A q \in Product : q # p => products'[q] = products[q]
        /\ There(products'[p])
    BY <1>0, <1>8, <2>1 DEF ProductSetStatus, TypeOK, ProductRow, There
  <2>4. UNCHANGED <<workspaces, customers, prices, invoiced, sold, drawn, calls>> /\ Finishes(r)
    BY <1>8 DEF ProductSetStatus, History
  <2> HIDE DEF p
  <2>5. RowInv'
    BY <1>0, <2>1, <2>3, <2>4 DEF RowInv, There
  <2>6. TablesSound'
    BY <1>0, <2>1, <2>2, <2>3, <2>4 DEF RowInv, TablesSound, There
  <2> QED BY <2>2, <2>3, <2>4, <2>5, <2>6 DEF ProductsStay
<1>9. CASE \E x \in Price : PriceAdd(r, x)
  <2> PICK x \in Price : PriceAdd(r, x)
    BY <1>9
  <2> DEFINE p == request[r].target
  <2>1. p \in Product /\ There(products[p]) /\ prices[x].status = "none"
    BY Targets, Kinds DEF TypeInv, PriceAdd, At
  <2>2. \A y \in Price : prices'[y] = IF y = x THEN [product |-> p, status |-> "active"] ELSE prices[y]
    BY <1>0 DEF PriceAdd, TypeOK
  <2>3. TypeOK'
    BY <1>0, <2>1 DEF PriceAdd, TypeOK, PriceRow
  <2>4. UNCHANGED <<workspaces, customers, products, invoiced, sold, drawn, calls>> /\ Finishes(r)
    BY DEF PriceAdd
  <2> HIDE DEF p
  <2>5. RowInv'
    BY <1>0, <2>1, <2>2, <2>4 DEF RowInv, There
  <2>6. There(prices'[x])
    BY <2>2 DEF There
  <2>7. TablesSound'
    <3>1. \A y \in Price : There(prices'[y]) => There(products'[prices'[y].product])
      BY <1>0, <2>1, <2>2, <2>4 DEF TablesSound
    <3>2. \A y \in Price, v \in Workspace :
            <<y, v>> \in sold' => There(prices'[y]) /\ products'[prices'[y].product].workspace = v
      <4>1. ~ There(prices[x])
        BY <2>1 DEF There
      <4> QED BY <1>0, <2>2, <2>4, <4>1 DEF TablesSound
    <3> QED BY <1>0, <2>3, <2>4, <3>1, <3>2 DEF TablesSound
  <2> QED BY <2>7, <2>3, <2>4, <2>5, <2>6 DEF ProductsStay
<1>10. CASE \E x \in Price : PriceArchive(r, x)
  <2> PICK x \in Price : PriceArchive(r, x)
    BY <1>10
  <2>1. There(prices[x])
    BY DEF PriceArchive, PricesOf
  <2>2. TypeOK'
    BY <1>0 DEF PriceArchive, TypeOK, PriceRow
  <2>3. /\ \A y \in Price : prices'[y].product = prices[y].product
        /\ \A y \in Price : y # x => prices'[y] = prices[y]
        /\ There(prices'[x])
    BY <1>0 DEF PriceArchive, TypeOK, PriceRow, There
  <2>4. UNCHANGED <<workspaces, customers, products, invoiced, sold, drawn, calls>> /\ Finishes(r)
    BY DEF PriceArchive, History
  <2>5. RowInv'
    BY <1>0, <2>1, <2>3, <2>4 DEF RowInv
  <2>6. TablesSound'
    <3>1. \A y \in Price : There(prices'[y]) => There(prices[y])
      BY <2>1, <2>3
    <3>2. \A y \in Price : There(prices[y]) => There(prices'[y])
      BY <2>1, <2>3
    <3> QED BY <1>0, <2>2, <2>3, <2>4, <3>1, <3>2 DEF TablesSound, TypeOK
  <2> QED BY <2>2, <2>4, <2>5, <2>6 DEF ProductsStay
<1>11. CASE \E w \in Workspace : WorkspaceCreate(r, w)
  <2> PICK w \in Workspace : WorkspaceCreate(r, w)
    BY <1>11
  <2>1. TypeOK'
    BY <1>0 DEF WorkspaceCreate, TypeOK
  <2>2. \A v \in Workspace : workspaces[v] = "there" => workspaces'[v] = "there"
    BY <1>0 DEF WorkspaceCreate, TypeOK
  <2>3. UNCHANGED <<customers, products, prices, invoiced, sold, drawn, calls>> /\ Finishes(r)
    BY DEF WorkspaceCreate, History
  <2>4. RowInv' /\ TablesSound'
    BY <1>0, <2>1, <2>2, <2>3 DEF RowInv, TablesSound, There
  <2> QED BY <2>1, <2>3, <2>4 DEF ProductsStay
<1>12. CASE \E w \in Workspace : WorkspaceRemove(r, w)
  <2> PICK w \in Workspace : WorkspaceRemove(r, w)
    BY <1>12
  <2>1. /\ \A v \in Workspace : workspaces'[v] = IF v = w THEN "gone" ELSE workspaces[v]
        /\ \A c \in Customer : customers'[c] = IF customers[c].workspace = w THEN NoCustomer ELSE customers[c]
        /\ \A p \in Product : products'[p] = IF products[p].workspace = w
                                             THEN [products[p] EXCEPT !.status = "gone"] ELSE products[p]
        /\ UNCHANGED <<drawn, calls>> /\ Finishes(r)
    BY <1>0 DEF WorkspaceRemove, TypeOK, History
  <2>2. \A x \in Price : prices'[x] =
          IF There(prices[x]) /\ prices[x].product \in Product /\ products[prices[x].product].workspace = w
          THEN [prices[x] EXCEPT !.status = "gone"] ELSE prices[x]
    <3> DEFINE xs == UNION {PricesOf(p) : p \in {q \in Product : products[q].workspace = w}}
    <3>1. prices' = Gone(xs)
      BY DEF WorkspaceRemove
    <3>2. \A x \in Price : x \in xs <=> There(prices[x]) /\ prices[x].product \in Product
                                        /\ products[prices[x].product].workspace = w
      BY DEF PricesOf
    <3> QED BY <3>1, <3>2 DEF Gone
  <2>3. /\ sold' \subseteq sold /\ invoiced' \subseteq invoiced
        /\ \A e, v : <<e, v>> \in sold' \union invoiced' => v # w
    BY DEF WorkspaceRemove, Elsewhere
  <2>4. /\ \A p \in Product : products'[p].workspace = products[p].workspace
        /\ \A p \in Product : products'[p].status = IF products[p].workspace = w THEN "gone" ELSE products[p].status
        /\ \A x \in Price : prices'[x].product = prices[x].product
        /\ \A x \in Price : There(prices'[x]) <=>
              There(prices[x]) /\ ~ (prices[x].product \in Product /\ products[prices[x].product].workspace = w)
    <3>1. \A q \in Product : products[q] \in ProductRow
      BY <1>0 DEF TypeOK
    <3>2. \A x \in Price : prices[x] \in PriceRow
      BY <1>0 DEF TypeOK
    <3>3. ASSUME NEW p \in Product
          PROVE  /\ products'[p].workspace = products[p].workspace
                 /\ products'[p].status = IF products[p].workspace = w THEN "gone" ELSE products[p].status
      BY <2>1, <3>1 DEF ProductRow
    <3>4. ASSUME NEW x \in Price
          PROVE  /\ prices'[x].product = prices[x].product
                 /\ There(prices'[x]) <=>
                      There(prices[x]) /\ ~ (prices[x].product \in Product /\ products[prices[x].product].workspace = w)
      BY <2>2, <3>2 DEF PriceRow, There
    <3> QED BY <3>3, <3>4
  <2>5. TypeOK'
    <3>1. prices' \in [Price -> PriceRow]
      BY <1>0 DEF WorkspaceRemove, Gone, TypeOK, PriceRow
    <3>2. customers' \in [Customer -> CustomerRow] /\ products' \in [Product -> ProductRow]
      BY <1>0, IdleIsFine DEF WorkspaceRemove, TypeOK, ProductRow
    <3>3. workspaces' \in [Workspace -> {"none", "there", "gone"}]
      BY <1>0 DEF WorkspaceRemove, TypeOK
    <3> QED BY <1>0, <2>1, <2>3, <3>1, <3>2, <3>3 DEF TypeOK
  <2>6. RowInv'
    BY <1>0, <2>1, <2>4 DEF RowInv, TypeOK
  <2>7. TablesSound'
    <3>1. \A c \in Customer : customers'[c] # NoCustomer => workspaces'[customers'[c].workspace] = "there"
      BY <1>0, <2>1 DEF RowInv, TablesSound
    <3>2. \A p \in Product : There(products'[p]) => workspaces'[products'[p].workspace] = "there"
      BY <1>0, <2>1, <2>4 DEF RowInv, TablesSound, There
    <3>3. \A x \in Price : There(prices'[x]) => There(products'[prices'[x].product])
      <4> SUFFICES ASSUME NEW x \in Price, There(prices'[x]) PROVE There(products'[prices'[x].product])
        OBVIOUS
      <4>1. /\ There(prices[x]) /\ prices[x].product \in Product /\ prices'[x].product = prices[x].product
            /\ products[prices[x].product].workspace # w
        BY <1>0, <2>4 DEF RowInv
      <4>2. products'[prices[x].product] = products[prices[x].product]
        BY <2>1, <4>1
      <4> QED BY <1>0, <4>1, <4>2 DEF TablesSound
    <3>4. \A x \in Price, v \in Workspace :
            <<x, v>> \in sold' => There(prices'[x]) /\ products'[prices'[x].product].workspace = v
      BY <1>0, <2>3, <2>4 DEF TablesSound, RowInv
    <3>5. \A c \in Customer, v \in Workspace : <<c, v>> \in invoiced' => customers'[c].workspace = v
      BY <1>0, <2>1, <2>3 DEF TablesSound
    <3> QED BY <2>5, <3>1, <3>2, <3>3, <3>4, <3>5 DEF TablesSound
  <2> QED BY <2>1, <2>4, <2>5, <2>6, <2>7 DEF ProductsStay
<1> QED BY <1>2, <1>3, <1>4, <1>5, <1>6, <1>7, <1>8, <1>9, <1>10, <1>11, <1>12

\* Every statement, and a subscription or an invoice that comes or goes.
LEMMA TypeStep == TypeInv /\ DrawnFree /\ [Next]_vars => TypeInv'
<1> SUFFICES ASSUME TypeInv, DrawnFree, [Next]_vars PROVE TypeInv'
  OBVIOUS
<1>0. /\ RequestInv /\ RowInv /\ TablesSound /\ drawn \subseteq Customer
      /\ NoCustomer \in CustomerRow
  BY CatalogAssumption, IdleIsFine DEF TypeInv, TablesSound, TypeOK
<1>1. ASSUME UNCHANGED Tables PROVE TablesSound' /\ RowInv' /\ ProductsStay
  BY <1>0, <1>1 DEF Tables, TablesSound, TypeOK, RowInv, ProductsStay, There
<1>2. ASSUME UNCHANGED Tables, UNCHANGED <<request, calls>> PROVE TypeInv'
  <2>1. RequestInv'
    BY <1>0, <1>2 DEF RequestInv, Tables, RequestState, Aims
  <2> QED BY <1>1, <1>2, <2>1 DEF TypeInv
<1>3. ASSUME NEW r \in Request, Finishes(r), UNCHANGED <<Tables, calls>> PROVE TypeInv'
  <2>1. RequestInv'
    BY <1>0, <1>1, <1>3, Finished DEF Tables
  <2> QED BY <1>1, <1>3, <2>1 DEF TypeInv
<1>4. ASSUME NEW r \in Request, NEW next \in RequestState, Becomes(r, next), Aims(request[r])',
             UNCHANGED <<Tables, calls>>
      PROVE  TypeInv'
  <2>1. RequestInv'
    BY <1>0, <1>1, <1>4, RequestMoves DEF Tables
  <2> QED BY <1>1, <1>4, <2>1 DEF TypeInv
<1>5. ASSUME NEW r \in Request, Finishes(r), TypeOK', RowInv', TablesSound',
             UNCHANGED <<drawn, calls>>, ProductsStay
      PROVE  TypeInv'
  <2>1. RequestInv'
    BY <1>0, <1>5, Finished
  <2> QED BY <1>5, <2>1 DEF TypeInv
<1>6. ASSUME NEW r \in Request, Statement(r) PROVE TypeInv'
  <2>0. request[r] \in RequestState /\ Aims(request[r])
    BY <1>0 DEF RequestInv
  <2>1. ASSUME NEW call \in calls.handlers, NEW org \in Organization, NEW role \in Caller,
               OrgGuard(r, call, org, role)
        PROVE  TypeInv'
    <3> DEFINE next == [Idle EXCEPT !.pc = "admitted", !.call = call, !.role = role, !.org = org]
    <3>1. role \in Role
      BY CatalogAssumption
    <3>2. next \in RequestState /\ next.pc = "admitted" /\ next.role = role /\ next.org = org /\ next.call = call
      BY <2>0, <3>1, IdleIsFine DEF RequestState, Idle
    <3>3. Becomes(r, next) /\ UNCHANGED <<Tables, calls>> /\ Admits(role, RouteOf(call))
      BY <2>1 DEF OrgGuard, History
    <3> HIDE DEF next
    <3>a. request'[r] = next
      BY <1>0, <3>1, <3>2, <3>3 DEF RequestInv, Becomes
    <3>4. Aims(request[r])'
      BY <3>a, <3>1, <3>2, <3>3 DEF Aims
    <3> QED BY <1>4, <3>2, <3>3, <3>4
  <2>2. ASSUME NEW w \in Workspace, WorkspaceGuard(r, w) PROVE TypeInv'
    <3> DEFINE next == [request[r] EXCEPT !.pc = "entered", !.workspace = w]
    <3>1. /\ next \in RequestState /\ next.pc = "entered" /\ next.role = request[r].role
          /\ next.org = request[r].org /\ next.call = request[r].call /\ next.workspace = w
      BY <2>0 DEF RequestState
    <3>2. Becomes(r, next) /\ UNCHANGED <<Tables, calls>> /\ OrgOf[w] = request[r].org /\ request[r].pc = "admitted"
      BY <2>2 DEF WorkspaceGuard, History, Found, At
    <3> HIDE DEF next
    <3>a. request'[r] = next
      BY <1>0, <3>1, <3>2 DEF RequestInv, Becomes
    <3>3. Aims(request[r])'
      BY <3>a, <2>0, <3>1, <3>2 DEF Aims
    <3> QED BY <1>4, <3>1, <3>2, <3>3
  <2>3. ASSUME NEW id \in Customer, CustomerDraw(r, id) PROVE TypeInv'
    <3> DEFINE next == [request[r] EXCEPT !.pc = "drawn", !.target = id]
    <3>2. drawn' = drawn \union {id}
      BY <2>3 DEF CustomerDraw
    <3>3. /\ next \in RequestState /\ next.pc = "drawn" /\ next.role = request[r].role
          /\ next.org = request[r].org /\ next.call = request[r].call
          /\ next.workspace = request[r].workspace /\ next.target = id
      BY <2>0, <3>2 DEF RequestState
    <3>4. /\ Becomes(r, next) /\ request[r].pc = "entered" /\ request[r].call \in Customers("create")
          /\ UNCHANGED <<workspaces, customers, products, prices, invoiced, sold, calls>>
      BY <2>3 DEF CustomerDraw, At, History
    <3> HIDE DEF next
    <3>a. request'[r] = next
      BY <1>0, <3>2, <3>3, <3>4 DEF RequestInv, Becomes
    <3>5. Aims(request[r])'
      BY <3>a, <1>0, <2>0, <3>2, <3>3, <3>4 DEF Aims
    <3>6. ProductsStay
      BY <3>4 DEF ProductsStay
    <3>7. RequestInv'
      BY <1>0, <3>2, <3>3, <3>4, <3>5, <3>6, RequestMoves
    <3>8. RowInv'
      BY <1>0, <3>2, <3>4 DEF RowInv, There
    <3>9. drawn' \subseteq Customer
      BY <1>0, <3>2
    <3>10. TablesSound'
      BY <1>0, <3>4, <3>9 DEF TablesSound, TypeOK, There
    <3> QED BY <3>7, <3>8, <3>10 DEF TypeInv
  <2>4. ASSUME NEW c \in Customer, CustomerRead(r, c) PROVE TypeInv'
    <3> DEFINE next == [request[r] EXCEPT !.pc = "read", !.target = c, !.copy = customers[c]]
    <3>1. customers[c] \in CustomerRow
      BY <1>0 DEF TablesSound, TypeOK
    <3>2. /\ next \in RequestState /\ next.pc = "read" /\ next.role = request[r].role
          /\ next.org = request[r].org /\ next.call = request[r].call
          /\ next.workspace = request[r].workspace /\ next.target = c
      BY <2>0, <3>1 DEF RequestState
    <3>3. /\ Becomes(r, next) /\ request[r].pc = "entered" /\ request[r].call \in CustomerTargets
          /\ UNCHANGED <<Tables, calls>> /\ customers[c].workspace = request[r].workspace
      BY <2>4, Kinds DEF CustomerRead, At, IsIn, CustomerTargets
    <3>4. c \in drawn
      <4>1. request[r].workspace \in Workspace
        BY <2>0, <3>3 DEF Aims
      <4>2. customers[c] # NoCustomer
        BY <3>3, <4>1, CatalogAssumption DEF NoCustomer
      <4> QED BY <1>0, <4>2 DEF RowInv
    <3> HIDE DEF next
    <3>a. request'[r] = next
      BY <1>0, <3>2, <3>3, <3>4 DEF RequestInv, Becomes
    <3>5. Aims(request[r])'
      BY <3>a, <2>0, <3>2, <3>3, <3>4 DEF Aims, Tables
    <3> QED BY <1>4, <3>2, <3>3, <3>5
  <2>5. ASSUME NEW p \in Product, ProductRead(r, p) PROVE TypeInv'
    <3> DEFINE next == [request[r] EXCEPT !.pc = "read", !.target = p]
    <3>1. /\ next \in RequestState /\ next.pc = "read" /\ next.role = request[r].role
          /\ next.org = request[r].org /\ next.call = request[r].call
          /\ next.workspace = request[r].workspace /\ next.target = p
      BY <2>0 DEF RequestState
    <3>2. /\ Becomes(r, next) /\ request[r].pc = "entered" /\ request[r].call \in ProductTargets
          /\ UNCHANGED <<Tables, calls>> /\ products[p].workspace = request[r].workspace
      BY <2>5 DEF ProductRead, At, IsIn, ProductTargets, History
    <3> HIDE DEF next
    <3>a. request'[r] = next
      BY <1>0, <3>1, <3>2 DEF RequestInv, Becomes
    <3>3. Aims(request[r])'
      BY <3>a, <2>0, <3>1, <3>2 DEF Aims, Tables
    <3> QED BY <1>4, <3>1, <3>2, <3>3
  <2>6. CASE ProductCount(r)
    <3> DEFINE next == [request[r] EXCEPT !.pc = "counted"]
    <3>1. /\ next \in RequestState /\ next.pc = "counted" /\ next.role = request[r].role
          /\ next.org = request[r].org /\ next.call = request[r].call
          /\ next.workspace = request[r].workspace /\ next.target = request[r].target
      BY <2>0 DEF RequestState
    <3>2. /\ Becomes(r, next) /\ request[r].pc = "read" /\ request[r].call \in Products({"remove"})
          /\ UNCHANGED <<Tables, calls>>
      BY <2>6 DEF ProductCount, At, History
    <3>3. request[r].target \in Product /\ products[request[r].target].workspace = request[r].workspace
      BY <1>0, <3>2, Targets, Kinds DEF At
    <3> HIDE DEF next
    <3>a. request'[r] = next
      BY <1>0, <3>1, <3>2, <3>3 DEF RequestInv, Becomes
    <3>4. Aims(request[r])'
      BY <3>a, <2>0, <3>1, <3>2, <3>3 DEF Aims, Tables
    <3> QED BY <1>4, <3>1, <3>2, <3>4
  <2>7. CASE ListPage(r) \/ Ends(r)
    BY <1>3, <2>7 DEF ListPage, Ends, History
  <2>8. CASE \/ \E stage \in Stage : CustomerInsert(r, stage)
             \/ \E stage \in Stage \union {Keep} : CustomerWrite(r, stage)
             \/ \E c \in Customer : CustomerRemove(r, c)
             \/ NoteInsert(r)
             \/ \E p \in Product : ProductCreate(r, p)
             \/ ProductRemove(r) \/ ProductSetStatus(r)
             \/ \E x \in Price : PriceAdd(r, x) \/ PriceArchive(r, x)
             \/ \E w \in Workspace : WorkspaceCreate(r, w) \/ WorkspaceRemove(r, w)
    BY <1>5, <2>8, TablesStep
  <2> QED BY <1>6, <2>1, <2>2, <2>3, <2>4, <2>5, <2>6, <2>7, <2>8 DEF Statement
<1>7. ASSUME NEW c \in Customer, NEW w \in Workspace, Invoice(c, w) PROVE TypeInv'
  <2>1. RequestInv'
    BY <1>0, <1>7 DEF Invoice, RequestInv, RequestState, Aims, History
  <2> QED BY <1>0, <1>7, <2>1 DEF Invoice, IsIn, TypeInv, TablesSound, TypeOK, RowInv, There
<1>8. ASSUME NEW x \in Price, NEW w \in Workspace, Sell(x, w) \/ Unsell(x, w) PROVE TypeInv'
  <2>1. RequestInv'
    BY <1>0, <1>8 DEF Sell, Unsell, RequestInv, RequestState, Aims, History
  <2> QED BY <1>0, <1>8, <2>1 DEF Sell, Unsell, PriceIn, IsIn, TypeInv, TablesSound, TypeOK, RowInv, There
<1>9. CASE UNCHANGED vars
  BY <1>2, <1>9 DEF vars, Tables
<1> QED BY <1>6, <1>7, <1>8, <1>9 DEF Next

-----------------------------------------------------------------------------
(* What requests hold of customers *)

UpdateCalls == Customers("update")

\* An id of a customer that a request has drawn, or a customer it has read.
Holds(q) == q.pc = "drawn" \/ (q.pc = "read" /\ q.call \in CustomerTargets)
Updating(q) == q.pc = "read" /\ q.call \in UpdateCalls

\* A copy and the row it was made of.
CopyOf(q) ==
    /\ q.copy.stage = "active" => q.copy.converted > 0
    /\ customers[q.target] # NoCustomer =>
         /\ customers[q.target].workspace = q.workspace
         /\ q.copy.converted <= customers[q.target].converted
         /\ Updating(q) /\ q.target \notin raced => q.copy.converted = customers[q.target].converted

CopyInv == \A r \in Request : Holds(request[r]) /\ request[r].pc = "read" => CopyOf(request[r])

DrawnInv ==
    \A r \in Request : request[r].pc = "drawn" =>
        /\ customers[request[r].target] = NoCustomer
        /\ \A q \in Request : q # r /\ Holds(request[q]) => request[q].target # request[r].target

RaceInv ==
    \A r, q \in Request : r # q /\ Updating(request[r]) /\ Updating(request[q])
                          /\ request[q].target = request[r].target => request[r].target \in raced

CustomerInv == CopyInv /\ DrawnInv /\ RaceInv /\ ConvertedOnce

LEMMA UpdatesHold == \A q : Updating(q) => Holds(q) /\ q.pc = "read"
BY Kinds DEF Updating, Holds, UpdateCalls

LEMMA HeldTargets ==
    ASSUME RequestInv, NEW r \in Request, Holds(request[r])
    PROVE  request[r] \in RequestState /\ request[r].target \in Customer /\ request[r].target \in drawn
BY Kinds DEF RequestInv, Aims, Holds

\* A step by which no request comes to hold a customer, and no row changes but by its removal.
LEMMA QuietStep ==
    ASSUME TypeInv, CustomerInv, UNCHANGED raced,
           \A c \in Customer : customers'[c] \in {customers[c], NoCustomer},
           \A q \in Request : request'[q] = request[q] \/ ~ Holds(request'[q])
    PROVE  CustomerInv'
<1> USE DEF CustomerInv
<1>0. RequestInv
  BY DEF TypeInv
<1>1. ASSUME NEW q \in Request, Holds(request'[q])
      PROVE  /\ request'[q] = request[q] /\ Holds(request[q]) /\ request[q].target \in Customer
             /\ customers'[request[q].target] \in {customers[request[q].target], NoCustomer}
  <2>1. request'[q] = request[q]
    BY <1>1
  <2>2. Holds(request[q])
    BY <1>1, <2>1
  <2> QED BY <1>0, <2>1, <2>2, HeldTargets
<1>2. CopyInv'
  BY <1>1 DEF CopyInv, CopyOf, Holds, Updating
<1>3. DrawnInv'
  <2> SUFFICES ASSUME NEW r \in Request, request'[r].pc = "drawn"
               PROVE  /\ customers'[request'[r].target] = NoCustomer
                      /\ \A q \in Request : q # r /\ Holds(request'[q]) => request'[q].target # request'[r].target
    BY DEF DrawnInv, Holds
  <2>1. Holds(request'[r]) /\ request'[r] = request[r]
    BY <1>1 DEF Holds
  <2> QED BY <1>1, <2>1 DEF DrawnInv
<1>4. RaceInv'
  <2> SUFFICES ASSUME NEW r \in Request, NEW q \in Request, r # q, Updating(request'[r]), Updating(request'[q]),
                      request'[q].target = request'[r].target
               PROVE  request'[r].target \in raced'
    BY DEF RaceInv, Updating
  <2>1. request'[r] = request[r] /\ request'[q] = request[q]
    BY <1>1, UpdatesHold
  <2> QED BY <2>1 DEF RaceInv
<1>5. ConvertedOnce'
  <2>1. NoCustomer.stage # "active" /\ NoCustomer.converted = 0
    BY CatalogAssumption DEF NoCustomer
  <2> QED BY <2>1 DEF ConvertedOnce
<1> QED BY <1>2, <1>3, <1>4, <1>5

\* A request that holds a row writes it.
LEMMA WriteStep ==
    ASSUME TypeInv, CustomerInv, NEW r \in Request, NEW c \in Customer, NEW row \in CustomerRow,
           UNCHANGED raced, customers' = [customers EXCEPT ![c] = row],
           Holds(request[r]), request[r].target = c, ~ Holds(request'[r]), OthersWait(r),
           \/ /\ request[r].pc = "drawn" /\ row.converted <= 1
              /\ row.stage = "active" => row.converted > 0
           \/ /\ request[r].pc = "read" /\ customers[c] # NoCustomer
              /\ row.workspace = customers[c].workspace
              /\ \/ row.converted = customers[c].converted /\ row.stage = customers[c].stage
                 \/ /\ Updating(request[r]) /\ row.converted >= customers[c].converted
                    /\ row.converted # customers[c].converted =>
                         /\ request[r].copy.converted = 0 /\ row.converted = customers[c].converted + 1
                    /\ row.stage = "active" => row.converted > 0
    PROVE  CustomerInv'
<1> USE DEF CustomerInv
<1>0. RequestInv /\ TypeOK
  BY DEF TypeInv, TablesSound
<1>1. ASSUME NEW q \in Request, Holds(request'[q])
      PROVE  q # r /\ request'[q] = request[q] /\ Holds(request[q]) /\ request[q].target \in Customer
             /\ request[q] \in RequestState
  <2>1. request'[q] = request[q] /\ q # r
    BY <1>1 DEF OthersWait
  <2>2. Holds(request[q])
    BY <1>1, <2>1
  <2> QED BY <1>0, <2>1, <2>2, HeldTargets
<1>2. \A d \in Customer : customers'[d] = IF d = c THEN row ELSE customers[d]
  BY <1>0 DEF TypeOK
<1>3. row.converted \in Nat /\ \A d \in Customer : customers[d].converted \in Nat
  BY <1>0 DEF TypeOK, CustomerRow
<1>4. \A q \in Request : request[q] \in RequestState => request[q].copy.converted \in Nat
  BY DEF RequestState, CustomerRow
<1>5. CopyInv'
  <2> SUFFICES ASSUME NEW q \in Request, Holds(request'[q]), request'[q].pc = "read"
               PROVE  CopyOf(request[q])'
    BY DEF CopyInv, Holds
  <2>1. q # r /\ request'[q] = request[q] /\ Holds(request[q]) /\ request[q].target \in Customer
        /\ request[q] \in RequestState /\ request[q].pc = "read"
    BY <1>1
  <2>2. CopyOf(request[q])
    BY <2>1 DEF CopyInv
  <2>3. CASE request[q].target # c
    BY <1>2, <2>1, <2>2, <2>3 DEF CopyOf, Updating
  <2>4. CASE request[q].target = c
    <3>1. request[r].pc = "read" /\ customers[c] # NoCustomer
      BY <2>1, <2>4 DEF DrawnInv
    <3>2. Updating(request[r]) /\ Updating(request[q]) => c \in raced
      BY <2>1, <2>4 DEF RaceInv
    <3>3. customers'[c] = row /\ raced' = raced
      BY <1>2
    <3>4. row.workspace = customers[c].workspace /\ row.converted >= customers[c].converted
          /\ (Updating(request[q]) /\ c \notin raced => row.converted = customers[c].converted)
      BY <1>3, <3>1, <3>2
    <3>5. request[q].copy.converted \in Nat
      BY <1>4, <2>1
    <3>6. \A a, b, d \in Nat : a <= b /\ d >= b => a <= d
      OBVIOUS
    <3> QED BY <1>3, <2>1, <2>2, <2>4, <3>1, <3>3, <3>4, <3>5, <3>6 DEF CopyOf, Updating
  <2> QED BY <2>3, <2>4
<1>6. DrawnInv'
  <2> SUFFICES ASSUME NEW s \in Request, request'[s].pc = "drawn"
               PROVE  /\ customers'[request'[s].target] = NoCustomer
                      /\ \A q \in Request : q # s /\ Holds(request'[q]) => request'[q].target # request'[s].target
    BY DEF DrawnInv, Holds
  <2>1. Holds(request'[s]) /\ request'[s] = request[s] /\ s # r /\ request[s].target \in Customer
    BY <1>1 DEF Holds
  <2>2. request[s].target # c
    BY <2>1 DEF DrawnInv
  <2>3. customers[request[s].target] = NoCustomer
    BY <2>1 DEF DrawnInv
  <2> QED BY <1>1, <1>2, <2>1, <2>2, <2>3 DEF DrawnInv
<1>7. RaceInv'
  <2> SUFFICES ASSUME NEW s \in Request, NEW q \in Request, s # q, Updating(request'[s]), Updating(request'[q]),
                      request'[q].target = request'[s].target
               PROVE  request'[s].target \in raced'
    BY DEF RaceInv, Updating
  <2>1. request'[s] = request[s] /\ request'[q] = request[q]
    BY <1>1, UpdatesHold
  <2> QED BY <2>1 DEF RaceInv
<1>8. ConvertedOnce'
  <2>1. row.stage = "active" => row.converted > 0
    BY <1>3 DEF ConvertedOnce
  <2>2. row.converted > 1 => c \in raced
    <3>1. CASE request[r].pc = "drawn"
      BY <1>3, <3>1
    <3>2. CASE row.converted = customers[c].converted
      BY <3>2 DEF ConvertedOnce
    <3>3. CASE /\ request[r].pc = "read" /\ customers[c] # NoCustomer /\ Updating(request[r])
               /\ request[r].copy.converted = 0 /\ row.converted = customers[c].converted + 1
      <4>1. CopyOf(request[r])
        BY <3>3 DEF CopyInv
      <4>2. c \notin raced => customers[c].converted = 0
        BY <3>3, <4>1 DEF CopyOf
      <4> QED BY <1>3, <3>3, <4>2
    <3> QED BY <3>1, <3>2, <3>3
  <2> QED BY <1>2, <2>1, <2>2 DEF ConvertedOnce
<1> QED BY <1>5, <1>6, <1>7, <1>8

\* The statements of a request by which it comes to hold no customer and writes no row of one.
QuietStatement(r) ==
    \/ \E call \in calls.handlers, org \in Organization, role \in Caller : OrgGuard(r, call, org, role)
    \/ \E w \in Workspace : WorkspaceGuard(r, w) \/ WorkspaceCreate(r, w) \/ WorkspaceRemove(r, w)
    \/ \E c \in Customer : CustomerRemove(r, c)
    \/ ListPage(r)
    \/ \E p \in Product : ProductCreate(r, p) \/ ProductRead(r, p)
    \/ ProductCount(r)
    \/ ProductRemove(r)
    \/ ProductSetStatus(r)
    \/ \E x \in Price : PriceAdd(r, x) \/ PriceArchive(r, x)
    \/ Ends(r)

LEMMA QuietStatements ==
    ASSUME TypeInv, NEW r \in Request, QuietStatement(r)
    PROVE  /\ UNCHANGED <<raced, drawn, calls>>
           /\ \A c \in Customer : customers'[c] \in {customers[c], NoCustomer}
           /\ \A q \in Request : q # r => request'[q] = request[q]
           /\ ~ Holds(request'[r])
<1>0. TypeOK /\ RequestInv /\ request[r] \in RequestState
  BY DEF TypeInv, TablesSound, RequestInv
<1>1. UNCHANGED <<raced, drawn, calls>>
  BY DEF QuietStatement, OrgGuard, WorkspaceGuard, WorkspaceCreate, WorkspaceRemove, CustomerRemove, ListPage,
         ProductCreate, ProductRead, ProductCount, ProductRemove, ProductSetStatus, PriceAdd, PriceArchive, Ends,
         History, Tables
<1>2. \A c \in Customer : customers'[c] \in {customers[c], NoCustomer}
  <2>1. CASE UNCHANGED customers
    BY <2>1
  <2>2. CASE \E w \in Workspace : WorkspaceRemove(r, w)
    BY <2>2 DEF WorkspaceRemove
  <2>3. CASE \E c \in Customer : CustomerRemove(r, c)
    BY <1>0, <2>3 DEF CustomerRemove, TypeOK
  <2> QED BY <2>1, <2>2, <2>3
          DEF QuietStatement, OrgGuard, WorkspaceGuard, WorkspaceCreate, ListPage, Tables,
              ProductCreate, ProductRead, ProductCount, ProductRemove, ProductSetStatus, PriceAdd, PriceArchive, Ends
<1> DEFINE Moves(next) ==
        /\ request' = [request EXCEPT ![r] = next]
        /\ \/ next.pc \in {"idle", "admitted", "entered", "counted"}
           \/ next.pc = "read" /\ next.call \in ProductTargets
<1>3. \E next : Moves(next)
  <2>1. CASE Finishes(r)
    <3>1. Moves(Idle)
      BY <2>1 DEF Finishes, Becomes, Idle
    <3> QED BY <3>1
  <2>2. ASSUME NEW call, NEW org, NEW role, OrgGuard(r, call, org, role)
        PROVE  \E next : Moves(next)
    <3> DEFINE next == [Idle EXCEPT !.pc = "admitted", !.call = call, !.role = role, !.org = org]
    <3>1. Becomes(r, next) /\ next.pc = "admitted"
      BY <2>2 DEF OrgGuard, Idle
    <3> HIDE DEF next
    <3> QED BY <3>1 DEF Becomes
  <2>3. ASSUME NEW w, WorkspaceGuard(r, w)
        PROVE  \E next : Moves(next)
    <3> DEFINE next == [request[r] EXCEPT !.pc = "entered", !.workspace = w]
    <3>1. Becomes(r, next) /\ next.pc = "entered"
      BY <1>0, <2>3 DEF WorkspaceGuard, RequestState
    <3> HIDE DEF next
    <3> QED BY <3>1 DEF Becomes
  <2>4. ASSUME NEW p, ProductRead(r, p)
        PROVE  \E next : Moves(next)
    <3> DEFINE next == [request[r] EXCEPT !.pc = "read", !.target = p]
    <3>1. Becomes(r, next) /\ next.pc = "read" /\ next.call \in ProductTargets
      BY <1>0, <2>4 DEF ProductRead, RequestState, At, ProductTargets
    <3> HIDE DEF next
    <3> QED BY <3>1 DEF Becomes
  <2>5. CASE ProductCount(r)
    <3> DEFINE next == [request[r] EXCEPT !.pc = "counted"]
    <3>1. Becomes(r, next) /\ next.pc = "counted"
      BY <1>0, <2>5 DEF ProductCount, RequestState
    <3> HIDE DEF next
    <3> QED BY <3>1 DEF Becomes
  <2> QED BY <2>1, <2>2, <2>3, <2>4, <2>5
          DEF QuietStatement, WorkspaceCreate, WorkspaceRemove, CustomerRemove, ListPage,
              ProductCreate, ProductRemove, ProductSetStatus, PriceAdd, PriceArchive, Ends
<1>4. ~ Holds(request'[r]) /\ \A q \in Request : q # r => request'[q] = request[q]
  <2> PICK next : Moves(next)
    BY <1>3
  <2>1. request'[r] = next /\ \A q \in Request : q # r => request'[q] = request[q]
    BY <1>0 DEF RequestInv
  <2> QED BY <2>1, Kinds DEF Holds
<1> QED BY <1>1, <1>2, <1>4

LEMMA StatementKinds ==
    ASSUME NEW r \in Request, Statement(r)
    PROVE  \/ QuietStatement(r)
           \/ \E id \in Customer : CustomerDraw(r, id)
           \/ \E stage \in Stage : CustomerInsert(r, stage)
           \/ \E stage \in Stage \union {Keep} : CustomerWrite(r, stage)
           \/ \E c \in Customer : CustomerRead(r, c)
           \/ NoteInsert(r)
BY DEF Statement, QuietStatement

\* The rows that a request writes are those it holds.
LEMMA InsertWrites ==
    ASSUME TypeInv, CustomerInv, NEW r \in Request, NEW stage \in Stage, CustomerInsert(r, stage)
    PROVE  CustomerInv'
<1> DEFINE c == request[r].target
           row == [workspace |-> request[r].workspace, stage |-> stage,
                   converted |-> IF stage = "active" THEN 1 ELSE 0, notes |-> 0]
<1>0. RequestInv /\ drawn \subseteq Customer /\ request[r].pc = "drawn" /\ Holds(request[r])
  BY CatalogAssumption DEF TypeInv, TablesSound, TypeOK, CustomerInsert, At, Holds
<1>1. c \in Customer /\ request[r] \in RequestState
  BY <1>0, HeldTargets
<1>2. Finishes(r) /\ UNCHANGED <<raced, drawn, calls, products>>
  BY DEF CustomerInsert
<1>3. request'[r] = Idle /\ OthersWait(r)
  BY <1>0, <1>2, Finished DEF ProductsStay
<1>4. row \in CustomerRow
  <2>1. request[r].workspace \in Workspace
    BY <1>0 DEF RequestInv, Aims
  <2> QED BY <2>1, CatalogAssumption DEF CustomerRow
<1>5. row.converted <= 1 /\ (row.stage = "active" => row.converted > 0)
  OBVIOUS
<1>6. customers' = [customers EXCEPT ![c] = row]
  BY DEF CustomerInsert
<1>7. ~ Holds(request'[r])
  BY <1>3 DEF Holds, Idle
<1> HIDE DEF c, row
<1>8. request[r].target = c
  BY DEF c
<1> QED BY <1>0, <1>1, <1>2, <1>3, <1>4, <1>5, <1>6, <1>7, <1>8, WriteStep

LEMMA UpdateWrites ==
    ASSUME TypeInv, CustomerInv, NEW r \in Request, NEW stage \in Stage \union {Keep}, CustomerWrite(r, stage)
    PROVE  /\ CustomerInv'
           /\ request[r].target \in Customer /\ customers[request[r].target] # NoCustomer
           /\ \A d \in Customer : customers'[d].workspace = customers[d].workspace
           /\ \A d \in Customer : d # request[r].target => customers'[d] = customers[d]
<1> DEFINE c == request[r].target
           written == IF stage = Keep THEN customers[c].stage ELSE stage
           counted == IF Stamps(stage, request[r].copy) THEN customers[c].converted + 1
                      ELSE customers[c].converted
           row == [customers[c] EXCEPT !.stage = written, !.converted = counted]
<1>0. /\ TypeOK /\ RequestInv /\ drawn \subseteq Customer /\ Updating(request[r]) /\ request[r].pc = "read"
      /\ customers[c].workspace = request[r].workspace
  BY CatalogAssumption DEF TypeInv, TablesSound, TypeOK, CustomerWrite, At, Updating, UpdateCalls, IsIn
<1>1. c \in Customer /\ Holds(request[r]) /\ request[r] \in RequestState /\ request[r].workspace \in Workspace
  BY <1>0, HeldTargets, UpdatesHold DEF RequestInv, Aims
<1>2. Finishes(r) /\ UNCHANGED <<raced, drawn, calls, products>>
  BY DEF CustomerWrite, History
<1>3. request'[r] = Idle /\ OthersWait(r)
  BY <1>0, <1>2, Finished DEF ProductsStay
<1>4. customers[c] # NoCustomer /\ customers[c] \in CustomerRow
  BY <1>0, <1>1, CatalogAssumption DEF NoCustomer, TypeOK
<1>5. CopyOf(request[r])
  BY <1>0, <1>1 DEF CustomerInv, CopyInv
<1>6. written \in Stage \union {Keep} /\ counted \in Nat
  BY <1>4 DEF CustomerRow
<1>7. /\ customers[c].converted \in Nat /\ request[r].copy.converted \in Nat
  BY <1>1, <1>4 DEF CustomerRow, RequestState
<1>8. /\ counted >= customers[c].converted
      /\ counted # customers[c].converted => request[r].copy.converted = 0 /\ counted = customers[c].converted + 1
  BY <1>7 DEF Stamps
<1>9. written = "active" => counted > 0
  <2> SUFFICES ASSUME written = "active" PROVE counted > 0
    OBVIOUS
  <2>1. CASE stage = Keep
    <3>1. customers[c].stage = "active"
      BY <2>1
    <3>2. customers[c].converted > 0
      BY <1>1, <3>1 DEF CustomerInv, ConvertedOnce
    <3> QED BY <1>7, <1>8, <3>2
  <2>2. CASE stage # Keep /\ request[r].copy.stage = "active"
    <3>1. request[r].copy.converted > 0 /\ request[r].copy.converted <= customers[c].converted
      BY <1>4, <1>5, <2>2 DEF CopyOf
    <3> QED BY <1>7, <1>8, <3>1
  <2>3. CASE stage # Keep /\ request[r].copy.stage # "active" /\ request[r].copy.converted # 0
    <3>1. request[r].copy.converted <= customers[c].converted
      BY <1>4, <1>5 DEF CopyOf
    <3> QED BY <1>7, <1>8, <2>3, <3>1
  <2>4. CASE stage # Keep /\ request[r].copy.stage # "active" /\ request[r].copy.converted = 0
    BY <1>7, <2>4 DEF Stamps
  <2> QED BY <2>1, <2>2, <2>3, <2>4
<1>10. /\ row \in CustomerRow /\ row.workspace = customers[c].workspace
       /\ row.stage = written /\ row.converted = counted
  <2> HIDE DEF written, counted
  <2> QED BY <1>4, <1>6 DEF CustomerRow
<1>11. customers' = [customers EXCEPT ![c] = row]
  BY <1>0, <1>1, <1>4 DEF CustomerWrite, TypeOK, CustomerRow
<1>12. ~ Holds(request'[r])
  BY <1>3 DEF Holds, Idle
<1>13. request[r].target = c
  OBVIOUS
<1> HIDE DEF c, row, written, counted
<1>14. CustomerInv'
  <2>1. row.converted >= customers[c].converted
    BY <1>8, <1>10
  <2>2. row.converted # customers[c].converted =>
          request[r].copy.converted = 0 /\ row.converted = customers[c].converted + 1
    BY <1>8, <1>10
  <2>3. row.stage = "active" => row.converted > 0
    BY <1>9, <1>10
  <2> QED BY <1>0, <1>1, <1>2, <1>3, <1>4, <1>10, <1>11, <1>12, <1>13, <2>1, <2>2, <2>3, WriteStep
<1>15. \A d \in Customer : customers'[d] = IF d = c THEN row ELSE customers[d]
  BY <1>0, <1>11 DEF TypeOK
<1> QED BY <1>1, <1>4, <1>10, <1>13, <1>14, <1>15

LEMMA NoteWrites ==
    ASSUME TypeInv, CustomerInv, NEW r \in Request, NoteInsert(r)
    PROVE  /\ CustomerInv'
           /\ request[r].target \in Customer /\ customers[request[r].target].workspace = request[r].workspace
           /\ \A d \in Customer : customers'[d].workspace = customers[d].workspace
           /\ \A d \in Customer : d # request[r].target => customers'[d] = customers[d]
<1> DEFINE c == request[r].target
           row == [customers[c] EXCEPT !.notes = customers[c].notes + 1]
<1>0. /\ TypeOK /\ RequestInv /\ drawn \subseteq Customer /\ Holds(request[r]) /\ request[r].pc = "read"
      /\ customers[c] # NoCustomer /\ customers[c].notes < MaxNotes
  BY Kinds, CatalogAssumption DEF TypeInv, TablesSound, TypeOK, NoteInsert, At, Holds
<1>1. c \in Customer
  BY <1>0, HeldTargets
<1>2. Finishes(r) /\ UNCHANGED <<raced, drawn, calls, products>>
  BY DEF NoteInsert, History
<1>3. request'[r] = Idle /\ OthersWait(r)
  BY <1>0, <1>2, Finished DEF ProductsStay
<1>4. customers[c] \in CustomerRow /\ customers[c].workspace = request[r].workspace
  BY <1>0, <1>1 DEF TypeOK, CustomerInv, CopyInv, CopyOf
<1>5. /\ row \in CustomerRow /\ row.workspace = customers[c].workspace
      /\ row.stage = customers[c].stage /\ row.converted = customers[c].converted
  BY <1>0, <1>4, CatalogAssumption DEF CustomerRow
<1>6. customers' = [customers EXCEPT ![c] = row]
  BY <1>0, <1>1, <1>4 DEF NoteInsert, TypeOK, CustomerRow
<1>7. ~ Holds(request'[r])
  BY <1>3 DEF Holds, Idle
<1>8. request[r].target = c
  OBVIOUS
<1> HIDE DEF c, row
<1>9. CustomerInv'
  BY <1>0, <1>1, <1>2, <1>3, <1>5, <1>6, <1>7, <1>8, WriteStep
<1>10. \A d \in Customer : customers'[d] = IF d = c THEN row ELSE customers[d]
  BY <1>0, <1>6 DEF TypeOK
<1> QED BY <1>1, <1>4, <1>5, <1>8, <1>9, <1>10

LEMMA DrawKeeps ==
    ASSUME TypeInv, CustomerInv, NEW r \in Request, NEW id \in Customer, CustomerDraw(r, id)
    PROVE  CustomerInv'
<1> USE DEF CustomerInv
<1>0. TypeOK /\ RequestInv /\ RowInv /\ drawn \subseteq Customer /\ request[r] \in RequestState
  BY CatalogAssumption DEF TypeInv, TablesSound, TypeOK, RequestInv
<1>1. /\ UNCHANGED <<customers, raced>>
      /\ request'[r] = [request[r] EXCEPT !.pc = "drawn", !.target = id] /\ OthersWait(r)
      /\ request[r].call \in Customers("create") /\ id \notin drawn
  BY <1>0 DEF CustomerDraw, Becomes, History, RequestInv, OthersWait, At
<1>2. request'[r].pc = "drawn" /\ request'[r].target = id
  BY <1>0, <1>1 DEF RequestState
<1>3. ASSUME NEW q \in Request, q # r, Holds(request'[q])
      PROVE  request'[q] = request[q] /\ Holds(request[q]) /\ request[q].target \in drawn /\ request[q].target \in Customer
  <2>1. request'[q] = request[q]
    BY <1>1, <1>3 DEF OthersWait
  <2>2. Holds(request[q])
    BY <1>3, <2>1
  <2> QED BY <1>0, <2>1, <2>2, HeldTargets
<1>4. CopyInv'
  <2> SUFFICES ASSUME NEW q \in Request, Holds(request'[q]), request'[q].pc = "read"
               PROVE  CopyOf(request[q])'
    BY DEF CopyInv, Holds
  <2>1. q # r
    BY <1>2
  <2>2. CopyOf(request[q]) /\ request'[q] = request[q]
    BY <1>3, <2>1 DEF CopyInv
  <2> QED BY <1>1, <2>2 DEF CopyOf, Updating
<1>5. DrawnInv'
  <2> SUFFICES ASSUME NEW s \in Request, request'[s].pc = "drawn"
               PROVE  /\ customers'[request'[s].target] = NoCustomer
                      /\ \A q \in Request : q # s /\ Holds(request'[q]) => request'[q].target # request'[s].target
    BY DEF DrawnInv, Holds
  <2>1. CASE s = r
    <3>2. customers[id] = NoCustomer
      BY <1>0, <1>1 DEF RowInv
    <3>3. \A q \in Request : q # r /\ Holds(request'[q]) => request'[q].target # id
      BY <1>1, <1>3
    <3> QED BY <1>1, <1>2, <2>1, <3>2, <3>3
  <2>2. CASE s # r
    <3>1. request'[s] = request[s] /\ request[s].pc = "drawn" /\ request[s].target \in Customer /\ request[s].target \in drawn
      BY <1>3, <2>2 DEF Holds
    <3>2. \A q \in Request : q # s /\ q # r /\ Holds(request'[q]) => request'[q].target # request[s].target
      BY <1>3, <3>1 DEF DrawnInv
    <3>3. request'[r].target # request[s].target
      BY <1>1, <1>2, <3>1
    <3>4. customers[request[s].target] = NoCustomer
      BY <3>1 DEF DrawnInv
    <3> QED BY <1>1, <3>1, <3>2, <3>3, <3>4
  <2> QED BY <2>1, <2>2
<1>6. RaceInv'
  <2> SUFFICES ASSUME NEW s \in Request, NEW q \in Request, s # q, Updating(request'[s]), Updating(request'[q]),
                      request'[q].target = request'[s].target
               PROVE  request'[s].target \in raced'
    BY DEF RaceInv, Updating
  <2>1. s # r /\ q # r
    BY <1>2 DEF Updating
  <2>2. request'[s] = request[s] /\ request'[q] = request[q]
    BY <1>1, <2>1 DEF OthersWait
  <2> QED BY <1>1, <2>2 DEF RaceInv
<1>7. ConvertedOnce'
  BY <1>1 DEF ConvertedOnce
<1> QED BY <1>4, <1>5, <1>6, <1>7

LEMMA ReadKeeps ==
    ASSUME TypeInv, CustomerInv, NEW r \in Request, NEW c \in Customer, CustomerRead(r, c)
    PROVE  CustomerInv'
<1> USE DEF CustomerInv
<1>0. TypeOK /\ RequestInv /\ request[r] \in RequestState /\ customers[c] \in CustomerRow
  BY DEF TypeInv, TablesSound, TypeOK, RequestInv
<1>1. /\ UNCHANGED customers /\ OthersWait(r)
      /\ request'[r] = [request[r] EXCEPT !.pc = "read", !.target = c, !.copy = customers[c]]
      /\ request[r].call \in CustomerTargets /\ request[r].pc = "entered"
      /\ customers[c].workspace = request[r].workspace
      /\ raced \subseteq raced'
  BY <1>0 DEF CustomerRead, Becomes, RequestInv, OthersWait, At, IsIn, Tables, CustomerTargets
<1>2. /\ request'[r].pc = "read" /\ request'[r].target = c /\ request'[r].copy = customers[c]
      /\ request'[r].call = request[r].call /\ request'[r].workspace = request[r].workspace
  BY <1>0, <1>1 DEF RequestState
<1>3. customers[c] # NoCustomer
  <2>1. request[r].workspace \in Workspace
    BY <1>1 DEF TypeInv, RequestInv, Aims
  <2> QED BY <1>1, <2>1, CatalogAssumption DEF NoCustomer
<1>4. ASSUME NEW q \in Request, q # r, Holds(request'[q])
      PROVE  request'[q] = request[q] /\ Holds(request[q])
  BY <1>1, <1>4 DEF OthersWait
<1>5. CopyInv'
  <2> SUFFICES ASSUME NEW q \in Request, Holds(request'[q]), request'[q].pc = "read"
               PROVE  CopyOf(request[q])'
    BY DEF CopyInv, Holds
  <2>1. CASE q = r
    <3>1. customers[c].converted \in Nat
      BY <1>0 DEF CustomerRow
    <3>2. customers[c].stage = "active" => customers[c].converted > 0
      BY DEF ConvertedOnce
    <3>3. /\ customers'[request'[r].target] = customers[c] /\ request'[r].copy = customers[c]
          /\ request'[r].workspace = customers[c].workspace
      BY <1>1, <1>2
    <3>4. customers[c].converted <= customers[c].converted
      BY <3>1
    <3> QED BY <2>1, <3>2, <3>3, <3>4 DEF CopyOf
  <2>2. CASE q # r
    <3>1. CopyOf(request[q]) /\ request'[q] = request[q]
      BY <1>4, <2>2 DEF CopyInv
    <3> QED BY <1>1, <3>1 DEF CopyOf, Updating
  <2> QED BY <2>1, <2>2
<1>6. DrawnInv'
  <2> SUFFICES ASSUME NEW s \in Request, request'[s].pc = "drawn"
               PROVE  /\ customers'[request'[s].target] = NoCustomer
                      /\ \A q \in Request : q # s /\ Holds(request'[q]) => request'[q].target # request'[s].target
    BY DEF DrawnInv, Holds
  <2>1. s # r
    BY <1>2
  <2>2. request'[s] = request[s] /\ request[s].pc = "drawn"
    BY <1>1, <2>1 DEF OthersWait
  <2>3. /\ customers[request[s].target] = NoCustomer
        /\ \A q \in Request : q # s /\ Holds(request[q]) => request[q].target # request[s].target
    BY <2>2 DEF DrawnInv
  <2>4. request'[r].target # request[s].target
    BY <1>2, <1>3, <2>3
  <2>5. \A q \in Request : q # s /\ Holds(request'[q]) => request'[q].target # request[s].target
    BY <1>4, <2>3, <2>4
  <2> QED BY <1>1, <2>2, <2>3, <2>5
<1>7. RaceInv'
  <2>1. \A q \in Request : q # r /\ Updating(request'[q]) => request'[q] = request[q] /\ Updating(request[q])
    BY <1>1 DEF OthersWait
  <2>2. ASSUME NEW q \in Request, q # r, Updating(request'[q]), Updating(request'[r]), request'[q].target = c
        PROVE  c \in raced'
    <3>1. At(q, "read", Customers("update")) /\ request[q].target = c
      BY <2>1, <2>2 DEF Updating, UpdateCalls, At
    <3>2. request[r].call[2] = "update"
      BY <1>2, <2>2 DEF Updating, UpdateCalls, Customers
    <3> QED BY <3>1, <3>2 DEF CustomerRead
  <2>3. ASSUME NEW s \in Request, NEW q \in Request, s # q, s # r, q # r,
               Updating(request'[s]), Updating(request'[q]), request'[q].target = request'[s].target
        PROVE  request'[s].target \in raced'
    BY <1>1, <2>1, <2>3 DEF RaceInv
  <2> SUFFICES ASSUME NEW s \in Request, NEW q \in Request, s # q, Updating(request'[s]), Updating(request'[q]),
                      request'[q].target = request'[s].target
               PROVE  request'[s].target \in raced'
    BY DEF RaceInv, Updating
  <2> QED BY <1>2, <2>2, <2>3
<1>8. ConvertedOnce'
  BY <1>1 DEF ConvertedOnce
<1> QED BY <1>5, <1>6, <1>7, <1>8

LEMMA CustomerInit == Init => CustomerInv
<1>1. NoCustomer.stage # "active" /\ NoCustomer.converted = 0
  BY CatalogAssumption DEF NoCustomer
<1> QED BY <1>1 DEF Init, CustomerInv, CopyInv, DrawnInv, RaceInv, ConvertedOnce, Holds, Updating, Idle

\* What requests hold of customers stays true under every statement.
LEMMA CustomerStep == TypeInv /\ CustomerInv /\ [Next]_vars => CustomerInv'
<1> SUFFICES ASSUME TypeInv, CustomerInv, [Next]_vars PROVE CustomerInv'
  OBVIOUS
<1>1. ASSUME NEW r \in Request, Statement(r) PROVE CustomerInv'
  <2>1. CASE QuietStatement(r)
    BY <2>1, QuietStatements, QuietStep
  <2> QED BY <1>1, <2>1, StatementKinds, DrawKeeps, InsertWrites, UpdateWrites, ReadKeeps, NoteWrites
<1>2. CASE UNCHANGED <<customers, request, raced>>
  BY <1>2, QuietStep
<1> QED BY <1>1, <1>2 DEF Next, Invoice, Sell, Unsell, History, vars

\* Both hold in every state: no insertion overwrites a row.
LEMMA RowsHold == Spec => [](TypeInv /\ CustomerInv)
<1>1. CustomerInv => DrawnFree
  BY DEF CustomerInv, DrawnInv, DrawnFree
<1> QED BY <1>1, TypeInit, TypeStep, CustomerInit, CustomerStep, PTL DEF Spec

\* The tables are sound, whatever statements of other requests come between
\* those of one: every row of a workspace goes with it, what restricts a
\* customer or a price is of the same workspace, so that nothing refuses the
\* removal of a workspace and nothing else takes what is invoiced or sold.
THEOREM TablesSoundHolds == Spec => []TablesSound
<1>1. TypeInv => TablesSound
  BY DEF TypeInv
<1> QED BY <1>1, RowsHold, PTL

\* Of what the removal of w leaves, something points at a row that goes with it.
Refuses(w) ==
    \/ \E row \in Elsewhere(invoiced, w) : customers[row[1]].workspace = w
    \/ \E row \in Elsewhere(sold, w), p \in Product :
          products[p].workspace = w /\ row[1] \in PricesOf(p)

\* The foreign keys that restrict never refuse the removal of a workspace: an
\* invoice or a subscription that its cascade leaves is of no customer or price
\* that goes (deleteWorkspace, schema/billing.ts, schema/subscriptions.ts).
THEOREM NothingRefusesRemoval == Spec => [](\A w \in Workspace : ~ Refuses(w))
<1>1. TablesSound => \A w \in Workspace : ~ Refuses(w)
  <2> SUFFICES ASSUME TablesSound, NEW w \in Workspace PROVE ~ Refuses(w)
    OBVIOUS
  <2>1. ASSUME NEW row \in Elsewhere(invoiced, w) PROVE customers[row[1]].workspace # w
    <3>1. row \in Customer \X Workspace /\ row \in invoiced /\ row[2] # w
      BY <2>1 DEF Elsewhere, TablesSound, TypeOK
    <3>2. row = <<row[1], row[2]>>
      BY <3>1
    <3> QED BY <3>1, <3>2 DEF TablesSound
  <2>2. ASSUME NEW row \in Elsewhere(sold, w), NEW p \in Product, products[p].workspace = w
        PROVE  row[1] \notin PricesOf(p)
    <3>1. row \in Price \X Workspace /\ row \in sold /\ row[2] # w
      BY <2>2 DEF Elsewhere, TablesSound, TypeOK
    <3>2. row = <<row[1], row[2]>>
      BY <3>1
    <3> QED BY <2>2, <3>1, <3>2 DEF TablesSound, PricesOf
  <2> QED BY <2>1, <2>2 DEF Refuses
<1> QED BY <1>1, TablesSoundHolds, PTL

\* A customer that is active has been stamped as converted, and once, unless
\* two updates have read it before either was written (update).
THEOREM ConvertedOnceHolds == Spec => []ConvertedOnce
<1>1. CustomerInv => ConvertedOnce
  BY DEF CustomerInv
<1> QED BY <1>1, RowsHold, PTL

-----------------------------------------------------------------------------
(* Prices *)

\* The prices of a product that a request has counted came after it had.
CountInv == \A r \in Request : request[r].pc = "counted" => PricesOf(request[r].target) \subseteq late

LEMMA GoneAre ==
    ASSUME TypeOK, NEW xs, prices' = Gone(xs), NEW x \in Price
    PROVE  /\ prices'[x].product = prices[x].product
           /\ x \in xs => prices'[x].status = "gone"
           /\ x \notin xs => prices'[x] = prices[x]
<1>1. prices[x] \in PriceRow
  BY DEF TypeOK
<1>2. prices'[x] = IF x \in xs THEN [prices[x] EXCEPT !.status = "gone"] ELSE prices[x]
  BY DEF Gone
<1> QED BY <1>1, <1>2 DEF PriceRow

\* What a statement does to prices.
LEMMA PriceChanges ==
    ASSUME TypeInv, NEW r \in Request, Statement(r)
    PROVE  \/ UNCHANGED prices
           \/ /\ ProductRemove(r)
              /\ \A x \in Price : IF x \in PricesOf(request[r].target)
                                  THEN prices'[x].status = "gone" ELSE prices'[x] = prices[x]
           \/ \E w \in Workspace :
              /\ WorkspaceRemove(r, w)
              /\ \A x \in Price :
                    IF There(prices[x]) /\ prices[x].product \in Product /\ products[prices[x].product].workspace = w
                    THEN prices'[x].status = "gone" ELSE prices'[x] = prices[x]
           \/ \E x \in Price :
              /\ PriceAdd(r, x)
              /\ \A y \in Price : prices'[y] = IF y = x THEN [product |-> request[r].target, status |-> "active"]
                                               ELSE prices[y]
           \/ \E x \in Price :
              /\ PriceArchive(r, x)
              /\ \A y \in Price : y # x => prices'[y] = prices[y]
              /\ prices'[x].product = prices[x].product /\ prices'[x].status = "archived"
<1>0. TypeOK
  BY DEF TypeInv, TablesSound
<1>1. CASE ProductRemove(r)
  <2>1. prices' = Gone(PricesOf(request[r].target))
    BY <1>1 DEF ProductRemove
  <2>2. \A x \in Price : IF x \in PricesOf(request[r].target)
                         THEN prices'[x].status = "gone" ELSE prices'[x] = prices[x]
    BY <1>0, <2>1, GoneAre
  <2> QED BY <1>1, <2>2
<1>2. ASSUME NEW w \in Workspace, WorkspaceRemove(r, w)
      PROVE  \A x \in Price :
                IF There(prices[x]) /\ prices[x].product \in Product /\ products[prices[x].product].workspace = w
                THEN prices'[x].status = "gone" ELSE prices'[x] = prices[x]
  <2> DEFINE xs == UNION {PricesOf(p) : p \in {q \in Product : products[q].workspace = w}}
  <2>1. prices' = Gone(xs)
    BY <1>2 DEF WorkspaceRemove
  <2>2. \A x \in Price : x \in xs <=> There(prices[x]) /\ prices[x].product \in Product
                                      /\ products[prices[x].product].workspace = w
    BY DEF PricesOf
  <2> HIDE DEF xs
  <2> QED BY <1>0, <2>1, <2>2, GoneAre
<1>3. ASSUME NEW x \in Price, PriceAdd(r, x)
      PROVE  \A y \in Price : prices'[y] = IF y = x THEN [product |-> request[r].target, status |-> "active"]
                                           ELSE prices[y]
  BY <1>0, <1>3 DEF PriceAdd, TypeOK
<1>4. ASSUME NEW x \in Price, PriceArchive(r, x)
      PROVE  /\ \A y \in Price : y # x => prices'[y] = prices[y]
             /\ prices'[x].product = prices[x].product /\ prices'[x].status = "archived"
  BY <1>0, <1>4 DEF PriceArchive, TypeOK, PriceRow
<1>5. ASSUME ~ ProductRemove(r), \A w \in Workspace : ~ WorkspaceRemove(r, w),
             \A x \in Price : ~ PriceAdd(r, x) /\ ~ PriceArchive(r, x)
      PROVE  UNCHANGED prices
  BY <1>5 DEF Statement, OrgGuard, WorkspaceGuard, WorkspaceCreate, CustomerDraw, CustomerInsert, CustomerWrite,
       CustomerRead, CustomerRemove, NoteInsert, ListPage, ProductCreate, ProductRead, ProductCount,
       ProductSetStatus, Ends, Tables
<1> QED BY <1>1, <1>2, <1>3, <1>4, <1>5

\* Only what counts prices has counted them.
LEMMA Counting ==
    ASSUME TypeInv, NEW r \in Request, Statement(r)
    PROVE  /\ OthersWait(r) /\ late \subseteq late'
           /\ request'[r].pc = "counted" =>
                ProductCount(r) /\ PricesOf(request'[r].target) = {} /\ UNCHANGED prices
<1>0. RequestInv /\ request[r] \in RequestState
  BY DEF TypeInv, RequestInv
<1>1. late \subseteq late'
  BY DEF Statement, OrgGuard, WorkspaceGuard, WorkspaceCreate, WorkspaceRemove, CustomerDraw, CustomerInsert,
         CustomerWrite, CustomerRead, CustomerRemove, NoteInsert, ListPage, ProductCreate, ProductRead, ProductCount,
         ProductRemove, ProductSetStatus, PriceAdd, PriceArchive, Ends, History
<1>2. ASSUME NEW next, Becomes(r, next)
      PROVE  request'[r] = next /\ OthersWait(r)
  BY <1>0, <1>2 DEF Becomes, RequestInv, OthersWait
<1>3. CASE Finishes(r)
  BY <1>1, <1>2, <1>3 DEF Finishes, Idle
<1>4. ASSUME NEW call, NEW org, NEW role, OrgGuard(r, call, org, role)
      PROVE  OthersWait(r) /\ request'[r].pc # "counted"
  <2>1. [Idle EXCEPT !.pc = "admitted", !.call = call, !.role = role, !.org = org].pc = "admitted"
    BY DEF Idle
  <2> QED BY <1>2, <1>4, <2>1 DEF OrgGuard
<1>5. ASSUME NEW w, WorkspaceGuard(r, w)
      PROVE  OthersWait(r) /\ request'[r].pc # "counted"
  <2>1. [request[r] EXCEPT !.pc = "entered", !.workspace = w].pc = "entered"
    BY <1>0 DEF RequestState
  <2> QED BY <1>2, <1>5, <2>1 DEF WorkspaceGuard
<1>6. ASSUME NEW id \in Customer, CustomerDraw(r, id)
      PROVE  OthersWait(r) /\ request'[r].pc # "counted"
  <2>1. [request[r] EXCEPT !.pc = "drawn", !.target = id].pc = "drawn"
    BY <1>0 DEF RequestState
  <2> QED BY <1>1, <1>2, <1>6, <2>1 DEF CustomerDraw
<1>7. ASSUME NEW c, CustomerRead(r, c)
      PROVE  OthersWait(r) /\ request'[r].pc # "counted"
  <2>1. [request[r] EXCEPT !.pc = "read", !.target = c, !.copy = customers[c]].pc = "read"
    BY <1>0 DEF RequestState
  <2> QED BY <1>2, <1>7, <2>1 DEF CustomerRead
<1>8. ASSUME NEW p, ProductRead(r, p)
      PROVE  OthersWait(r) /\ request'[r].pc # "counted"
  <2>1. [request[r] EXCEPT !.pc = "read", !.target = p].pc = "read"
    BY <1>0 DEF RequestState
  <2> QED BY <1>2, <1>8, <2>1 DEF ProductRead
<1>9. CASE ProductCount(r)
  <2>1. [request[r] EXCEPT !.pc = "counted"].target = request[r].target
    BY <1>0 DEF RequestState
  <2>2. request'[r].target = request[r].target /\ OthersWait(r)
    BY <1>2, <1>9, <2>1 DEF ProductCount
  <2> QED BY <1>1, <1>9, <2>2 DEF ProductCount, IsFree, Tables
<1> QED BY <1>1, <1>3, <1>4, <1>5, <1>6, <1>7, <1>8, <1>9
        DEF Statement, WorkspaceCreate, WorkspaceRemove, CustomerInsert, CustomerWrite, CustomerRemove, NoteInsert,
            ListPage, ProductCreate, ProductRemove, ProductSetStatus, PriceAdd, PriceArchive, Ends

\* Prices come to a product after they were counted, and are late.
LEMMA CountStep == TypeInv /\ CountInv /\ [Next]_vars => CountInv'
<1> SUFFICES ASSUME TypeInv, CountInv, [Next]_vars PROVE CountInv'
  OBVIOUS
<1>1. ASSUME NEW r \in Request, Statement(r) PROVE CountInv'
  <2>0. /\ OthersWait(r) /\ late \subseteq late'
        /\ request'[r].pc = "counted" => PricesOf(request'[r].target) = {} /\ UNCHANGED prices
    BY <1>1, Counting
  <2>1. SUFFICES ASSUME NEW q \in Request, request'[q].pc = "counted", NEW x \in Price,
                        prices'[x].product = request'[q].target, There(prices'[x])
                 PROVE  x \in late'
    BY DEF CountInv, PricesOf
  <2>2. CASE q = r
    <3>1. x \in PricesOf(request'[r].target)
      BY <2>0, <2>1, <2>2 DEF PricesOf
    <3> QED BY <2>0, <2>1, <2>2, <3>1
  <2>3. CASE q # r
    <3>1. request'[q] = request[q] /\ PricesOf(request[q].target) \subseteq late
      BY <2>0, <2>1, <2>3 DEF OthersWait, CountInv
    <3>2. CASE prices[x].product = request[q].target /\ There(prices[x])
      BY <2>0, <3>1, <3>2 DEF PricesOf
    <3>3. CASE PriceAdd(r, x)
      <4>1. prices'[x].product = request[r].target
        <5>1. prices \in [Price -> PriceRow]
          BY DEF TypeInv, TablesSound, TypeOK
        <5> QED BY <3>3, <5>1 DEF PriceAdd
      <4>2. At(q, "counted", Products({"remove"})) /\ request[q].target = request[r].target
        BY <2>1, <3>1, <4>1 DEF TypeInv, RequestInv, Aims, At
      <4> QED BY <3>3, <4>2 DEF PriceAdd
    <3>4. ASSUME ~ PriceAdd(r, x)
          PROVE  prices[x].product = request[q].target /\ There(prices[x])
      <4>1. There(prices[x]) /\ prices'[x].product = prices[x].product
        BY <1>1, <2>1, <3>4, PriceChanges DEF There, PriceArchive, PricesOf
      <4> QED BY <2>1, <3>1, <4>1
    <3> QED BY <3>2, <3>3, <3>4
  <2> QED BY <2>2, <2>3
<1>2. CASE UNCHANGED <<prices, request, late>>
  BY <1>2 DEF CountInv, PricesOf, There
<1> QED BY <1>1, <1>2 DEF Next, Invoice, Sell, Unsell, History, vars

\* What may become of a price in one step.
LEMMA PricesStayStep ==
    ASSUME TypeInv, CountInv, [Next]_vars, NEW x \in Price
    PROVE  /\ There(prices[x]) /\ ~ There(prices'[x]) =>
                \/ workspaces'[products[prices[x].product].workspace] = "gone"
                \/ x \in late /\ ~ Sold(x)
           /\ prices[x].status = "archived" => prices'[x].status # "active"
<1> DEFINE Goal == /\ There(prices[x]) /\ ~ There(prices'[x]) =>
                        \/ workspaces'[products[prices[x].product].workspace] = "gone"
                        \/ x \in late /\ ~ Sold(x)
                   /\ prices[x].status = "archived" => prices'[x].status # "active"
<1>1. CASE UNCHANGED prices
  BY <1>1
<1>2. ASSUME NEW r \in Request, Statement(r) PROVE Goal
  <2>1. CASE /\ ProductRemove(r)
             /\ \A y \in Price : IF y \in PricesOf(request[r].target)
                                 THEN prices'[y].status = "gone" ELSE prices'[y] = prices[y]
    <3>1. request[r].pc = "counted" /\ \A y \in PricesOf(request[r].target) : ~ Sold(y)
      BY <2>1 DEF ProductRemove, At
    <3>2. PricesOf(request[r].target) \subseteq late
      BY <3>1 DEF CountInv
    <3> QED BY <2>1, <3>1, <3>2 DEF There
  <2>2. ASSUME NEW w \in Workspace, WorkspaceRemove(r, w),
               IF There(prices[x]) /\ prices[x].product \in Product /\ products[prices[x].product].workspace = w
               THEN prices'[x].status = "gone" ELSE prices'[x] = prices[x]
        PROVE  Goal
    <3>1. workspaces'[w] = "gone"
      BY <2>2 DEF WorkspaceRemove, TypeInv, TablesSound, TypeOK
    <3> QED BY <2>2, <3>1 DEF There
  <2>3. ASSUME NEW y \in Price, PriceAdd(r, y),
               prices'[x] = IF x = y THEN [product |-> request[r].target, status |-> "active"] ELSE prices[x]
        PROVE  Goal
    BY <2>3 DEF PriceAdd, There
  <2>4. ASSUME NEW y \in Price, x # y => prices'[x] = prices[x], prices'[y].status = "archived"
        PROVE  Goal
    BY <2>4 DEF There
  <2> QED BY <1>1, <1>2, <2>1, <2>2, <2>3, <2>4, PriceChanges
<1> QED BY <1>1, <1>2 DEF Next, Invoice, Sell, Unsell, vars

LEMMA CountInit == Init => CountInv
BY DEF Init, CountInv, Idle

\* A price vanishes with its workspace, or with a product whose prices were
\* counted before it was added, and never while it is sold (remove).
THEOREM PricesStayHolds == Spec => PricesStay
<1>1. TypeInv /\ CountInv /\ [Next]_vars =>
        [\A x \in Price :
           LET w == products[prices[x].product].workspace IN
           /\ There(prices[x]) /\ ~There(prices[x])' =>
                workspaces'[w] = "gone" \/ (x \in late /\ ~ Sold(x))
           /\ prices[x].status = "archived" => prices'[x].status # "active"]_vars
  BY PricesStayStep DEF There
<1> QED BY <1>1, RowsHold, CountInit, CountStep, PTL DEF Spec, PricesStay

-----------------------------------------------------------------------------
(* Who writes *)

\* What a statement leaves alone of a workspace.
LEMMA ContentStays ==
    ASSUME NEW w \in Workspace, workspaces'[w] = workspaces[w],
           \A c \in Customer : customers[c].workspace = w \/ customers'[c].workspace = w => customers'[c] = customers[c],
           \A p \in Product : products[p].workspace = w \/ products'[p].workspace = w => products'[p] = products[p],
           \A x \in Price, p \in Product :
              /\ products[p].workspace = w
              /\ \/ There(prices[x]) /\ prices[x].product = p
                 \/ There(prices'[x]) /\ prices'[x].product = p
              => prices'[x] = prices[x]
    PROVE  Content(w)' = Content(w)
<1>1. {<<c, customers[c]>> : c \in {d \in Customer : customers[d].workspace = w}}'
        = {<<c, customers[c]>> : c \in {d \in Customer : customers[d].workspace = w}}
  OBVIOUS
<1>2. {<<p, products[p]>> : p \in {q \in Product : products[q].workspace = w}}'
        = {<<p, products[p]>> : p \in {q \in Product : products[q].workspace = w}}
  OBVIOUS
<1> DEFINE held == UNION {PricesOf(p) : p \in {q \in Product : products[q].workspace = w}}
<1>3. \A x : x \in held <=> x \in Price /\ There(prices[x])
                            /\ \E p \in Product : products[p].workspace = w /\ prices[x].product = p
  BY DEF PricesOf
<1>4. \A x : x \in held' <=> x \in Price /\ There(prices'[x])
                             /\ \E p \in Product : products'[p].workspace = w /\ prices'[x].product = p
  BY DEF PricesOf, There
<1>5. held' = held /\ \A x \in held : prices'[x] = prices[x]
  <2> HIDE DEF held
  <2>1. \A p \in Product : products'[p].workspace = w <=> products[p].workspace = w
    OBVIOUS
  <2>2. \A x \in held : prices'[x] = prices[x]
    BY <1>3
  <2>3. \A x \in held' : prices'[x] = prices[x]
    BY <1>4, <2>1
  <2>4. \A x \in held : x \in held'
    BY <1>3, <1>4, <2>1, <2>2
  <2>5. \A x \in held' : x \in held
    BY <1>3, <1>4, <2>1, <2>3
  <2> QED BY <2>2, <2>4, <2>5
<1>6. {<<x, prices[x]>> : x \in held}' = {<<x, prices[x]>> : x \in held}
  <2> HIDE DEF held
  <2>1. {<<x, prices'[x]>> : x \in held'} = {<<x, prices[x]>> : x \in held}
    BY <1>5
  <2> QED BY <2>1
<1> QED BY <1>1, <1>2, <1>6 DEF Content

\* The statements that write, and the workspace that each writes in.
LEMMA WritesIn ==
    ASSUME TypeInv, CustomerInv, NEW r \in Request, Statement(r), NEW w \in Workspace, Content(w)' # Content(w)
    PROVE  request'[r] # request[r] /\ request[r].role \in {"admin", "owner"} /\ request[r].org = OrgOf[w]
<1>0. /\ TypeOK /\ RowInv /\ RequestInv /\ request[r] \in RequestState /\ Aims(request[r])
      /\ NoWorkspace \notin Workspace
  BY CatalogAssumption DEF TypeInv, TablesSound, RequestInv
<1> DEFINE Writing == Finishes(r) /\ request[r].pc # "idle" /\ request[r].call \in WritingCalls
<1>1. ASSUME Writing, OrgOf[w] = request[r].org
      PROVE  request'[r] # request[r] /\ request[r].role \in {"admin", "owner"} /\ request[r].org = OrgOf[w]
  <2>1. request'[r] = Idle
    BY <1>0, <1>1 DEF RequestInv, Finishes, Becomes
  <2>2. request[r].role \in {"admin", "owner"}
    BY <1>0, <1>1, WritersManage DEF Aims
  <2> QED BY <1>1, <2>1, <2>2 DEF Idle
<1>2. ASSUME Writing, NEW v \in Workspace, OrgOf[v] = request[r].org, v # w => Content(w)' = Content(w)
      PROVE  request'[r] # request[r] /\ request[r].role \in {"admin", "owner"} /\ request[r].org = OrgOf[w]
  BY <1>1, <1>2
<1>3. ASSUME UNCHANGED <<workspaces, customers, products, prices>> PROVE FALSE
  BY <1>3, ContentStays
<1>4. ASSUME request[r].pc \notin {"idle", "admitted"}
      PROVE  request[r].workspace \in Workspace /\ OrgOf[request[r].workspace] = request[r].org
  BY <1>0, <1>4 DEF Aims
<1> DEFINE own == request[r].workspace
<1>5. ASSUME UNCHANGED <<workspaces, products, prices>>, w # own, NEW c \in Customer,
             \A d \in Customer : d # c => customers'[d] = customers[d],
             customers[c].workspace # w, customers'[c].workspace # w
      PROVE  Content(w)' = Content(w)
  BY <1>5, ContentStays
<1>6. ASSUME NEW stage \in Stage, CustomerInsert(r, stage)
      PROVE  Writing /\ own \in Workspace /\ OrgOf[own] = request[r].org /\ (own # w => Content(w)' = Content(w))
  <2>1. Writing /\ request[r].pc = "drawn"
    BY <1>6 DEF CustomerInsert, At, WritingCalls
  <2>2. request[r].target \in Customer /\ customers[request[r].target] = NoCustomer
    BY <1>0, <2>1, HeldTargets DEF CustomerInv, DrawnInv, Holds
  <2>3. /\ \A d \in Customer : d # request[r].target => customers'[d] = customers[d]
        /\ customers'[request[r].target].workspace = own
    BY <1>0, <1>6, <2>2 DEF CustomerInsert, TypeOK
  <2>4. UNCHANGED <<workspaces, products, prices>>
    BY <1>6 DEF CustomerInsert
  <2> QED BY <1>0, <1>4, <1>5, <2>1, <2>2, <2>3, <2>4 DEF NoCustomer
<1>7. ASSUME NEW stage \in Stage \union {Keep}, CustomerWrite(r, stage)
      PROVE  Writing /\ own \in Workspace /\ OrgOf[own] = request[r].org /\ (own # w => Content(w)' = Content(w))
  <2>1. Writing /\ request[r].pc = "read" /\ customers[request[r].target].workspace = own
    BY <1>7 DEF CustomerWrite, At, WritingCalls, IsIn
  <2>2. UNCHANGED <<workspaces, products, prices>>
    BY <1>7 DEF CustomerWrite
  <2> QED BY <1>4, <1>5, <1>7, <2>1, <2>2, UpdateWrites
<1>8. ASSUME NoteInsert(r)
      PROVE  Writing /\ own \in Workspace /\ OrgOf[own] = request[r].org /\ (own # w => Content(w)' = Content(w))
  <2>1. Writing /\ request[r].pc = "read"
    BY <1>8 DEF NoteInsert, At, WritingCalls
  <2>2. UNCHANGED <<workspaces, products, prices>>
    BY <1>8 DEF NoteInsert
  <2> QED BY <1>4, <1>5, <1>8, <2>1, <2>2, NoteWrites
<1>9. ASSUME NEW c \in Customer, CustomerRemove(r, c)
      PROVE  Writing /\ own \in Workspace /\ OrgOf[own] = request[r].org /\ (own # w => Content(w)' = Content(w))
  <2>1. Writing /\ request[r].pc = "entered" /\ customers[c].workspace = own
    BY <1>9 DEF CustomerRemove, At, WritingCalls, IsIn
  <2>2. /\ \A d \in Customer : d # c => customers'[d] = customers[d]
        /\ customers'[c] = NoCustomer /\ UNCHANGED <<workspaces, products, prices>>
    BY <1>0, <1>9 DEF CustomerRemove, TypeOK
  <2> QED BY <1>0, <1>4, <1>5, <2>1, <2>2 DEF NoCustomer
<1>10. ASSUME NEW p \in Product, ProductCreate(r, p)
      PROVE  Writing /\ own \in Workspace /\ OrgOf[own] = request[r].org /\ (own # w => Content(w)' = Content(w))
  <2>1. Writing /\ request[r].pc = "entered" /\ products[p].workspace \notin Workspace
    BY <1>0, <1>10 DEF ProductCreate, At, WritingCalls, Products, RowInv
  <2>2. /\ \A q \in Product : q # p => products'[q] = products[q]
        /\ products'[p].workspace = own /\ UNCHANGED <<workspaces, customers, prices>>
    BY <1>0, <1>10 DEF ProductCreate, TypeOK
  <2>3. own # w => Content(w)' = Content(w)
    BY <2>1, <2>2, ContentStays
  <2> QED BY <1>4, <2>1, <2>3
<1>11. ASSUME NEW p \in Product, Writing, request[r].pc \notin {"idle", "admitted"}, products[p].workspace = own,
              UNCHANGED <<workspaces, customers>>,
              \A q \in Product : products'[q].workspace = products[q].workspace,
              \A q \in Product : q # p => products'[q] = products[q],
              \A x \in Price : \/ prices'[x] = prices[x]
                               \/ There(prices[x]) /\ prices[x].product = p /\ prices'[x].product = p
                               \/ ~ There(prices[x]) /\ prices'[x].product = p
      PROVE  Writing /\ own \in Workspace /\ OrgOf[own] = request[r].org /\ (own # w => Content(w)' = Content(w))
  <2>1. own # w => Content(w)' = Content(w)
    <3> SUFFICES ASSUME own # w PROVE Content(w)' = Content(w)
      OBVIOUS
    <3>1. \A q \in Product : products[q].workspace = w \/ products'[q].workspace = w => products'[q] = products[q]
      BY <1>11
    <3>2. \A x \in Price, q \in Product :
              /\ products[q].workspace = w
              /\ \/ There(prices[x]) /\ prices[x].product = q
                 \/ There(prices'[x]) /\ prices'[x].product = q
              => prices'[x] = prices[x]
      BY <1>11
    <3> QED BY <1>11, <3>1, <3>2, ContentStays
  <2> QED BY <1>4, <1>11, <2>1
<1>12. CASE ProductRemove(r)
  <2> DEFINE p == request[r].target
  <2>1. Writing /\ request[r].pc = "counted" /\ UNCHANGED <<workspaces, customers>>
    BY <1>12 DEF ProductRemove, At, WritingCalls, Products
  <2>2. p \in Product /\ products[p].workspace = own
    BY <1>0, <2>1 DEF Aims
  <2>3. /\ \A q \in Product : products'[q].workspace = products[q].workspace
        /\ \A q \in Product : q # p => products'[q] = products[q]
    BY <1>0, <1>12, <2>2 DEF ProductRemove, TypeOK, ProductRow
  <2>4. \A x \in Price : \/ prices'[x] = prices[x]
                         \/ There(prices[x]) /\ prices[x].product = p /\ prices'[x].product = p
    BY <1>0, <1>12, GoneAre DEF ProductRemove, PricesOf
  <2> HIDE DEF p, Writing, own
  <2>5. own \in Workspace /\ OrgOf[own] = request[r].org /\ (own # w => Content(w)' = Content(w))
    BY <1>11, <2>1, <2>2, <2>3, <2>4
  <2> QED BY <1>2, <2>1, <2>5
<1>13. CASE ProductSetStatus(r)
  <2> DEFINE p == request[r].target
  <2>1. Writing /\ At(r, "read", ProductTargets) /\ request[r].pc = "read" /\ UNCHANGED <<workspaces, customers, prices>>
    BY <1>13, Kinds DEF ProductSetStatus, At, WritingCalls, Products
  <2>2. p \in Product /\ products[p].workspace = own
    BY <1>0, <2>1, Targets
  <2>3. /\ \A q \in Product : products'[q].workspace = products[q].workspace
        /\ \A q \in Product : q # p => products'[q] = products[q]
    BY <1>0, <1>13, <2>2 DEF ProductSetStatus, TypeOK, ProductRow
  <2> HIDE DEF p, Writing, own
  <2>5. own \in Workspace /\ OrgOf[own] = request[r].org /\ (own # w => Content(w)' = Content(w))
    BY <1>11, <2>1, <2>2, <2>3
  <2> QED BY <1>2, <2>1, <2>5
<1>14. ASSUME NEW x \in Price, PriceAdd(r, x) \/ PriceArchive(r, x)
       PROVE  Writing /\ own \in Workspace /\ OrgOf[own] = request[r].org /\ (own # w => Content(w)' = Content(w))
  <2> DEFINE p == request[r].target
  <2>1. Writing /\ At(r, "read", ProductTargets) /\ request[r].pc = "read" /\ UNCHANGED <<workspaces, customers, products>>
    BY <1>14, Kinds DEF PriceAdd, PriceArchive, At, WritingCalls, Products
  <2>2. p \in Product /\ products[p].workspace = own
    BY <1>0, <2>1, Targets
  <2>3. \A y \in Price : \/ prices'[y] = prices[y]
                         \/ There(prices[y]) /\ prices[y].product = p /\ prices'[y].product = p
                         \/ ~ There(prices[y]) /\ prices'[y].product = p
    <3>1. CASE PriceAdd(r, x)
      BY <1>0, <3>1 DEF PriceAdd, TypeOK, There
    <3>2. CASE PriceArchive(r, x)
      BY <1>0, <3>2 DEF PriceArchive, TypeOK, PriceRow, PricesOf
    <3> QED BY <1>14, <3>1, <3>2
  <2> HIDE DEF p, Writing, own
  <2> QED BY <1>11, <2>1, <2>2, <2>3
<1>15. ASSUME NEW v \in Workspace, WorkspaceCreate(r, v)
       PROVE  Writing /\ OrgOf[v] = request[r].org /\ (v # w => Content(w)' = Content(w))
  <2>1. Writing /\ OrgOf[v] = request[r].org /\ UNCHANGED <<customers, products, prices>>
    BY <1>15 DEF WorkspaceCreate, At, WritingCalls
  <2>2. v # w => workspaces'[w] = workspaces[w]
    BY <1>0, <1>15 DEF WorkspaceCreate, TypeOK
  <2> QED BY <2>1, <2>2, ContentStays
<1>16. ASSUME NEW v \in Workspace, WorkspaceRemove(r, v)
       PROVE  Writing /\ OrgOf[v] = request[r].org /\ (v # w => Content(w)' = Content(w))
  <2>1. Writing /\ OrgOf[v] = request[r].org
    BY <1>16 DEF WorkspaceRemove, At, WritingCalls, Found
  <2>2. SUFFICES ASSUME v # w PROVE Content(w)' = Content(w)
    BY <2>1
  <2>3. workspaces'[w] = workspaces[w]
    BY <1>0, <1>16, <2>2 DEF WorkspaceRemove, TypeOK
  <2>4. \A c \in Customer : customers[c].workspace = w \/ customers'[c].workspace = w => customers'[c] = customers[c]
    BY <1>0, <1>16, <2>2 DEF WorkspaceRemove, NoCustomer
  <2>5. \A p \in Product : products[p].workspace = w \/ products'[p].workspace = w => products'[p] = products[p]
    BY <1>0, <1>16, <2>2 DEF WorkspaceRemove, TypeOK, ProductRow
  <2>6. \A x \in Price, p \in Product :
              /\ products[p].workspace = w
              /\ \/ There(prices[x]) /\ prices[x].product = p
                 \/ There(prices'[x]) /\ prices'[x].product = p
              => prices'[x] = prices[x]
    <3> DEFINE xs == UNION {PricesOf(p) : p \in {q \in Product : products[q].workspace = v}}
    <3>1. prices' = Gone(xs)
      BY <1>16 DEF WorkspaceRemove
    <3>2. \A x \in xs : There(prices[x]) /\ products[prices[x].product].workspace = v
      BY DEF PricesOf
    <3> HIDE DEF xs
    <3> QED BY <1>0, <2>2, <3>1, <3>2, GoneAre
  <2> QED BY <2>3, <2>4, <2>5, <2>6, ContentStays
<1>17. \/ UNCHANGED <<workspaces, customers, products, prices>>
       \/ \E stage \in Stage : CustomerInsert(r, stage)
       \/ \E stage \in Stage \union {Keep} : CustomerWrite(r, stage)
       \/ \E c \in Customer : CustomerRemove(r, c)
       \/ NoteInsert(r)
       \/ \E p \in Product : ProductCreate(r, p)
       \/ ProductRemove(r) \/ ProductSetStatus(r)
       \/ \E x \in Price : PriceAdd(r, x) \/ PriceArchive(r, x)
       \/ \E v \in Workspace : WorkspaceCreate(r, v) \/ WorkspaceRemove(r, v)
  BY DEF Statement, OrgGuard, WorkspaceGuard, CustomerDraw, CustomerRead, ListPage, ProductRead, ProductCount,
         Ends, Tables
<1> HIDE DEF Writing, own
<1> QED BY <1>2, <1>3, <1>6, <1>7, <1>8, <1>9, <1>10, <1>12, <1>13, <1>14, <1>15, <1>16, <1>17

\* What a workspace holds changes by the hand of an admin or owner of its
\* organization alone, whatever ids a request names (OrgGuard, WorkspaceGuard).
THEOREM ManagersWriteHolds == Spec => ManagersWrite
<1>1. TypeInv /\ CustomerInv /\ [Next]_vars =>
        [\A w \in Workspace : Content(w)' # Content(w) =>
           \E r \in Request :
              /\ request'[r] # request[r]
              /\ request[r].role \in {"admin", "owner"} /\ request[r].org = OrgOf[w]]_vars
  <2> SUFFICES ASSUME TypeInv, CustomerInv, [Next]_vars, NEW w \in Workspace, Content(w)' # Content(w)
               PROVE  \E r \in Request :
                        /\ request'[r] # request[r]
                        /\ request[r].role \in {"admin", "owner"} /\ request[r].org = OrgOf[w]
    OBVIOUS
  <2>1. CASE UNCHANGED <<workspaces, customers, products, prices>>
    BY <2>1, ContentStays
  <2>2. CASE \E r \in Request : Statement(r)
    BY <2>2, WritesIn
  <2> QED BY <2>1, <2>2 DEF Next, Invoice, Sell, Unsell, vars
<1> QED BY <1>1, RowsHold, PTL DEF Spec, ManagersWrite

-----------------------------------------------------------------------------
(* Listings *)

LEMMA Ids == \A c \in Customer : c \in Nat /\ c > 0
BY CatalogAssumption DEF Customer

\* ORDER BY id: every row once, and in order.
LEMMA AscendingOrder ==
    ASSUME NEW S \in SUBSET Customer
    PROVE  /\ Cardinality(S) \in Nat
           /\ Ascending(S) \in [1..Cardinality(S) -> S]
           /\ \A i, j \in 1..Cardinality(S) : i < j => Ascending(S)[i] < Ascending(S)[j]
           /\ \A c \in S : \E i \in 1..Cardinality(S) : Ascending(S)[i] = c
<1> DEFINE n == Cardinality(S)
           upTo(c) == {d \in S : d <= c}
           rank == [c \in S |-> Cardinality(upTo(c))]
           f == Ascending(S)
<1>0. \A c \in S : c \in Nat
  BY Ids
<1>1. IsFiniteSet(S) /\ n \in Nat
  <2>1. IsFiniteSet(Customer)
    BY CatalogAssumption, FS_Interval DEF Customer
  <2> QED BY <2>1, FS_Subset, FS_CardinalityType
<1>2. ASSUME NEW c \in S
      PROVE  IsFiniteSet(upTo(c)) /\ Cardinality(upTo(c)) \in 1..n
  <2>1. upTo(c) \in SUBSET S /\ c \in upTo(c)
    BY <1>0
  <2>2. IsFiniteSet(upTo(c)) /\ Cardinality(upTo(c)) <= n
    BY <1>1, <2>1, FS_Subset
  <2>3. Cardinality(upTo(c)) \in Nat /\ Cardinality(upTo(c)) # 0
    BY <2>1, <2>2, FS_CardinalityType, FS_EmptySet
  <2> QED BY <1>1, <2>2, <2>3
<1>3. ASSUME NEW c \in S, NEW e \in S, c < e
      PROVE  Cardinality(upTo(c)) < Cardinality(upTo(e))
  <2>1. upTo(c) \in SUBSET upTo(e) /\ e \in upTo(e) /\ e \notin upTo(c)
    <3>1. c \in Nat /\ e \in Nat
      BY <1>0
    <3>2. \A d \in Nat : d <= c => d <= e
      BY <1>3, <3>1
    <3>3. ~ (e <= c) /\ e <= e
      BY <1>3, <3>1
    <3> QED BY <1>0, <3>2, <3>3
  <2>2. Cardinality(upTo(c)) <= Cardinality(upTo(e)) /\ Cardinality(upTo(c)) # Cardinality(upTo(e))
    BY <1>2, <2>1, FS_Subset
  <2> QED BY <1>1, <1>2, <2>2
<1>4. rank \in Injection(S, 1..n)
  <2>1. rank \in [S -> 1..n]
    BY <1>2
  <2>2. ASSUME NEW c \in S, NEW e \in S, rank[c] = rank[e] PROVE c = e
    <3>1. Cardinality(upTo(c)) = Cardinality(upTo(e))
      BY <2>2
    <3>2. Cardinality(upTo(c)) \in Nat
      BY <1>2
    <3>3. ASSUME c < e PROVE FALSE
      <4>1. Cardinality(upTo(c)) < Cardinality(upTo(e))
        BY <1>3, <3>3
      <4> QED BY <3>1, <3>2, <4>1
    <3>4. ASSUME e < c PROVE FALSE
      <4>1. Cardinality(upTo(e)) < Cardinality(upTo(c))
        BY <1>3, <3>4
      <4> QED BY <3>1, <3>2, <4>1
    <3> QED BY <1>0, <3>3, <3>4
  <2> HIDE DEF rank
  <2> QED BY <2>1, <2>2 DEF Injection, IsInjective
<1>5. \A i \in 1..n : \E c \in S : Cardinality(upTo(c)) = i
  <2>1. IsFiniteSet(1..n) /\ Cardinality(1..n) = n
    BY <1>1, FS_Interval
  <2>2. rank \in Surjection(S, 1..n)
    <3> HIDE DEF rank
    <3> QED BY <1>4, <2>1, FS_Injection
  <2> QED BY <2>2 DEF Surjection
<1>6. ASSUME NEW i \in 1..n PROVE f[i] \in S /\ Cardinality(upTo(f[i])) = i
  <2>1. f[i] = CHOOSE c \in S : Cardinality(upTo(c)) = i
    BY DEF Ascending
  <2> HIDE DEF f, upTo
  <2> QED BY <1>5, <2>1
<1>7. f \in [1..n -> S]
  BY <1>6 DEF Ascending
<1>8. ASSUME NEW i \in 1..n, NEW j \in 1..n, i < j PROVE f[i] < f[j]
  <2>1. f[i] \in S /\ f[j] \in S /\ Cardinality(upTo(f[i])) = i /\ Cardinality(upTo(f[j])) = j
    BY <1>6
  <2> HIDE DEF f, upTo
  <2>2. ~ (f[j] < f[i]) /\ f[i] # f[j]
    BY <1>1, <1>3, <1>8, <2>1
  <2>3. f[i] \in Nat /\ f[j] \in Nat
    BY <1>0, <2>1
  <2> QED BY <2>2, <2>3
<1>9. ASSUME NEW c \in S PROVE \E i \in 1..n : f[i] = c
  <2> DEFINE i == Cardinality(upTo(c))
  <2>1. i \in 1..n
    BY <1>2
  <2>2. f[i] \in S /\ Cardinality(upTo(f[i])) = i
    BY <1>6, <2>1
  <2>3. f[i] = c
    <3> HIDE DEF f
    <3>1. rank[f[i]] = rank[c]
      BY <2>2
    <3> QED BY <1>4, <2>2, <3>1 DEF Injection, IsInjective
  <2> QED BY <2>1, <2>3
<1> QED BY <1>1, <1>7, <1>8, <1>9

\* A page of rows that are in order.
LEMMA PageIs ==
    ASSUME NEW n \in Nat, NEW rows \in [1..n -> Customer]
    PROVE  /\ Page(rows).items \in Seq(Customer)
           /\ Page(rows).more = (n > Limit)
           /\ Len(Page(rows).items) = IF n > Limit THEN Limit ELSE n
           /\ \A i \in 1..Len(Page(rows).items) : Page(rows).items[i] = rows[i]
           /\ n > Limit => Page(rows).next = rows[Limit] /\ Limit \in 1..n
<1>1. rows \in Seq(Customer) /\ Len(rows) = n /\ Limit \in Nat \ {0}
  BY CatalogAssumption
<1>2. CASE n > Limit
  <2>1. /\ SubSeq(rows, 1, Limit) \in Seq(Customer) /\ Len(SubSeq(rows, 1, Limit)) = Limit
        /\ \A i \in 1..Limit : SubSeq(rows, 1, Limit)[i] = rows[i]
    BY <1>1, <1>2, SubSeqProperties
  <2> QED BY <1>1, <1>2, <2>1 DEF Page
<1>3. CASE ~ (n > Limit)
  BY <1>1, <1>3 DEF Page
<1> QED BY <1>2, <1>3

\* In order, and nothing twice.
Rising(s) == \A i, j \in DOMAIN s : i < j => s[i] < s[j]

\* What a client that lists has been given.
ReadInv ==
    /\ reading.state \in {"new", "more", "done"}
    /\ reading.cursor \in Nat
    /\ reading.listed \in Seq(Customer) /\ Rising(reading.listed)
    /\ reading.state = "new" => reading.cursor = 0
    /\ reading.state # "done" => \A i \in DOMAIN reading.listed : reading.listed[i] <= reading.cursor
    /\ reading.state = "more" =>
         /\ reading.workspace \in Workspace
         /\ \A c \in Customer : customers[c].workspace = reading.workspace /\ c <= reading.cursor
              => c \in Range(reading.listed) \union late

LEMMA RangeOfConcat ==
    ASSUME NEW s \in Seq(Customer), NEW t \in Seq(Customer)
    PROVE  /\ \A c \in Range(s) : c \in Range(s \o t)
           /\ \A i \in 1..Len(t) : t[i] \in Range(s \o t)
<1>1. DOMAIN (s \o t) = 1..(Len(s) + Len(t)) /\ DOMAIN s = 1..Len(s)
  BY ConcatProperties
<1>2. ASSUME NEW i \in 1..Len(s) PROVE (s \o t)[i] = s[i] /\ i \in 1..(Len(s) + Len(t))
  BY ConcatProperties
<1>3. ASSUME NEW i \in 1..Len(t) PROVE (s \o t)[Len(s) + i] = t[i] /\ Len(s) + i \in 1..(Len(s) + Len(t))
  BY ConcatProperties
<1> QED BY <1>1, <1>2, <1>3 DEF Range

LEMMA RisingConcat ==
    ASSUME NEW s \in Seq(Customer), NEW t \in Seq(Customer), Rising(s), Rising(t), NEW m \in Nat,
           \A i \in DOMAIN s : s[i] <= m, \A i \in DOMAIN t : t[i] > m
    PROVE  Rising(s \o t)
<1>1. DOMAIN (s \o t) = 1..(Len(s) + Len(t)) /\ DOMAIN s = 1..Len(s) /\ DOMAIN t = 1..Len(t)
      /\ Len(s) \in Nat /\ Len(t) \in Nat
  BY ConcatProperties
<1>2. \A i \in 1..Len(s) : s[i] \in Nat /\ s[i] <= m
  BY <1>1, Ids
<1>3. \A i \in 1..Len(t) : t[i] \in Nat /\ t[i] > m
  BY <1>1, Ids
<1>4. ASSUME NEW i \in 1..(Len(s) + Len(t)), NEW j \in 1..(Len(s) + Len(t)), i < j
      PROVE  (s \o t)[i] < (s \o t)[j]
  <2>1. /\ (s \o t)[i] = IF i <= Len(s) THEN s[i] ELSE t[i - Len(s)]
        /\ (s \o t)[j] = IF j <= Len(s) THEN s[j] ELSE t[j - Len(s)]
    BY ConcatProperties
  <2>2. CASE j <= Len(s)
    BY <1>1, <1>4, <2>1, <2>2 DEF Rising
  <2>3. CASE i <= Len(s) /\ ~ (j <= Len(s))
    <3>1. j - Len(s) \in 1..Len(t)
      BY <1>1, <2>3
    <3>2. s[i] <= m /\ t[j - Len(s)] > m /\ s[i] \in Nat /\ t[j - Len(s)] \in Nat
      BY <1>1, <1>2, <1>3, <2>3, <3>1
    <3> QED BY <2>1, <2>3, <3>2
  <2>4. CASE ~ (i <= Len(s)) /\ ~ (j <= Len(s))
    <3>1. i - Len(s) \in 1..Len(t) /\ j - Len(s) \in 1..Len(t) /\ i - Len(s) < j - Len(s)
      BY <1>1, <1>4, <2>4
    <3> QED BY <1>1, <2>1, <2>4, <3>1 DEF Rising
  <2> QED BY <1>1, <1>4, <2>2, <2>3, <2>4
<1> QED BY <1>1, <1>4 DEF Rising

LEMMA UpToConcat ==
    ASSUME NEW s \in Seq(Customer), NEW t \in Seq(Customer), NEW m,
           \A i \in DOMAIN s : s[i] <= m, \A i \in DOMAIN t : t[i] <= m
    PROVE  \A i \in DOMAIN (s \o t) : (s \o t)[i] <= m
<1>1. DOMAIN (s \o t) = 1..(Len(s) + Len(t)) /\ DOMAIN s = 1..Len(s) /\ DOMAIN t = 1..Len(t)
      /\ Len(s) \in Nat /\ Len(t) \in Nat
  BY ConcatProperties
<1>2. ASSUME NEW i \in 1..(Len(s) + Len(t)) PROVE (s \o t)[i] <= m
  <2>1. (s \o t)[i] = IF i <= Len(s) THEN s[i] ELSE t[i - Len(s)]
    BY ConcatProperties
  <2>2. i <= Len(s) => i \in 1..Len(s)
    BY <1>1
  <2>3. ~ (i <= Len(s)) => i - Len(s) \in 1..Len(t)
    BY <1>1
  <2> QED BY <1>1, <2>1, <2>2, <2>3
<1> QED BY <1>1, <1>2

\* A page that is given out.
LEMMA ListStep ==
    ASSUME TypeInv, ReadInv, NEW r \in Request, ListPage(r)
    PROVE  /\ ReadInv'
           /\ \A c \in Customer :
                 customers[c].workspace = reading'.workspace /\ (reading'.state = "done" \/ c <= reading'.cursor)
                 => c \in Range(reading'.listed) \union late
           /\ Rising(reading'.listed)
<1> DEFINE w == request[r].workspace
           after == {c \in Customer : customers[c].workspace = w /\ c > reading.cursor}
           n == Cardinality(after)
           rows == Ascending(after)
           page == Page(rows)
           listed == reading.listed \o page.items
<1>0. /\ reading.cursor \in Nat /\ reading.listed \in Seq(Customer) /\ Rising(reading.listed)
      /\ \A i \in DOMAIN reading.listed : reading.listed[i] <= reading.cursor
      /\ w \in Workspace
      /\ \A c \in Customer : customers[c].workspace = w /\ c <= reading.cursor => c \in Range(reading.listed) \union late
  <2>1. w \in Workspace
    BY DEF TypeInv, RequestInv, Aims, ListPage, At
  <2>2. CASE reading.state = "new"
    BY <2>1, <2>2 DEF ReadInv, Customer
  <2>3. CASE reading.state = "more" /\ reading.workspace = w
    BY <2>1, <2>3 DEF ReadInv
  <2> QED BY <2>2, <2>3 DEF ListPage
<1>1. /\ reading' = [state |-> IF page.more THEN "more" ELSE "done", workspace |-> w,
                     cursor |-> IF page.more THEN page.next ELSE reading.cursor, listed |-> listed]
      /\ UNCHANGED <<customers, late>>
  BY DEF ListPage, Tables, History
<1>2. /\ n \in Nat /\ rows \in [1..n -> after] /\ rows \in [1..n -> Customer]
      /\ \A i, j \in 1..n : i < j => rows[i] < rows[j]
      /\ \A c \in after : \E i \in 1..n : rows[i] = c
      /\ \A i \in 1..n : rows[i] > reading.cursor /\ rows[i] \in Nat
  <2>1. after \in SUBSET Customer
    OBVIOUS
  <2>2. /\ n \in Nat /\ rows \in [1..n -> after]
        /\ \A i, j \in 1..n : i < j => rows[i] < rows[j]
        /\ \A c \in after : \E i \in 1..n : rows[i] = c
    <3> HIDE DEF after
    <3> QED BY <2>1, AscendingOrder
  <2>3. \A c \in after : c \in Customer /\ c > reading.cursor /\ c \in Nat
    BY DEF Customer
  <2> HIDE DEF after, rows, n
  <2> QED BY <2>2, <2>3
<1> HIDE DEF rows, n
<1>3. /\ page.items \in Seq(Customer) /\ page.more = (n > Limit)
      /\ Len(page.items) = IF n > Limit THEN Limit ELSE n
      /\ \A i \in 1..Len(page.items) : page.items[i] = rows[i]
      /\ n > Limit => page.next = rows[Limit] /\ Limit \in 1..n
  <2> HIDE DEF after
  <2> QED BY <1>2, PageIs
<1> HIDE DEF page
<1>4. DOMAIN page.items = 1..Len(page.items) /\ Len(page.items) \in Nat
      /\ \A i \in DOMAIN page.items : i \in 1..n /\ page.items[i] > reading.cursor /\ page.items[i] \in Nat
  BY <1>2, <1>3, CatalogAssumption
<1>5. Rising(page.items)
  BY <1>2, <1>3, <1>4 DEF Rising
<1>6. listed \in Seq(Customer) /\ Rising(listed)
  BY <1>0, <1>3, <1>4, <1>5, RisingConcat, ConcatProperties
<1>7. ASSUME NEW c \in Customer, customers[c].workspace = w, ~ page.more \/ c <= page.next
      PROVE  c \in Range(listed) \union late
  <2>1. CASE c <= reading.cursor
    BY <1>0, <1>3, <1>7, <2>1, RangeOfConcat
  <2>2. CASE ~ (c <= reading.cursor)
    <3>1. c \in after
      BY <1>0, <1>7, <2>2 DEF Customer
    <3>2. PICK i \in 1..n : rows[i] = c
      BY <1>2, <3>1
    <3>3. i \in 1..Len(page.items)
      <4>1. CASE n > Limit
        <5>1. rows[i] <= rows[Limit] /\ Limit \in 1..n
          BY <1>3, <1>7, <3>2, <4>1
        <5>2. ~ (Limit < i)
          <6>1. rows[i] \in Nat /\ rows[Limit] \in Nat
            BY <1>2, <5>1
          <6>2. Limit < i => rows[Limit] < rows[i]
            BY <1>2, <5>1
          <6> QED BY <5>1, <6>1, <6>2
        <5> QED BY <1>2, <1>3, <4>1, <5>1, <5>2
      <4>2. CASE ~ (n > Limit)
        BY <1>3, <4>2
      <4> QED BY <4>1, <4>2
    <3>4. page.items[i] = c
      BY <1>3, <3>2, <3>3
    <3> QED BY <1>0, <1>3, <3>3, <3>4, RangeOfConcat
  <2> QED BY <2>1, <2>2
<1>8. ASSUME page.more
      PROVE  page.next \in Nat /\ \A i \in DOMAIN listed : listed[i] <= page.next
  <2>1. page.next = rows[Limit] /\ Limit \in 1..n /\ Len(page.items) = Limit
    BY <1>3, <1>8
  <2>2. page.next \in Nat /\ page.next > reading.cursor
    BY <1>2, <2>1
  <2>3. ASSUME NEW i \in DOMAIN page.items PROVE page.items[i] <= page.next
    <3>1. i \in 1..n /\ page.items[i] = rows[i] /\ (i < Limit \/ i = Limit) /\ rows[i] \in Nat
      BY <1>2, <1>3, <1>4, <2>1, <2>3
    <3>2. i < Limit => rows[i] < rows[Limit]
      BY <1>2, <2>1, <3>1
    <3> QED BY <2>1, <2>2, <3>1, <3>2
  <2>4. \A i \in DOMAIN reading.listed : reading.listed[i] <= page.next
    <3>1. ASSUME NEW i \in DOMAIN reading.listed
          PROVE  reading.listed[i] \in Nat /\ reading.listed[i] <= reading.cursor
      <4>1. reading.listed[i] \in Customer
        BY <1>0
      <4> QED BY <1>0, <4>1, Ids
    <3> QED BY <1>0, <2>2, <3>1
  <2>5. \A i \in DOMAIN listed : listed[i] <= page.next
    BY <1>0, <1>3, <2>3, <2>4, UpToConcat
  <2> QED BY <2>2, <2>5
<1> HIDE DEF listed
<1>9. page.more \in BOOLEAN
  BY <1>2, <1>3, CatalogAssumption
<1>10. /\ reading'.state = (IF page.more THEN "more" ELSE "done") /\ reading'.workspace = w
       /\ reading'.cursor = (IF page.more THEN page.next ELSE reading.cursor) /\ reading'.listed = listed
  BY <1>1
<1>11. \A c \in Customer :
          customers[c].workspace = w /\ (~ page.more \/ c <= page.next) => c \in Range(listed) \union late
  BY <1>7
<1> HIDE DEF w
<1>12. ReadInv'
  <2>1. CASE page.more
    <3>1. /\ reading'.state = "more" /\ reading'.workspace = w /\ reading'.cursor = page.next
          /\ reading'.listed = listed
      BY <1>10, <2>1
    <3>2. \A c \in Customer : customers'[c].workspace = reading'.workspace /\ c <= reading'.cursor
              => c \in Range(reading'.listed) \union late'
      BY <1>1, <1>11, <3>1
    <3> QED BY <1>0, <1>6, <1>8, <2>1, <3>1, <3>2 DEF ReadInv, Rising, Range
  <2>2. CASE ~ page.more
    BY <1>0, <1>6, <1>10, <2>2 DEF ReadInv, Rising
  <2> QED BY <1>9, <2>1, <2>2
<1> QED BY <1>6, <1>9, <1>10, <1>11, <1>12

\* Rows that are listed behind the cursor have been given out, or come late.
LEMMA ReadStep == TypeInv /\ CustomerInv /\ ReadInv /\ [Next]_vars => ReadInv'
<1> SUFFICES ASSUME TypeInv, CustomerInv, ReadInv, [Next]_vars PROVE ReadInv'
  OBVIOUS
<1>0. TypeOK /\ RequestInv /\ NoWorkspace \notin Workspace
  BY CatalogAssumption DEF TypeInv, TablesSound
<1>1. ASSUME UNCHANGED reading, late \subseteq late',
             \A c \in Customer : \/ customers'[c].workspace = customers[c].workspace
                                 \/ customers'[c].workspace = NoWorkspace
                                 \/ c <= reading.cursor => c \in late'
      PROVE  ReadInv'
  BY <1>0, <1>1 DEF ReadInv, Rising, Range
<1>2. ASSUME NEW r \in Request, Statement(r) PROVE ReadInv'
  <2>0. late \subseteq late'
    BY <1>2, Counting
  <2>1. CASE ListPage(r)
    BY <2>1, ListStep
  <2>2. CASE QuietStatement(r) /\ ~ ListPage(r)
    <3>1. UNCHANGED reading
      BY <2>2 DEF QuietStatement, OrgGuard, WorkspaceGuard, WorkspaceCreate, WorkspaceRemove, CustomerRemove,
           ProductCreate, ProductRead, ProductCount, ProductRemove, ProductSetStatus, PriceAdd, PriceArchive, Ends
    <3>2. \A c \in Customer : customers'[c] \in {customers[c], NoCustomer}
      BY <2>2, QuietStatements
    <3> QED BY <1>1, <2>0, <3>1, <3>2 DEF NoCustomer
  <2>3. ASSUME NEW id \in Customer, CustomerDraw(r, id) PROVE ReadInv'
    BY <1>1, <2>0, <2>3 DEF CustomerDraw
  <2>4. ASSUME NEW stage \in Stage, CustomerInsert(r, stage) PROVE ReadInv'
    <3>1. UNCHANGED reading /\ (request[r].target <= reading.cursor => request[r].target \in late')
      BY <2>4 DEF CustomerInsert
    <3>2. \A c \in Customer : c # request[r].target => customers'[c] = customers[c]
      BY <1>0, <2>4 DEF CustomerInsert, TypeOK
    <3> QED BY <1>1, <2>0, <3>1, <3>2
  <2>5. ASSUME NEW stage \in Stage \union {Keep}, CustomerWrite(r, stage) PROVE ReadInv'
    <3>1. UNCHANGED reading
      BY <2>5 DEF CustomerWrite
    <3> QED BY <1>1, <2>0, <2>5, <3>1, UpdateWrites
  <2>6. ASSUME NEW c \in Customer, CustomerRead(r, c) PROVE ReadInv'
    BY <1>1, <2>0, <2>6 DEF CustomerRead, Tables
  <2>7. CASE NoteInsert(r)
    <3>1. UNCHANGED reading
      BY <2>7 DEF NoteInsert
    <3> QED BY <1>1, <2>0, <2>7, <3>1, NoteWrites
  <2> QED BY <1>2, <2>1, <2>2, <2>3, <2>4, <2>5, <2>6, <2>7, StatementKinds
<1>3. CASE UNCHANGED <<customers, reading, late>>
  BY <1>1, <1>3
<1> QED BY <1>2, <1>3 DEF Next, Invoice, Sell, Unsell, History, vars

LEMMA ReadInit == Init => ReadInv
BY DEF Init, ReadInv, Rising

\* No other statement lists.
LEMMA OnlyListing ==
    ASSUME NEW r \in Request, Statement(r), reading' # reading
    PROVE  ListPage(r)
BY DEF Statement, OrgGuard, WorkspaceGuard, WorkspaceCreate, WorkspaceRemove, CustomerDraw, CustomerInsert,
       CustomerWrite, CustomerRead, CustomerRemove, NoteInsert, ProductCreate, ProductRead, ProductCount,
       ProductRemove, ProductSetStatus, PriceAdd, PriceArchive, Ends

\* Who follows the cursors is given every row once, and in order (toPage,
\* list), whatever is inserted, updated and removed between two pages.
THEOREM PagesCompleteHolds == Spec => PagesComplete
<1>1. TypeInv /\ ReadInv /\ [Next]_vars =>
        [reading' # reading =>
           /\ \A c \in Customer :
                 customers[c].workspace = reading'.workspace /\ (reading'.state = "done" \/ c <= reading'.cursor)
                 => c \in Range(reading'.listed) \union late
           /\ \A i, j \in DOMAIN reading'.listed : i < j => reading'.listed[i] < reading'.listed[j]]_vars
  <2> SUFFICES ASSUME TypeInv, ReadInv, [Next]_vars, reading' # reading
               PROVE  /\ \A c \in Customer :
                            customers[c].workspace = reading'.workspace
                            /\ (reading'.state = "done" \/ c <= reading'.cursor)
                            => c \in Range(reading'.listed) \union late
                      /\ Rising(reading'.listed)
    BY DEF Rising
  <2>1. PICK r \in Request : ListPage(r)
    BY OnlyListing DEF Next, Invoice, Sell, Unsell, vars
  <2> QED BY <2>1, ListStep
<1> QED BY <1>1, RowsHold, ReadInit, ReadStep, PTL DEF Spec, PagesComplete
=============================================================================
