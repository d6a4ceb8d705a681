------------------------------ MODULE Catalog -------------------------------
(* What the members of organizations keep in their workspaces: customers and *)
(* their notes, products and their prices, and the workspaces themselves,    *)
(* as requests change them after the two guards (customers.service.ts,       *)
(* products.service.ts, orgs.service.ts, org.guard.ts, workspace.guard.ts,   *)
(* pagination.ts).  One action is one guard or one statement.  The role that *)
(* OrgGuard reads may be any: roles change without regard to what is done    *)
(* here.  Texts, and the indexes on addresses and SKUs, are left out.        *)
EXTENDS Access, Sequences, FiniteSets, Functions

CONSTANTS Organization, Workspace, OrgOf,
          First,        \* the workspaces that came with their organizations
          Product, Price, Request,
          Stage,        \* CUSTOMER_STAGES, of which "active" is one
          Keep,         \* a stage that an update does not mention
          NoWorkspace, NoProduct, NoTarget,
          Calls,        \* bounds: handlers that are called together, in which organizations,
                        \* on how many customers
          Caller,       \* bound: the roles of callers
          Limit,        \* the page limit of a listing
          MaxCustomers, \* bound: ids of customers
          MaxNotes      \* bound: notes of one customer

ASSUME CatalogAssumption ==
    /\ OrgOf \in [Workspace -> Organization] /\ First \subseteq Workspace
    /\ NoWorkspace \notin Workspace /\ NoProduct \notin Product
    /\ "active" \in Stage /\ Keep \notin Stage
    /\ Caller \subseteq Role
    /\ Calls \subseteq [handlers : SUBSET ({"customers", "products", "workspaces"} \X STRING),
                        organizations : SUBSET Organization, customers : 0..MaxCustomers]
    /\ Limit \in Nat \ {0} /\ MaxCustomers \in Nat /\ MaxNotes \in Nat

VARIABLES workspaces, \* the tables
          customers, products, prices,
          invoiced,   \* the customer and the workspace of every invoice
          sold,       \* the price and the workspace of every subscription
          drawn,      \* UUIDv7 ids given out to customers, which are numbered in order
          request,    \* what each request in progress was admitted to and has read
          reading,    \* a client that lists customers page by page
          calls,      \* one of Calls
          raced,      \* history: customers that two updates have read at once
          late        \* history: customers and prices that came when it was too late
vars == <<workspaces, customers, products, prices, invoiced, sold, drawn,
          request, reading, calls, raced, late>>

Customer == 1..MaxCustomers
(* The rows of the tables                                                   *)
CustomerRow == [workspace : Workspace \union {NoWorkspace}, stage : Stage \union {Keep},
                converted : Nat, notes : 0..MaxNotes]
NoCustomer == [workspace |-> NoWorkspace, stage |-> Keep, converted |-> 0, notes |-> 0]
ProductRow == [workspace : Workspace \union {NoWorkspace}, status : {"none", "active", "archived", "gone"}]
PriceRow == [product : Product \union {NoProduct}, status : {"none", "active", "archived", "gone"}]

Controller == [customers |-> CustomersController, products |-> ProductsController,
               workspaces |-> WorkspacesController]
RouteOf(call) == Controller[call[1]][call[2]]

Idle == [pc |-> "idle", call |-> <<>>, role |-> "none", org |-> NoWorkspace,
         workspace |-> NoWorkspace, target |-> NoTarget, copy |-> NoCustomer]

Init ==
    /\ workspaces = [w \in Workspace |-> IF w \in First THEN "there" ELSE "none"]
    /\ customers = [c \in Customer |-> NoCustomer]
    /\ products = [p \in Product |-> [workspace |-> NoWorkspace, status |-> "none"]]
    /\ prices = [x \in Price |-> [product |-> NoProduct, status |-> "none"]]
    /\ invoiced = {} /\ sold = {} /\ drawn = {}
    /\ request = [r \in Request |-> Idle]
    /\ reading = [state |-> "new", workspace |-> NoWorkspace, cursor |-> 0, listed |-> <<>>]
    /\ calls \in Calls
    /\ raced = {} /\ late = {}

Tables == <<workspaces, customers, products, prices, invoiced, sold, drawn>>
History == <<calls, raced, late>>

At(r, pc, names) == request[r].pc = pc /\ request[r].call \in names
Becomes(r, next) == request' = [request EXCEPT ![r] = next]
Finishes(r) == Becomes(r, Idle)

CustomerCalls == {"customers"} \X DOMAIN CustomersController
ProductCalls == {"products"} \X DOMAIN ProductsController
Customers(name) == {<<"customers", name>>}
Products(names) == {"products"} \X names
Workspaces(name) == {<<"workspaces", name>>}

(* A row that has not been deleted                                          *)
There(row) == row.status \in {"active", "archived"}
PricesOf(p) == {x \in Price : prices[x].product = p /\ There(prices[x])}
(* Rows that restrict a customer or a price, whatever their workspace        *)
Invoiced(c) == \E v \in Workspace : <<c, v>> \in invoiced
Sold(x) == \E v \in Workspace : <<x, v>> \in sold

-----------------------------------------------------------------------------
(* The guards                                                                *)
OrgGuard(r, call, org, role) ==
    /\ request[r].pc = "idle" /\ call \in calls.handlers /\ org \in calls.organizations
    /\ Admits(role, RouteOf(call))
    /\ Becomes(r, [Idle EXCEPT !.pc = "admitted", !.call = call, !.role = role, !.org = org])
    /\ UNCHANGED <<Tables, reading, History>>

\* Mutation of Found: a workspace is looked up by its id alone.
FoundAnywhere(org, w) == workspaces[w] = "there"

(* findWorkspace                                                             *)
Found(org, w) == workspaces[w] = "there" /\ OrgOf[w] = org

WorkspaceGuard(r, w) ==
    /\ At(r, "admitted", CustomerCalls \union ProductCalls)
    /\ Found(request[r].org, w)
    /\ Becomes(r, [request[r] EXCEPT !.pc = "entered", !.workspace = w])
    /\ UNCHANGED <<Tables, reading, History>>

(* A guard, a missing row, a conflict or a foreign key ends the request with *)
(* an error, or its process dies: what it has written stays.                 *)
Ends(r) ==
    /\ request[r].pc # "idle"
    /\ Finishes(r)
    /\ UNCHANGED <<Tables, reading, History>>

-----------------------------------------------------------------------------
(* Customers.  An id is drawn in the application, before the row is inserted, *)
(* and one process may draw one below what another has drawn.                 *)
CustomerDraw(r, id) ==
    /\ At(r, "entered", Customers("create"))
    /\ id <= calls.customers /\ id \notin drawn /\ drawn' = drawn \union {id}
    /\ Becomes(r, [request[r] EXCEPT !.pc = "drawn", !.target = id])
    /\ UNCHANGED <<workspaces, customers, products, prices, invoiced, sold, reading, History>>

CustomerInsert(r, stage) ==
    LET id == request[r].target IN
    /\ At(r, "drawn", Customers("create"))
    /\ workspaces[request[r].workspace] = "there"
    /\ customers' = [customers EXCEPT ![id] =
                       [workspace |-> request[r].workspace, stage |-> stage,
                        converted |-> IF stage = "active" THEN 1 ELSE 0, notes |-> 0]]
    /\ late' = IF id <= reading.cursor THEN late \union {id} ELSE late
    /\ Finishes(r)
    /\ UNCHANGED <<workspaces, products, prices, invoiced, sold, drawn, reading, calls, raced>>

(* The row of an id, filtered by the workspace                               *)
IsIn(row, w) == row.workspace = w

CustomerRead(r, c) ==
    /\ At(r, "entered", Customers("update") \union Customers("addNote"))
    /\ IsIn(customers[c], request[r].workspace)
    /\ Becomes(r, [request[r] EXCEPT !.pc = "read", !.target = c, !.copy = customers[c]])
    /\ raced' = IF /\ request[r].call[2] = "update"
                   /\ \E q \in Request : At(q, "read", Customers("update")) /\ request[q].target = c
                THEN raced \union {c} ELSE raced
    /\ UNCHANGED <<Tables, reading, calls, late>>

\* Mutation of Stamps: also somebody who comes back.
StampsAgain(stage, existing) == stage = "active" /\ existing.stage # "active"

(* Stamped the first time only                                               *)
Stamps(stage, existing) ==
    stage = "active" /\ existing.stage # "active" /\ existing.converted = 0

CustomerWrite(r, stage) ==
    LET c == request[r].target IN
    /\ At(r, "read", Customers("update"))
    /\ IsIn(customers[c], request[r].workspace)
    /\ customers' = [customers EXCEPT
                       ![c].stage = IF stage = Keep THEN @ ELSE stage,
                       ![c].converted = IF Stamps(stage, request[r].copy) THEN @ + 1 ELSE @]
    /\ Finishes(r)
    /\ UNCHANGED <<workspaces, products, prices, invoiced, sold, drawn, reading, History>>

NoteInsert(r) ==
    LET c == request[r].target IN
    /\ At(r, "read", Customers("addNote"))
    /\ customers[c] # NoCustomer /\ customers[c].notes < MaxNotes
    /\ customers' = [customers EXCEPT ![c].notes = @ + 1]
    /\ Finishes(r)
    /\ UNCHANGED <<workspaces, products, prices, invoiced, sold, drawn, reading, History>>

(* An invoice restricts its customer, subscriptions go with theirs (Unsell).  *)
CustomerRemove(r, c) ==
    /\ At(r, "entered", Customers("remove"))
    /\ IsIn(customers[c], request[r].workspace) /\ ~ Invoiced(c)
    /\ customers' = [customers EXCEPT ![c] = NoCustomer]
    /\ Finishes(r)
    /\ UNCHANGED <<workspaces, products, prices, invoiced, sold, drawn, reading, History>>

\* Mutation of Page: the cursor is the row that says that there are more.
PageBeyond(rows) ==
    [items |-> IF Len(rows) > Limit THEN SubSeq(rows, 1, Limit) ELSE rows,
     more |-> Len(rows) > Limit,
     next |-> IF Len(rows) > Limit THEN rows[Limit + 1] ELSE 0]

(* toPage, of one row more than the limit                                    *)
Page(rows) ==
    [items |-> IF Len(rows) > Limit THEN SubSeq(rows, 1, Limit) ELSE rows,
     more |-> Len(rows) > Limit,
     next |-> IF Len(rows) > Limit THEN rows[Limit] ELSE 0]

(* ORDER BY id: the i-th of these rows is the one with i rows up to it.       *)
Ascending(ids) ==
    [i \in 1..Cardinality(ids) |-> CHOOSE c \in ids : Cardinality({d \in ids : d <= c}) = i]

ListPage(r) ==
    LET w == request[r].workspace
        after == {c \in Customer : customers[c].workspace = w /\ c > reading.cursor}
        page == Page(Ascending(after))
    IN
    /\ At(r, "entered", Customers("list"))
    /\ reading.state = "new" \/ (reading.state = "more" /\ reading.workspace = w)
    /\ reading' = [state |-> IF page.more THEN "more" ELSE "done", workspace |-> w,
                   cursor |-> IF page.more THEN page.next ELSE reading.cursor,
                   listed |-> reading.listed \o page.items]
    /\ Finishes(r)
    /\ UNCHANGED <<Tables, History>>

-----------------------------------------------------------------------------
(* Products and prices                                                       *)
ProductCreate(r, p) ==
    /\ At(r, "entered", Products({"create"}))
    /\ products[p].status = "none" /\ workspaces[request[r].workspace] = "there"
    /\ products' = [products EXCEPT ![p] = [workspace |-> request[r].workspace, status |-> "active"]]
    /\ Finishes(r)
    /\ UNCHANGED <<workspaces, customers, prices, invoiced, sold, drawn, reading, History>>

ProductRead(r, p) ==
    /\ At(r, "entered", Products({"remove", "archive", "unarchive", "addPrice", "archivePrice"}))
    /\ IsIn(products[p], request[r].workspace) /\ There(products[p])
    /\ Becomes(r, [request[r] EXCEPT !.pc = "read", !.target = p])
    /\ UNCHANGED <<Tables, reading, History>>

\* Mutation of IsFree: prices that are archived do not count.
IsFreeOfActive(p) == \A x \in PricesOf(p) : prices[x].status = "archived"

(* No price, archived or not                                                 *)
IsFree(p) == PricesOf(p) = {}

ProductCount(r) ==
    /\ At(r, "read", Products({"remove"}))
    /\ IsFree(request[r].target)
    /\ Becomes(r, [request[r] EXCEPT !.pc = "counted"])
    /\ UNCHANGED <<Tables, reading, History>>

(* A deletion that cascades to these prices                                  *)
Gone(xs) == [x \in Price |-> IF x \in xs THEN [prices[x] EXCEPT !.status = "gone"] ELSE prices[x]]

(* The prices go with the product; a subscription restricts its price.       *)
ProductRemove(r) ==
    LET p == request[r].target IN
    /\ At(r, "counted", Products({"remove"}))
    /\ There(products[p]) /\ \A x \in PricesOf(p) : ~ Sold(x)
    /\ products' = [products EXCEPT ![p].status = "gone"]
    /\ prices' = Gone(PricesOf(p))
    /\ Finishes(r)
    /\ UNCHANGED <<workspaces, customers, invoiced, sold, drawn, reading, History>>

ProductSetStatus(r) ==
    LET p == request[r].target IN
    /\ At(r, "read", Products({"archive", "unarchive"}))
    /\ There(products[p])
    /\ products' = [products EXCEPT ![p].status =
                      IF request[r].call[2] = "archive" THEN "archived" ELSE "active"]
    /\ Finishes(r)
    /\ UNCHANGED <<workspaces, customers, prices, invoiced, sold, drawn, reading, History>>

PriceAdd(r, x) ==
    LET p == request[r].target IN
    /\ At(r, "read", Products({"addPrice"}))
    /\ There(products[p]) /\ prices[x].status = "none"
    /\ prices' = [prices EXCEPT ![x] = [product |-> p, status |-> "active"]]
    /\ late' = IF \E q \in Request : At(q, "counted", Products({"remove"})) /\ request[q].target = p
               THEN late \union {x} ELSE late
    /\ Finishes(r)
    /\ UNCHANGED <<workspaces, customers, products, invoiced, sold, drawn, reading, calls, raced>>

PriceArchive(r, x) ==
    /\ At(r, "read", Products({"archivePrice"}))
    /\ x \in PricesOf(request[r].target)
    /\ prices' = [prices EXCEPT ![x].status = "archived"]
    /\ Finishes(r)
    /\ UNCHANGED <<workspaces, customers, products, invoiced, sold, drawn, reading, History>>

-----------------------------------------------------------------------------
(* Workspaces, by OrgGuard alone; everything in one goes with it.            *)
WorkspaceCreate(r, w) ==
    /\ At(r, "admitted", Workspaces("create"))
    /\ workspaces[w] = "none" /\ OrgOf[w] = request[r].org
    /\ workspaces' = [workspaces EXCEPT ![w] = "there"]
    /\ Finishes(r)
    /\ UNCHANGED <<customers, products, prices, invoiced, sold, drawn, reading, History>>

(* What carries another workspace                                            *)
Elsewhere(rows, w) == {row \in rows : row[2] # w}

(* The cascade takes whatever carries the workspace first, invoices and       *)
(* subscriptions too; then the rows that are left restrict what they point at.*)
WorkspaceRemove(r, w) ==
    LET leaves == UNION {PricesOf(p) : p \in {q \in Product : products[q].workspace = w}} IN
    /\ At(r, "admitted", Workspaces("remove"))
    /\ Found(request[r].org, w)
    /\ sold' = Elsewhere(sold, w) /\ \A row \in sold' : row[1] \notin leaves
    /\ invoiced' = Elsewhere(invoiced, w) /\ \A row \in invoiced' : customers[row[1]].workspace # w
    /\ workspaces' = [workspaces EXCEPT ![w] = "gone"]
    /\ customers' = [c \in Customer |-> IF customers[c].workspace = w THEN NoCustomer ELSE customers[c]]
    /\ products' = [p \in Product |-> IF products[p].workspace = w
                                      THEN [products[p] EXCEPT !.status = "gone"] ELSE products[p]]
    /\ prices' = Gone(leaves)
    /\ Finishes(r)
    /\ UNCHANGED <<drawn, reading, History>>

-----------------------------------------------------------------------------
(* Invoices and subscriptions, as their services write them: in a workspace,  *)
(* of a customer or a price that a read has found there.                      *)
Invoice(c, w) ==
    /\ <<"customers", "remove">> \in calls.handlers
    /\ IsIn(customers[c], w) /\ workspaces[w] = "there"
    /\ invoiced' = invoiced \union {<<c, w>>}
    /\ UNCHANGED <<workspaces, customers, products, prices, sold, drawn, request, reading, History>>

\* Mutation of PriceIn: a price is looked up by its id alone.
PriceAnywhere(x, w) == There(prices[x])

(* priceIn: a price is reached through its product.                          *)
PriceIn(x, w) == There(prices[x]) /\ IsIn(products[prices[x].product], w)

Sell(x, w) ==
    /\ PriceIn(x, w) /\ workspaces[w] = "there"
    /\ sold' = sold \union {<<x, w>>}
    /\ UNCHANGED <<workspaces, customers, products, prices, invoiced, drawn, request, reading, History>>

(* The last subscription to a price goes with its customer.                  *)
Unsell(x, w) ==
    /\ <<x, w>> \in sold /\ sold' = sold \ {<<x, w>>}
    /\ UNCHANGED <<workspaces, customers, products, prices, invoiced, drawn, request, reading, History>>

Statement(r) ==
    \/ \E call \in calls.handlers, org \in Organization, role \in Caller : OrgGuard(r, call, org, role)
    \/ \E w \in Workspace : WorkspaceGuard(r, w) \/ WorkspaceCreate(r, w) \/ WorkspaceRemove(r, w)
    \/ \E id \in Customer : CustomerDraw(r, id)
    \/ \E stage \in Stage : CustomerInsert(r, stage)
    \/ \E stage \in Stage \union {Keep} : CustomerWrite(r, stage)
    \/ \E c \in Customer : CustomerRead(r, c) \/ CustomerRemove(r, c)
    \/ NoteInsert(r)
    \/ ListPage(r)
    \/ \E p \in Product : ProductCreate(r, p) \/ ProductRead(r, p)
    \/ ProductCount(r)
    \/ ProductRemove(r)
    \/ ProductSetStatus(r)
    \/ \E x \in Price : PriceAdd(r, x) \/ PriceArchive(r, x)
    \/ Ends(r)

Next ==
    \/ \E r \in Request : Statement(r)
    \/ \E c \in Customer, w \in Workspace : Invoice(c, w)
    \/ \E x \in Price, w \in Workspace : Sell(x, w) \/ Unsell(x, w)

Spec == Init /\ [][Next]_vars

-----------------------------------------------------------------------------
TypeOK ==
    /\ workspaces \in [Workspace -> {"none", "there", "gone"}]
    /\ customers \in [Customer -> CustomerRow] /\ drawn \subseteq Customer
    /\ products \in [Product -> ProductRow] /\ prices \in [Price -> PriceRow]
    /\ invoiced \subseteq Customer \X Workspace /\ sold \subseteq Price \X Workspace

(* Every value is in its domain, and no row is left of a workspace that has  *)
(* been removed.  What restricts a customer or a price carries the workspace *)
(* of that customer or of that price's product ("Both sides are re-checked   *)
(* against this workspace", subscriptions.service.ts): so a workspace goes   *)
(* with all its invoices and subscriptions and nobody else's row refuses it, *)
(* and otherwise nothing that has been invoiced or sold is ever erased.      *)
TablesSound ==
    /\ TypeOK
    /\ \A c \in Customer : customers[c] # NoCustomer => workspaces[customers[c].workspace] = "there"
    /\ \A p \in Product : There(products[p]) => workspaces[products[p].workspace] = "there"
    /\ \A x \in Price : There(prices[x]) => There(products[prices[x].product])
    /\ \A c \in Customer, w \in Workspace : <<c, w>> \in invoiced => customers[c].workspace = w
    /\ \A x \in Price, w \in Workspace :
         <<x, w>> \in sold => There(prices[x]) /\ products[prices[x].product].workspace = w

(* What a workspace holds                                                    *)
Content(w) ==
    [state |-> workspaces[w],
     customers |-> {<<c, customers[c]>> : c \in {d \in Customer : customers[d].workspace = w}},
     products |-> {<<p, products[p]>> : p \in {q \in Product : products[q].workspace = w}},
     prices |-> {<<x, prices[x]>> : x \in UNION {PricesOf(p) : p \in {q \in Product : products[q].workspace = w}}}]

(* What a workspace holds changes by nobody's hand but that of a caller whom *)
(* OrgGuard found an admin or an owner of its own organization, whatever ids *)
(* the request names ("the session identifies the caller, OrgGuard admits    *)
(* them to the organization, and only then does WorkspaceGuard prove the     *)
(* workspace is inside it", customers.controller.ts).                        *)
ManagersWrite ==
    [][\A w \in Workspace : Content(w)' # Content(w) =>
         \E r \in Request :
            /\ request'[r] # request[r]
            /\ request[r].role \in {"admin", "owner"} /\ request[r].org = OrgOf[w]]_vars

(* Who is active has been converted, and once ("Stamped the first time this  *)
(* record reaches active, and never again", schema/customers.ts), unless two *)
(* updates have read the customer before either was written.                 *)
ConvertedOnce ==
    \A c \in Customer :
        /\ customers[c].stage = "active" => customers[c].converted > 0
        /\ customers[c].converted > 1 => c \in raced

(* A price vanishes only with its workspace, or with a product whose prices  *)
(* were counted before it was added, and never while a subscription has it   *)
(* ("a subscription can never point at a row that vanished",                 *)
(* schema/products.ts).  An archived price is not offered again.             *)
PricesStay ==
    [][\A x \in Price :
         LET w == products[prices[x].product].workspace IN
         /\ There(prices[x]) /\ ~There(prices[x])' =>
              workspaces'[w] = "gone" \/ (x \in late /\ ~ Sold(x))
         /\ prices[x].status = "archived" => prices'[x].status # "active"]_vars

(* A client that follows the cursors is given every row once and in order:   *)
(* at every page, what its workspace holds up to the cursor, and in the end  *)
(* all of it, has been listed, except what was inserted behind the cursor    *)
(* under an id that was drawn before, or by another process (ids.ts).        *)
PagesComplete ==
    [][reading' # reading =>
         /\ \A c \in Customer :
               customers[c].workspace = reading'.workspace /\ (reading'.state = "done" \/ c <= reading'.cursor)
               => c \in Range(reading'.listed) \union late
         /\ \A i, j \in DOMAIN reading'.listed : i < j => reading'.listed[i] < reading'.listed[j]]_vars
=============================================================================
