-------------------------------- MODULE Store --------------------------------
(***************************************************************************)
(* The PostgreSQL database as FinCart uses it: the tables products, orders *)
(* and order_items, row locks, and the transactions that WithinTransaction *)
(* (internal/database/transaction.go) opens at the default isolation level *)
(* READ COMMITTED.                                                         *)
(*                                                                         *)
(* Each table has two versions.  products, orders and items hold the       *)
(* committed rows, which every transaction reads.  productsW, ordersW and  *)
(* itemsW hold the newest version of each row, written by the transaction  *)
(* that holds the row's lock and seen by that transaction alone until it   *)
(* commits.  A row nobody has locked has one version.                      *)
(*                                                                         *)
(* A request is one call of a service method; it runs one transaction, and *)
(* its local variables are the session variables below.                    *)
(***************************************************************************)
EXTENDS Rows

CONSTANTS
    Requests,       \* concurrent callers, each with one connection
    Enabled,        \* service methods the clients of this instance call
    None            \* no user, no lock owner

VARIABLES
    products, orders, items,        \* committed tables
    productsW, ordersW, itemsW,     \* newest row versions
    productLock, orderLock,         \* owner of each row's lock
    nextProduct, nextOrder,         \* sequences behind BIGSERIAL ids
    op, pc,                         \* method and next statement of a request
    user, target, want,             \* its arguments
    seen, current, lines            \* what it has read

tables  == <<products, orders, items>>
working == <<productsW, ordersW, itemsW>>
locks   == <<productLock, orderLock>>
ids     == <<nextProduct, nextOrder>>
session == <<op, pc, user, target, want, seen, current, lines>>
database == <<tables, working, locks, ids>>

ASSUME NullAssumption ==
    /\ None \notin Requests
    /\ None \notin Users

-----------------------------------------------------------------------------
(* Requests.                                                               *)

Methods == {"CreateOrder", "CancelOrder", "PayOrder", "UpdateOrderStatus",
            "GetOrder", "AddItem", "UpdateItem", "DeleteItem", "Checkout",
            "GetCart", "CreateProduct", "UpdateProduct", "DeleteProduct"}

\* The statement a request executes next.
Labels == {"idle", "order", "snapshot", "draft", "create", "product", "remove",
           "items", "lock", "insert", "lines", "price", "take", "submit",
           "restock", "charge", "mark", "recalculate", "references", "commit"}

StoreInit ==
    /\ products = InitProducts
    /\ orders = [o \in OrderIDs |-> NoRow]
    /\ items = [o \in OrderIDs |-> NoLines]
    /\ productsW = products /\ ordersW = orders /\ itemsW = items
    /\ productLock = [p \in ProductIDs |-> None]
    /\ orderLock = [o \in OrderIDs |-> None]
    /\ nextProduct \in 1..(MaxProducts + 1) /\ IsNextId(nextProduct)
    /\ nextOrder = 1
    /\ op = [r \in Requests |-> "none"]
    /\ pc = [r \in Requests |-> "idle"]
    /\ user = [r \in Requests |-> None]
    /\ target = [r \in Requests |-> NoOrder]
    /\ want = [r \in Requests |-> Nothing]
    /\ seen = [r \in Requests |-> NoProduct]
    /\ current = [r \in Requests |-> NoRow]
    /\ lines = [r \in Requests |-> NoLines]

\* At request r's statement l of method m.
At(r, m, l) == op[r] = m /\ pc[r] = l

Goto(r, l) == pc' = [pc EXCEPT ![r] = l]

\* WithinTransaction opens a transaction for a call of m by user u, on order
\* o, for the quantities w; its first statement is l.
Begin(r, m, u, o, w, l) ==
    /\ pc[r] = "idle"
    /\ m \in Enabled
    /\ op' = [op EXCEPT ![r] = m]
    /\ Goto(r, l)
    /\ user' = [user EXCEPT ![r] = u]
    /\ target' = [target EXCEPT ![r] = o]
    /\ want' = [want EXCEPT ![r] = w]
    /\ UNCHANGED <<database, seen, current, lines>>

\* The method returns and its local variables are gone.
Return(r) ==
    /\ op' = [op EXCEPT ![r] = "none"]
    /\ Goto(r, "idle")
    /\ user' = [user EXCEPT ![r] = None]
    /\ target' = [target EXCEPT ![r] = NoOrder]
    /\ want' = [want EXCEPT ![r] = Nothing]
    /\ seen' = [seen EXCEPT ![r] = NoProduct]
    /\ current' = [current EXCEPT ![r] = NoRow]
    /\ lines' = [lines EXCEPT ![r] = NoLines]

\* Fault: the connection goes back to the pool with its product locks held.
ReleaseLocks_Leak(r) ==
    /\ UNCHANGED productLock
    /\ orderLock' = [o \in OrderIDs |->
                         IF orderLock[o] = r THEN None ELSE orderLock[o]]

ReleaseLocks(r) ==
    /\ productLock' = [p \in ProductIDs |->
                         IF productLock[p] = r THEN None ELSE productLock[p]]
    /\ orderLock' = [o \in OrderIDs |->
                         IF orderLock[o] = r THEN None ELSE orderLock[o]]

\* The rows r has locked become, in one step, the committed ones.
Commit(r) ==
    /\ pc[r] = "commit"
    /\ products' = [p \in ProductIDs |->
                      IF productLock[p] = r THEN productsW[p] ELSE products[p]]
    /\ orders' = [o \in OrderIDs |->
                      IF orderLock[o] = r THEN ordersW[o] ELSE orders[o]]
    /\ items' = [o \in OrderIDs |->
                      IF orderLock[o] = r THEN itemsW[o] ELSE items[o]]
    /\ ReleaseLocks(r)
    /\ Return(r)
    /\ UNCHANGED <<working, ids>>

\* Every version r wrote is dropped; the sequences keep their values.
Rollback(r) ==
    /\ productsW' = [p \in ProductIDs |->
                      IF productLock[p] = r THEN products[p] ELSE productsW[p]]
    /\ ordersW' = [o \in OrderIDs |->
                      IF orderLock[o] = r THEN orders[o] ELSE ordersW[o]]
    /\ itemsW' = [o \in OrderIDs |->
                      IF orderLock[o] = r THEN items[o] ELSE itemsW[o]]
    /\ ReleaseLocks(r)
    /\ Return(r)
    /\ UNCHANGED <<tables, ids>>

=============================================================================
