-------------------------- MODULE ProductRepository --------------------------
(***************************************************************************)
(* internal/product/transaction_repository.go: the statements on table     *)
(* products.  A statement whose row is locked by another transaction       *)
(* waits: its operator is not enabled until the lock is released.          *)
(***************************************************************************)
EXTENDS Store

\* The row r reads: its own version if it wrote one, the committed otherwise.
ProductSeenBy(r, p) ==
    IF productLock[p] = r THEN productsW[p] ELSE products[p]

\* SELECT ... FOR UPDATE finds a row when a committed version exists, and
\* then waits for its lock; an uncommitted insertion is invisible.
ProductExists(p) == products[p] # NoRow
ProductAvailable(r, p) == productLock[p] \in {None, r}

LockProduct(r, p) == productLock' = [productLock EXCEPT ![p] = r]

\* UPDATE products SET stock = stock - q; CHECK (stock >= 0) refuses more
\* than there is, and the statement fails.
StockAllows(p, q) == productsW[p].stock >= q

\* Fault: the wrong column.
DecreaseStock_Price(p, q) ==
    productsW' = [productsW EXCEPT
                    ![p] = [@ EXCEPT !.price = productsW[p].price - q]]

DecreaseStock(p, q) ==
    productsW' = [productsW EXCEPT ![p] = WithStock(@, productsW[p].stock - q)]

\* UPDATE products SET stock = stock + q.  The number of rows it changed is
\* not looked at: a product that is gone is silently not restocked.
IncreaseStock(r, p, q) ==
    IF ~ProductExists(p)
    THEN UNCHANGED <<productsW, productLock>>
    ELSE /\ ProductAvailable(r, p)
         /\ LockProduct(r, p)
         /\ productsW' =
              [productsW EXCEPT ![p] = WithStock(@, productsW[p].stock + q)]

\* INSERT INTO products; the id comes from the sequence.
CreateRow(r, row) ==
    /\ nextProduct \in ProductIDs
    /\ productsW' = [productsW EXCEPT ![nextProduct] = row]
    /\ LockProduct(r, nextProduct)
    /\ nextProduct' = nextProduct + 1

\* UPDATE products SET price, currency, stock: every column is overwritten.
UpdateRow(p, row) == productsW' = [productsW EXCEPT ![p] = row]

\* DELETE FROM products.
DeleteRow(r, p) ==
    /\ LockProduct(r, p)
    /\ productsW' = [productsW EXCEPT ![p] = NoRow]

\* The foreign key of order_items: o has a committed line of product p, and
\* no transaction is removing it.
Referenced(p) ==
    \E o \in OrderIDs : References(items[o], p) /\ References(itemsW[o], p)

\* Some transaction has removed a line of p and has not committed yet.
RemovalPending(p) ==
    \E o \in OrderIDs : References(items[o], p) /\ ~References(itemsW[o], p)

=============================================================================
