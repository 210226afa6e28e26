-------------------------------- MODULE Http --------------------------------
(***************************************************************************)
(* internal/httpserver/router.go and the handlers of orders, carts and     *)
(* products: a request passes the middleware of its route and the checks   *)
(* of its handler, runs a service method, and gets one answer, a status    *)
(* and the name of an error.  What the body of an answer holds is left to  *)
(* Shop; tokens and roles are modelled in Sessions.                        *)
(***************************************************************************)
EXTENDS Shop

VARIABLES
    reply,      \* the answer the last step sent, or NoReply
    cartless    \* requests in whose time their user has been without a cart

httpVars == <<vars, reply, cartless>>

-----------------------------------------------------------------------------
(* Routes and answers.                                                     *)

Reads == {"GetProducts", "GetProductByID", "ListOrders"}

ASSUME RoutesAssumption == Enabled \subseteq Methods \cup Reads

Public    == {"GetProducts", "GetProductByID"}
AdminOnly == {"CreateProduct", "UpdateProduct", "DeleteProduct",
              "ListOrders", "UpdateOrderStatus"}

\* Routes with an id in the path or a body that has to be decoded, and
\* checks of the arguments in the service.
TakesArguments == (Methods \cup Reads)
                      \ {"GetCart", "Checkout", "GetProducts", "ListOrders"}

NoReply == [to |-> None, method |-> "none", status |-> 0, error |-> ""]

Answer(r, m, status, error) ==
    reply' = [to |-> r, method |-> m, status |-> status, error |-> error]
Silent == reply' = NoReply

Success(m) ==
    CASE m \in {"CreateOrder", "Checkout", "CreateProduct"}         -> 201
      [] m \in {"CancelOrder", "PayOrder", "UpdateOrderStatus",
                "DeleteProduct"}                                    -> 204
      [] OTHER                                                      -> 200

-----------------------------------------------------------------------------
(* The errors a service returns where it gives up, in the order of its     *)
(* checks.                                                                 *)

SaleError(r, p) ==
    IF ~ProductExists(p)                    THEN "product_not_found"
    ELSE IF productsW[p].stock < want[r][p] THEN "insufficient_stock"
    ELSE "different_currencies"

LineError(r, p, q) ==
    IF ~ProductExists(p)           THEN "product_not_found"
    ELSE IF productsW[p].stock < q THEN "insufficient_stock"
    ELSE "cart_item_not_found"

OrderError(r) ==
    IF OrderMissing(r)                    THEN "order_not_found"
    ELSE IF op[r] # "UpdateOrderStatus" /\ ordersW[target[r]].user # user[r]
                                          THEN "order_forbidden"
    ELSE "invalid_order_state"

\* What the answer of the payment provider becomes; Pay itself can fail.
PaymentErrors == {"payment_failed", "payment_timeout", "pay"}

\* The errors that the statement of r may end its method with.
Errors(r) ==
    CASE pc[r] = "lock" -> {SaleError(r, p) : p \in {q \in ProductIDs : IsNextToLock(r, q)}}
      [] pc[r] = "order"              -> {OrderError(r)}
      [] pc[r] = "charge"             -> PaymentErrors
      [] pc[r] \in {"snapshot", "draft"} -> {"cart_not_found"}
      [] pc[r] = "create"             -> {"unique_violation"}
      [] pc[r] = "recalculate"        -> {"different_currencies"}
      [] pc[r] = "remove"             -> {"cart_item_not_found"}
      [] pc[r] = "items"              -> {"empty_cart"}
      [] pc[r] = "references"         -> {"foreign_key_violation"}
      [] At(r, "AddItem", "product")  ->
            {LineError(r, p, want[r][p] + LineQuantity(itemsW[target[r]], p)) :
                p \in {q \in ProductIDs : want[r][q] > 0}}
      [] At(r, "UpdateItem", "product") ->
            {LineError(r, p, want[r][p]) : p \in {q \in ProductIDs : want[r][q] > 0}}
      [] pc[r] = "product" /\ op[r] \in {"UpdateProduct", "DeleteProduct"} ->
            {"product_not_found"}
      [] OTHER -> {"table_full"}

-----------------------------------------------------------------------------
(* The switches of the handlers; an error that is not named is a 500.      *)

CreateOrderStatus ==
    [insufficient_stock |-> 409, product_not_found |-> 404,
     different_currencies |-> 400]

CancelOrderStatus ==
    [order_not_found |-> 404, invalid_order_state |-> 409, order_forbidden |-> 403]

GetOrderStatus == [order_not_found |-> 404, order_forbidden |-> 403]

\* Fault: a timeout is taken for a refusal.
PayOrderStatus_TimeoutFails ==
    [order_not_found |-> 404, order_forbidden |-> 403,
     invalid_order_state |-> 409, payment_failed |-> 402, payment_timeout |-> 402]

PayOrderStatus ==
    [order_not_found |-> 404, order_forbidden |-> 403,
     invalid_order_state |-> 409, payment_failed |-> 402, payment_timeout |-> 504]

UpdateOrderStatusStatus == [order_not_found |-> 404, invalid_order_state |-> 409]

\* Fault: too little stock is an unprocessable request.
CartStatus_Unprocessable ==
    [product_not_found |-> 404, cart_not_found |-> 404,
     cart_item_not_found |-> 404, insufficient_stock |-> 422,
     different_currencies |-> 400, empty_cart |-> 409]

\* writeServiceError.
CartStatus ==
    [product_not_found |-> 404, cart_not_found |-> 404,
     cart_item_not_found |-> 404, insufficient_stock |-> 409,
     different_currencies |-> 400, empty_cart |-> 409]

ProductStatus == [product_not_found |-> 404]

Switch(m) ==
    CASE m = "CreateOrder"       -> CreateOrderStatus
      [] m = "CancelOrder"       -> CancelOrderStatus
      [] m = "GetOrder"          -> GetOrderStatus
      [] m = "PayOrder"          -> PayOrderStatus
      [] m = "UpdateOrderStatus" -> UpdateOrderStatusStatus
      [] m \in {"GetCart", "AddItem", "UpdateItem", "DeleteItem", "Checkout"}
                                 -> CartStatus
      [] OTHER                   -> ProductStatus

AnswerError(r, e) ==
    Answer(r, op[r], IF e \in DOMAIN Switch(op[r]) THEN Switch(op[r])[e] ELSE 500, e)

-----------------------------------------------------------------------------
(* A request on its way.                                                   *)

CartMethods == {"UpdateItem", "DeleteItem", "Checkout"}

HasCart(u) == \E o \in OrderIDs : IsDraft(orders[o], u)

\* cartless after a step: the requests in flight that were in it already,
\* or whose user has no cart now.
NoteCarts ==
    cartless' = {r \in Requests :
                    /\ op'[r] \in CartMethods
                    /\ \/ r \in cartless
                       \/ ~HasCart(user[r])'}

HttpInit == Init /\ reply = NoReply /\ cartless = {}

\* The middleware refuses the token or the role.
Unauthorized(r) ==
    /\ pc[r] = "idle"
    /\ \E m \in Enabled \ Public :
          \/ Answer(r, m, 401, "unauthorized")
          \/ m \in AdminOnly /\ Answer(r, m, 403, "forbidden")
    /\ UNCHANGED <<vars, cartless>>

\* The path, the body or an argument is refused before anything is read; a
\* status that is not one of status.go is a conflict.
BadRequest(r) ==
    /\ pc[r] = "idle"
    /\ \E m \in Enabled \cap TakesArguments :
          \/ Answer(r, m, 400, "invalid")
          \/ m = "UpdateOrderStatus" /\ Answer(r, m, 409, "invalid_order_state")
    /\ UNCHANGED <<vars, cartless>>

Receive(r) == Begins(r) /\ Silent /\ NoteCarts

\* A statement that is not the last of its method.
Proceed(r) == Step(r) /\ pc'[r] # "idle" /\ Silent /\ NoteCarts

Succeed(r) ==
    CommitRequest(r) /\ Answer(r, op[r], Success(op[r]), "") /\ NoteCarts

\* When the provider took the money after all, Pay has answered timeout or
\* returned an error of its own.
Refuse(r) ==
    /\ pc[r] # "commit"
    /\ Step(r)
    /\ pc'[r] = "idle"
    /\ \E e \in Errors(r) :
          /\ payment' # payment => e \in {"payment_timeout", "pay"}
          /\ AnswerError(r, e)
    /\ NoteCarts

\* A statement fails or the context is cancelled: WithinTransaction returns
\* an error that no handler names.
Fail(r) == Abort(r) /\ AnswerError(r, "aborted") /\ NoteCarts

\* The connection breaks while COMMIT is answered: it has taken effect, and
\* the caller is told of an internal error.
CommitLost(r) == CommitRequest(r) /\ AnswerError(r, "commit_lost") /\ NoteCarts

\* The reads: one SELECT outside of any transaction, or in one of its own.
GetProducts(r) ==
    /\ pc[r] = "idle" /\ "GetProducts" \in Enabled
    /\ \E status \in {200, 500} : Answer(r, "GetProducts", status, "")
    /\ UNCHANGED <<vars, cartless>>

GetProductByID(r) ==
    /\ pc[r] = "idle" /\ "GetProductByID" \in Enabled
    /\ \/ \E p \in ProductIDs :
             IF products[p] = NoRow
             THEN Answer(r, "GetProductByID", 404, "product_not_found")
             ELSE Answer(r, "GetProductByID", 200, "")
       \/ Answer(r, "GetProductByID", 500, "")
    /\ UNCHANGED <<vars, cartless>>

ListOrders(r) ==
    /\ pc[r] = "idle" /\ "ListOrders" \in Enabled
    /\ \E status \in {200, 500} : Answer(r, "ListOrders", status, "")
    /\ UNCHANGED <<vars, cartless>>

HttpNext ==
    \E r \in Requests :
        \/ Unauthorized(r) \/ BadRequest(r) \/ Receive(r) \/ Proceed(r)
        \/ Succeed(r) \/ Refuse(r) \/ Fail(r) \/ CommitLost(r)
        \/ GetProducts(r) \/ GetProductByID(r) \/ ListOrders(r)

HttpSpec == HttpInit /\ [][HttpNext]_httpVars

-----------------------------------------------------------------------------
(* Properties.                                                             *)

\* docs/openapi.yaml: the answers each operation lists.
Documented(m) ==
    CASE m = "GetProducts"       -> {200, 500}
      [] m = "GetProductByID"    -> {200, 400, 404, 500}
      [] m = "CreateProduct"     -> {201, 400, 401, 403, 500}
      [] m = "UpdateProduct"     -> {200, 400, 401, 403, 404, 500}
      [] m = "DeleteProduct"     -> {204, 400, 401, 403, 404, 500}
      [] m = "GetCart"           -> {200, 401, 404, 500}
      [] m \in {"AddItem", "UpdateItem"} -> {200, 400, 401, 404, 409, 500}
      [] m = "DeleteItem"        -> {200, 400, 401, 404, 500}
      [] m = "Checkout"          -> {201, 401, 404, 409, 500}
      [] m = "CreateOrder"       -> {201, 400, 401, 404, 409, 500}
      [] m = "GetOrder"          -> {200, 400, 401, 403, 404, 500}
      [] m = "CancelOrder"       -> {204, 400, 401, 403, 404, 409, 500}
      [] m = "PayOrder"          -> {204, 400, 401, 402, 403, 404, 409, 500, 504}
      [] m = "ListOrders"        -> {200, 401, 403, 500}
      [] m = "UpdateOrderStatus" -> {204, 400, 401, 403, 404, 409, 500}

\* Every operation but Checkout gives only answers that the API document
\* lists for it, whatever the other requests do to the rows it works on.
AnswersAreDocumented ==
    reply # NoReply /\ reply.method # "Checkout" =>
        reply.status \in Documented(reply.method)

\* The same of Checkout: docs/openapi.yaml lists 201, 401, 404, 409 and 500.
CheckoutIsDocumented ==
    reply.method = "Checkout" => reply.status \in Documented("Checkout")

Asked(r) == {p \in ProductIDs : want[r][p] > 0}
InCart(u) ==
    {p \in ProductIDs : \E o \in OrderIDs : IsDraft(orders[o], u) /\ References(items[o], p)}
CartQuantity(u, p) ==
    Sum([o \in OrderIDs |-> IF IsDraft(orders[o], u) THEN LineQuantity(items[o], p) ELSE 0])

\* The products whose currencies a method of r compares.
Compared(r) ==
    CASE op[r] \in {"CreateOrder", "Checkout"} -> Asked(r)
      [] op[r] = "DeleteItem"                  -> InCart(user[r]) \ Asked(r)
      [] OTHER                                 -> InCart(user[r]) \cup Asked(r)

\* What error e tells the caller of r is so in the committed tables.
IsTrue(r, e) ==
    CASE e = "product_not_found"    -> \E p \in Asked(r) : products[p] = NoRow
      [] e = "insufficient_stock"   ->
            \E p \in Asked(r) :
                /\ products[p] # NoRow
                /\ products[p].stock <
                      want[r][p] + (IF op[r] = "AddItem"
                                    THEN CartQuantity(user[r], p) ELSE 0)
      [] e = "different_currencies" ->
            \E p, q \in Compared(r) : products[p].currency # products[q].currency
      [] e = "order_not_found"      -> orders[target[r]] = NoRow
      [] e = "order_forbidden"      -> orders[target[r]].user # user[r]
      [] e = "invalid_order_state"  ->
            op[r] # "UpdateOrderStatus" => orders[target[r]].status # "pending"
      [] e = "cart_item_not_found"  -> Asked(r) \cap InCart(user[r]) = {}
      [] e = "empty_cart"           -> HasCart(user[r]) /\ InCart(user[r]) = {}
      [] e = "cart_not_found"       -> r \in cartless
      [] OTHER                      -> TRUE

\* A refusal is true when it is sent: no caller is told of a product, a
\* stock, a currency, an order or a cart that only a transaction which has
\* not committed, or an old snapshot, would justify.  Of "cart_not_found" a
\* weaker fact holds: GetDraft misses a cart that was made while it waited
\* for the lock of the old one, so the user has been without a cart at some
\* moment since the request came in, not always when it is answered.
RefusalsAreTrue ==
    [][\A r \in Requests : reply'.to = r /\ pc[r] # "idle" =>
          IsTrue(r, reply'.error)]_httpVars

\* What PayOrder answers is what happened to the money and to the order:
\* 204, the order is paid and the provider has been paid for it; 402, this
\* call took no money.  Only 504 and 500 leave the caller in doubt.
PaymentAnswersAreTrue ==
    [][\A r \in Requests : reply'.to = r /\ op[r] = "PayOrder" =>
          /\ reply'.status = 204 =>
                orders'[target[r]].status = "paid" /\ target[r] \in charged'
          /\ reply'.status = 402 => UNCHANGED payment]_httpVars

=============================================================================
