------------------------------ MODULE HttpRules ------------------------------
(***************************************************************************)
(* The inductive invariant of Http, on top of the four of Shop: what makes *)
(* the answers documented and true.                                        *)
(***************************************************************************)
EXTENDS Http, ShopEffects

\* A request in flight is a call of a method, of an order that it names
\* where it looks for one.
IsCall(r) ==
    /\ pc[r] # "idle" => op[r] \in Methods
    /\ pc[r] = "order" => target[r] \in OrderIDs

\* After the provider has taken the money, PayOrder has it, and then says so.
HasPaid(r) ==
    op[r] = "PayOrder" /\ pc[r] \in {"mark", "commit"} =>
        /\ target[r] \in charged
        /\ pc[r] = "commit" => ordersW[target[r]].status = "paid"

\* The lines an edit has written are of the cart's products and the one it
\* was asked for; DeleteItem has left none of that.
EditsAsAsked(r) ==
    pc[r] = "recalculate" =>
        \A p \in ProductIDs :
            References(itemsW[target[r]], p) =>
                /\ References(items[target[r]], p) \/ p \in Asked(r)
                /\ op[r] = "DeleteItem" => p \notin Asked(r)

\* An order keeps its owner.
KeepsOwner(o) == orders[o] # NoRow => ordersW[o].user = orders[o].user

\* Lines are of orders.
LinesHaveOrder(o) == orders[o] = NoRow => items[o] = NoLines

CallRules ==
    /\ \A r \in Requests : IsCall(r) /\ HasPaid(r) /\ EditsAsAsked(r)
    /\ \A o \in OrderIDs : KeepsOwner(o) /\ LinesHaveOrder(o)

\* A request whose user has no cart is known to have been without one; and
\* so is one that waits for a draft which is not one any more.
KnowsCartless(r) ==
    op[r] \in CartMethods =>
        /\ ~HasCart(user[r]) => r \in cartless
        /\ pc[r] = "draft" => IsDraft(orders[target[r]], user[r]) \/ r \in cartless

AnswerRules == CallRules /\ \A r \in Requests : KnowsCartless(r)

=============================================================================
