---------------------------- MODULE OrderRules ----------------------------
(***************************************************************************)
(* The order state graph of backend/app/models/order.py and the role rules  *)
(* of order_service._guard_transition.  Every module that moves an order    *)
(* extends this one; it declares no variables.                              *)
(***************************************************************************)

OrderStates ==
    {"DRAFT", "OFFERED", "NEGOTIATING", "ACCEPTED", "PAYMENT_PENDING", "PAID",
     "PROCESSING", "READY_FOR_PICKUP", "IN_TRANSIT", "DELIVERED", "COMPLETED",
     "CANCELLED", "DISPUTED", "REFUNDED"}

\* ALLOWED_ORDER_TRANSITIONS
Allowed ==
    [x \in OrderStates |->
        CASE x = "DRAFT"            -> {"OFFERED", "NEGOTIATING", "ACCEPTED", "CANCELLED"}
          [] x = "OFFERED"          -> {"NEGOTIATING", "ACCEPTED", "CANCELLED"}
          [] x = "NEGOTIATING"      -> {"ACCEPTED", "CANCELLED"}
          [] x = "ACCEPTED"         -> {"PAYMENT_PENDING", "PROCESSING", "CANCELLED"}
          [] x = "PAYMENT_PENDING"  -> {"PAID", "CANCELLED"}
          [] x = "PAID"             -> {"PROCESSING", "REFUNDED", "DISPUTED"}
          [] x = "PROCESSING"       -> {"READY_FOR_PICKUP", "CANCELLED", "DISPUTED"}
          [] x = "READY_FOR_PICKUP" -> {"IN_TRANSIT", "CANCELLED", "DISPUTED"}
          [] x = "IN_TRANSIT"       -> {"DELIVERED", "DISPUTED"}
          [] x = "DELIVERED"        -> {"COMPLETED", "DISPUTED"}
          [] x = "DISPUTED"         -> {"REFUNDED", "COMPLETED", "CANCELLED"}
          [] OTHER                  -> {}]

\* ORDER_CANCELABLE_STATES
Cancelable ==
    {"DRAFT", "OFFERED", "NEGOTIATING", "ACCEPTED", "PAYMENT_PENDING", "PAID",
     "PROCESSING", "READY_FOR_PICKUP"}

Roles == {"buyer", "seller", "admin", "transporter"}

\* _guard_transition: which roles may move an order from one state to another.
\* PAID is never granted; a state missing from the table is open to everybody.
MayMove(role, from, to) ==
    CASE to = "PAID"                            -> FALSE
      [] to \in {"PROCESSING", "READY_FOR_PICKUP"} -> role \in {"seller", "admin"}
      [] to \in {"IN_TRANSIT", "DELIVERED"}     -> role \in {"seller", "admin", "transporter"}
      [] to = "COMPLETED"                       -> role \in {"buyer", "admin"}
      [] to = "CANCELLED"                       -> role # "transporter" /\ from \in Cancelable
      [] to = "DISPUTED"                        -> role # "transporter"
      [] to = "REFUNDED"                        -> role = "admin"
      [] OTHER                                  -> TRUE

\* transition_order accepts the move: the edge exists and the role may take it.
Accepts(role, from, to) == to \in Allowed[from] /\ MayMove(role, from, to)

===========================================================================
