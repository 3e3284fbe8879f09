---------------------------- MODULE StateMachine ----------------------------
(***************************************************************************)
(* The payment state machine of internal/payment/statemachine: a table of  *)
(* the permitted (state, event) pairs and the state each leads to.  A pair *)
(* that is not in the table is ErrInvalidTransition.                       *)
(***************************************************************************)

States == {"created", "authorized", "captured", "partially_refunded",
           "refunded", "canceled", "expired", "failed"}

TerminalStates == {"failed", "canceled", "expired", "refunded"}

Events == {"AuthorizeSucceeded", "AuthorizeFailed", "Capture", "Cancel",
           "Expire", "RefundPartial", "RefundFull"}

\* transitionTable, as triples <<from, event, to>>.
Transitions ==
    { <<"created",            "AuthorizeSucceeded", "authorized">>,
      <<"created",            "AuthorizeFailed",    "failed">>,
      <<"created",            "Expire",             "expired">>,
      <<"authorized",         "Capture",            "captured">>,
      <<"authorized",         "Cancel",             "canceled">>,
      <<"authorized",         "Expire",             "expired">>,
      <<"captured",           "RefundPartial",      "partially_refunded">>,
      <<"captured",           "RefundFull",         "refunded">>,
      <<"partially_refunded", "RefundPartial",      "partially_refunded">>,
      <<"partially_refunded", "RefundFull",         "refunded">> }

IsAllowed(from, event) == \E to \in States : <<from, event, to>> \in Transitions

\* Next(from, event) of the code; only meaningful when IsAllowed(from, event).
Target(from, event) == CHOOSE to \in States : <<from, event, to>> \in Transitions

=============================================================================
