------------------------- MODULE InvoiceStateMachine -------------------------
(***************************************************************************)
(* packages/gateway/src/domain/state-machine.ts: the one table of legal    *)
(* invoice moves that every status change is checked against.              *)
(***************************************************************************)

Status == {"pending", "paid", "confirmed", "refund_pending", "expired",
           "underpaid", "refunded"}

\* Mutant: the table before top-ups, when an underpaid invoice was a dead end.
TransitionsWithoutTopUp ==
  {<<"pending", "paid">>, <<"pending", "underpaid">>, <<"pending", "expired">>,
   <<"paid", "confirmed">>, <<"confirmed", "refund_pending">>,
   <<"refund_pending", "refunded">>, <<"refund_pending", "confirmed">>}

INVOICE_TRANSITIONS ==
  {<<"pending", "paid">>, <<"pending", "underpaid">>, <<"pending", "expired">>,
   <<"underpaid", "paid">>,
   <<"paid", "confirmed">>,
   <<"confirmed", "refund_pending">>,
   <<"refund_pending", "refunded">>, <<"refund_pending", "confirmed">>}

CanTransition(from, to) == <<from, to>> \in INVOICE_TRANSITIONS

=============================================================================
