--------------------------- MODULE BookingStates ---------------------------
(***************************************************************************)
(* The booking state machine as the database stores it: the status enum,   *)
(* the transition matrix of 005_state_machine_and_audit.sql (a table, so   *)
(* any pair it does not list is refused by the trigger), the statuses that *)
(* hold inventory and those the cancellation service lets through.         *)
(* "ABSENT" is the row that has not been inserted.                         *)
(***************************************************************************)

\* The booking_status enum, and ABSENT for a row not inserted yet.
BookingStatus == {"ABSENT", "DRAFT", "HELD", "PENDING_PAYMENT", "CONFIRMED",
                  "COMPLETED", "EXPIRED", "FAILED", "CANCELLED", "REFUNDED"}

\* The rows of booking_transitions that reserve, sell or release the slot.
SellingTransitions ==
  {<<"DRAFT", "HELD">>, <<"DRAFT", "EXPIRED">>, <<"HELD", "HELD">>,
   <<"HELD", "PENDING_PAYMENT">>, <<"HELD", "EXPIRED">>, <<"HELD", "CANCELLED">>,
   <<"PENDING_PAYMENT", "CONFIRMED">>, <<"PENDING_PAYMENT", "FAILED">>,
   <<"PENDING_PAYMENT", "EXPIRED">>, <<"CONFIRMED", "COMPLETED">>,
   <<"CONFIRMED", "CANCELLED">>}

\* Seeded fault: the row that lets a late capture be returned is missing.
ReturningTransitionsWithoutExpired == {<<"CANCELLED", "REFUNDED">>}

\* The rows that follow money going back to the customer.
ReturningTransitions == {<<"CANCELLED", "REFUNDED">>, <<"EXPIRED", "REFUNDED">>}

\* The whole table.
Matrix == SellingTransitions \cup ReturningTransitions

\* What the BEFORE UPDATE trigger lets pass; any other change raises ATR01 and
\* takes its whole transaction with it.
Legal(from, to) == <<from, to>> \in Matrix

\* The statuses that block the room's slot and the equipment's units.
Blocking == {"HELD", "PENDING_PAYMENT", "CONFIRMED"}

\* The statuses the cancellation service tries to move to CANCELLED.
Cancellable == {"HELD", "PENDING_PAYMENT", "CONFIRMED"}
=============================================================================
