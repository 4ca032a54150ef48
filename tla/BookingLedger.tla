--------------------------- MODULE BookingLedger ---------------------------
(***************************************************************************)
(* What a booking promises, with no jobs, retries or messages in it: a     *)
(* slot and the money for it.  Nobody holds a slot and keeps the money of  *)
(* another outcome: money for a slot that is gone is owed back from the    *)
(* very step that takes it, and goes back once.                            *)
(***************************************************************************)
CONSTANT Bookings

VARIABLES
  slot,   \* free, held, sold, lapsed (the hold expired) or closed
  money   \* none, taken, kept (0% band), owed or returned

ledgerVars == <<slot, money>>

Init == /\ slot = [b \in Bookings |-> "free"]
        /\ money = [b \in Bookings |-> "none"]

Move(b, fromSlot, fromMoney, toSlot, toMoney) ==
  /\ slot[b] = fromSlot
  /\ money[b] = fromMoney
  /\ slot' = [slot EXCEPT ![b] = toSlot]
  /\ money' = [money EXCEPT ![b] = toMoney]

Hold(b)     == Move(b, "free", "none", "held", "none")
Sell(b)     == Move(b, "held", "none", "sold", "taken")
Lapse(b)    == Move(b, "held", "none", "lapsed", "none")
Abandon(b)  == Move(b, "held", "none", "closed", "none")
TakeLate(b) == Move(b, "lapsed", "none", "lapsed", "owed")
Withdraw(b) == \E m \in {"owed", "kept"} : Move(b, "sold", "taken", "closed", m)
Return(b)   == \E s \in {"lapsed", "closed"} : Move(b, s, "owed", "closed", "returned")

Next == \E b \in Bookings : \/ Hold(b) \/ Sell(b) \/ Lapse(b) \/ Abandon(b)
                            \/ TakeLate(b) \/ Withdraw(b) \/ Return(b)

Spec == Init /\ [][Next]_ledgerVars
=============================================================================
