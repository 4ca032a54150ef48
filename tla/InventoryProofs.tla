-------------------------- MODULE InventoryProofs --------------------------
(***************************************************************************)
(* Theorems about Inventory, for any rooms, types, requests and asks: its  *)
(* variables keep their types, INV-1 holds, a hold only commits with       *)
(* equipment that is on offer, no hold deadlocks over stock, peakUsage     *)
(* finds the peak, and INV-2 holds while no buffer is lowered.             *)
(*                                                                         *)
(* INV-1 rests on SlotsApart: a request passes the exclusion check only    *)
(* when no overlapping entry is live or in progress, and from then on      *)
(* everybody else's check waits for it or is refused by it.  INV-2 rests   *)
(* on StockReserved: what a hold's stock check found stands until it       *)
(* commits, because nobody else can have a row it has (LocksInOrder).      *)
(***************************************************************************)
EXTENDS Inventory, FiniteSetTheorems, TLAPS

\* How a transaction ends keeps its type and leaves nothing checked or locked.
LEMMA EndedLemma ==
  ASSUME TypeOK, NEW c \in Requests
  PROVE  /\ Ended(c) \in [Requests -> [phase: Phase, locks: SUBSET Types,
                                       attempt: 0..MaxAttempts - 1]]
         /\ \A d \in Requests \ {c} : Ended(c)[d] = tx[d]
         /\ Ended(c)[c].phase = IF booking[c] = "none" THEN "refused" ELSE "idle"
         /\ Ended(c)[c].locks = {}
<1>1. 0 \in 0..MaxAttempts - 1
  BY ConstantsAssumption, SMT
<1>2. tx \in [Requests -> [phase: Phase, locks: SUBSET Types, attempt: 0..MaxAttempts - 1]]
  BY DEF TypeOK
<1>3. QED
  BY <1>1, <1>2, SMT DEF Ended, NoTx, Phase

\* A deadlock victim starts again with no locks, or ends.
LEMMA ReplayedLemma ==
  ASSUME TypeOK, NEW c \in Requests
  PROVE  /\ Replayed(c) \in [Requests -> [phase: Phase, locks: SUBSET Types,
                                          attempt: 0..MaxAttempts - 1]]
         /\ \A d \in Requests \ {c} : Replayed(c)[d] = tx[d]
         /\ Replayed(c)[c].phase \in
              IF booking[c] = "none" THEN {"reading", "refused"} ELSE {"ready", "idle"}
         /\ Replayed(c)[c].locks = {}
<1>1. CASE tx[c].attempt + 1 < MaxAttempts
  <2>1. tx[c].attempt + 1 \in 0..MaxAttempts - 1
    BY <1>1, ConstantsAssumption, SMT DEF TypeOK
  <2>2. tx \in [Requests -> [phase: Phase, locks: SUBSET Types, attempt: 0..MaxAttempts - 1]]
    BY DEF TypeOK
  <2>3. QED
    BY <1>1, <2>1, <2>2, SMT DEF Replayed, Phase
<1>2. CASE ~(tx[c].attempt + 1 < MaxAttempts)
  BY <1>2, EndedLemma, SMT DEF Replayed
<1>3. QED
  BY <1>1, <1>2

\* So does taking the next lock, or moving on to another phase.
LEMMA MovedLemma ==
  ASSUME TypeOK, NEW c \in Requests
  PROVE  /\ \A p \in Phase : [tx EXCEPT ![c].phase = p] \in
              [Requests -> [phase: Phase, locks: SUBSET Types, attempt: 0..MaxAttempts - 1]]
         /\ \A t \in Types : [tx EXCEPT ![c].locks = @ \cup {t}] \in
              [Requests -> [phase: Phase, locks: SUBSET Types, attempt: 0..MaxAttempts - 1]]
<1>1. tx \in [Requests -> [phase: Phase, locks: SUBSET Types, attempt: 0..MaxAttempts - 1]]
  BY DEF TypeOK
<1>2. QED
  BY <1>1, SMT

\* A transaction that only moves on or ends leaves the other types alone.
LEMMA TxStepLemma ==
  ASSUME TypeOK, UNCHANGED <<ask, booking, stockVars, open>>,
         tx' \in [Requests -> [phase: Phase, locks: SUBSET Types, attempt: 0..MaxAttempts - 1]]
  PROVE  TypeOK'
  BY DEF TypeOK, stockVars

\* Every step keeps every variable's type.
LEMMA TypeStep == TypeOK /\ [Next]_vars => TypeOK'
<1> SUFFICES ASSUME TypeOK, [Next]_vars PROVE TypeOK'
  OBVIOUS
<1> USE DEF stockVars
<1>1. ASSUME NEW c \in Requests, NEW a \in Asks, Submit(c, a) PROVE TypeOK'
  BY <1>1, SMT DEF TypeOK, Submit, Phase
<1>2. ASSUME NEW c \in Requests, ReadRoom(c) PROVE TypeOK'
  BY <1>2, EndedLemma, MovedLemma, TxStepLemma, Zenon DEF ReadRoom, Phase
<1>3. ASSUME NEW c \in Requests, LockType(c) PROVE TypeOK'
  <2>1. PICK t \in Types : tx' = IF OnOffer(c, t)
                                  THEN [tx EXCEPT ![c].locks = @ \cup {t}]
                                  ELSE Ended(c)
    BY <1>3 DEF LockType, NextLocks, Wanted
  <2>2. UNCHANGED <<ask, booking, stockVars, open>>
    BY <1>3 DEF LockType
  <2>3. CASE OnOffer(c, t)
    BY <2>1, <2>2, <2>3, MovedLemma, TxStepLemma, Zenon
  <2>4. CASE ~OnOffer(c, t)
    BY <2>1, <2>2, <2>4, EndedLemma, TxStepLemma, Zenon
  <2>5. QED
    BY <2>3, <2>4
<1>4. ASSUME NEW c \in Requests, CheckStock(c) PROVE TypeOK'
  BY <1>4, EndedLemma, MovedLemma, TxStepLemma, Zenon DEF CheckStock, Phase
<1>5. ASSUME NEW c \in Requests, PlaceEntry(c) PROVE TypeOK'
  BY <1>5, MovedLemma, TxStepLemma, Zenon DEF PlaceEntry, Phase
<1>6. ASSUME NEW c \in Requests, CheckOverlap(c) PROVE TypeOK'
  <2>1. UNCHANGED <<ask, booking, stockVars, open>>
    BY <1>6 DEF CheckOverlap
  <2>2. CASE tx' = Ended(c)
    BY <2>1, <2>2, EndedLemma, TxStepLemma, Zenon
  <2>3. CASE tx' = [tx EXCEPT ![c].phase = "checked"]
    BY <2>1, <2>3, MovedLemma, TxStepLemma, Zenon DEF Phase
  <2>4. QED
    BY <1>6, <2>2, <2>3 DEF CheckOverlap
<1>7. ASSUME NEW c \in Requests, Commit(c) PROVE TypeOK'
  BY <1>7, ConstantsAssumption, SMT DEF TypeOK, Commit, NoTx, Phase
<1>8. ASSUME NEW c \in Requests, DeadlockVictim(c) PROVE TypeOK'
  BY <1>8, ReplayedLemma, TxStepLemma, Zenon DEF DeadlockVictim, Phase
<1>9. ASSUME NEW c \in Requests, StartUpdate(c) PROVE TypeOK'
  BY <1>9, MovedLemma, TxStepLemma, Zenon DEF StartUpdate, Phase
<1>10. ASSUME NEW c \in Requests, Release(c) PROVE TypeOK'
  BY <1>10, SMT DEF TypeOK, Release
<1>11. ASSUME NEW c \in Requests, Crash(c) PROVE TypeOK'
  BY <1>11, EndedLemma, TxStepLemma, Zenon DEF Crash, Phase
<1>12. ASSUME NEW t \in Types, NEW n \in Units, NEW b \in Buffers, NEW active \in BOOLEAN,
              EditEquipment(t, n, b, active)
       PROVE  TypeOK'
  BY <1>12, SMT DEF TypeOK, EditEquipment
<1>13. ASSUME NEW r \in Archivable, NEW active \in BOOLEAN, EditRoom(r, active) PROVE TypeOK'
  BY <1>13, ConstantsAssumption, SMT DEF TypeOK, EditRoom
<1>14. ASSUME UNCHANGED vars PROVE TypeOK'
  BY <1>14, SMT DEF TypeOK, vars
<1>15. QED
  BY <1>1, <1>2, <1>3, <1>4, <1>5, <1>6, <1>7, <1>8, <1>9, <1>10, <1>11, <1>12, <1>13, <1>14
     DEF Next, HoldStep

\* The types hold at the start.
LEMMA TypeInit == Init => TypeOK
  BY ConstantsAssumption, SMT DEF Init, TypeOK, NoTx, Phase

\* Every variable keeps its type, for any constants.
THEOREM TypeCorrect == Spec => []TypeOK
<1>1. Init => TypeOK
  BY TypeInit
<1>2. TypeOK /\ [Next]_vars => TypeOK'
  BY TypeStep
<1>3. QED
  BY <1>1, <1>2, PTL DEF Spec

-----------------------------------------------------------------------------
(* The inductive invariant *)

\* A step of c's transaction that gives c no slot leaves the slots apart.
LEMMA ApartLemma ==
  ASSUME TypeOK, SlotsApart, NEW c \in Requests,
         UNCHANGED <<ask, booking>>,
         \A d \in Requests \ {c} : tx'[d] = tx[d],
         tx[c].phase # "idle" \/ booking[c] # "none",
         tx'[c].phase = "checked" => Taken(c)
  PROVE  SlotsApart'
<1>1. \A d \in Requests : Taken(d)' => Taken(d)
  BY DEF Taken
<1>2. \A d \in Requests :
        tx'[d].phase # "idle" \/ booking'[d] # "none" => ask'[d] \in Asks
  BY DEF SlotsApart
<1>3. ASSUME NEW d \in Requests, NEW e \in Requests \ {d}, Taken(d)', Taken(e)'
      PROVE  ~Overlap(ask'[d], ask'[e])
  BY <1>1, <1>3 DEF SlotsApart
<1>4. QED
  BY <1>2, <1>3 DEF SlotsApart

\* A step of c's transaction keeps the stock held if c still has the rows it
\* needs and only rows on offer.
LEMMA StockLemma ==
  ASSUME TypeOK, StockHeld, NEW c \in Requests,
         UNCHANGED <<ask, booking, offered>>,
         \A d \in Requests \ {c} : tx'[d] = tx[d],
         \A t \in tx'[c].locks : OnOffer(c, t) /\ t \in Types,
         tx'[c].phase \in {"ready", "placed", "checked"} /\ booking[c] = "none" =>
           Wanted(c) \subseteq tx'[c].locks,
         tx'[c].locks # {} => tx'[c].phase # "idle"
  PROVE  StockHeld'
<1>1. \A d \in Requests : Wanted(d)' = Wanted(d)
  BY DEF Wanted
<1>2. \A d \in Requests, t \in Types : OnOffer(d, t)' <=> OnOffer(d, t)
  BY DEF OnOffer
<1>3. \A d \in Requests : (tx[d].locks)' = tx'[d].locks /\ (tx[d].phase)' = tx'[d].phase
  OBVIOUS
<1>4. ASSUME NEW d \in Requests
      PROVE  /\ \A t \in tx'[d].locks : OnOffer(d, t)' /\ t \in Types
             /\ tx'[d].phase \in {"ready", "placed", "checked"} /\ booking'[d] = "none" =>
                  Wanted(d)' \subseteq tx'[d].locks
             /\ tx'[d].locks # {} => tx'[d].phase # "idle"
  <2>1. CASE d = c
    BY <1>1, <1>2, <2>1
  <2>2. CASE d # c
    BY <1>1, <1>2, <2>2 DEF StockHeld
  <2>3. QED
    BY <2>1, <2>2
<1>5. QED
  BY <1>4 DEF StockHeld

\* A transaction that ends, however it ends, keeps the invariant.
LEMMA EndedKeeps ==
  ASSUME TypeOK, HoldsConsistent, NEW c \in Requests,
         tx[c].phase # "idle" \/ booking[c] # "none",
         tx' = Ended(c), UNCHANGED <<ask, booking, offered>>
  PROVE  HoldsConsistent'
<1>1. /\ \A d \in Requests \ {c} : tx'[d] = tx[d]
      /\ tx'[c].phase \in {"refused", "idle"}
      /\ tx'[c].locks = {}
  BY EndedLemma
<1>2. SlotsApart'
  BY <1>1, ApartLemma DEF HoldsConsistent
<1>3. StockHeld'
  BY <1>1, StockLemma DEF HoldsConsistent
<1>4. QED
  BY <1>2, <1>3 DEF HoldsConsistent

\* So does a transaction that moves to another phase without passing the
\* exclusion check.
LEMMA MovedKeeps ==
  ASSUME TypeOK, HoldsConsistent, NEW c \in Requests,
         NEW p \in {"reading", "locking", "ready", "placed"},
         tx[c].phase # "idle" \/ booking[c] # "none",
         tx' = [tx EXCEPT ![c].phase = p], UNCHANGED <<ask, booking, offered>>,
         p \in {"ready", "placed"} /\ booking[c] = "none" => Wanted(c) \subseteq tx[c].locks
  PROVE  HoldsConsistent'
<1>1. /\ \A d \in Requests \ {c} : tx'[d] = tx[d]
      /\ tx'[c].phase = p /\ tx'[c].locks = tx[c].locks
  BY SMT DEF TypeOK
<1>2. SlotsApart'
  BY <1>1, ApartLemma DEF HoldsConsistent
<1>3. \A t \in tx'[c].locks : OnOffer(c, t) /\ t \in Types
  BY <1>1 DEF HoldsConsistent, StockHeld
<1>4. StockHeld'
  BY <1>1, <1>3, StockLemma DEF HoldsConsistent
<1>5. QED
  BY <1>2, <1>4 DEF HoldsConsistent

\* Overlap is mutual.
LEMMA OverlapSymmetric ==
  ASSUME NEW a \in Asks, NEW b \in Asks
  PROVE  Overlap(a, b) <=> Overlap(b, a)
  BY DEF Overlap

\* Passing the exclusion check takes the slot from nobody: all who have or are
\* about to have an overlapping one would have been in the way.
LEMMA CheckedKeeps ==
  ASSUME TypeOK, HoldsConsistent, NEW c \in Requests,
         tx[c].phase = "placed", Clear(c),
         tx' = [tx EXCEPT ![c].phase = "checked"], UNCHANGED <<ask, booking, offered>>
  PROVE  HoldsConsistent'
<1>1. /\ \A d \in Requests \ {c} : tx'[d] = tx[d]
      /\ tx'[c].phase = "checked" /\ tx'[c].locks = tx[c].locks
  BY SMT DEF TypeOK
<1>2. ask[c] \in Asks
  BY DEF HoldsConsistent, SlotsApart
<1>3. ASSUME NEW d \in Requests \ {c}, Taken(d)
      PROVE  ~Overlap(ask[c], ask[d]) /\ ~Overlap(ask[d], ask[c])
  <2>1. ask[d] \in Asks
    BY <1>3 DEF HoldsConsistent, SlotsApart, Taken
  <2>2. Committed(d) \/ InProgress(d)
    BY <1>3 DEF Taken, Committed, InProgress
  <2>3. ~Overlap(ask[c], ask[d])
    BY <2>1, <2>2, ConstantsAssumption DEF Clear, Conflicts
  <2>4. QED
    BY <1>2, <2>1, <2>3, OverlapSymmetric
<1>4. \A d \in Requests \ {c} : Taken(d)' <=> Taken(d)
  BY <1>1 DEF Taken
<1>5. ASSUME NEW d \in Requests, NEW e \in Requests \ {d}, Taken(d)', Taken(e)'
      PROVE  ~Overlap(ask[d], ask[e])
  <2>1. CASE d = c
    BY <1>3, <1>4, <1>5, <2>1
  <2>2. CASE e = c
    BY <1>3, <1>4, <1>5, <2>2
  <2>3. CASE d # c /\ e # c
    BY <1>4, <1>5, <2>3 DEF HoldsConsistent, SlotsApart
  <2>4. QED
    BY <2>1, <2>2, <2>3
<1>6. \A d \in Requests :
        tx'[d].phase # "idle" \/ booking'[d] # "none" => ask'[d] \in Asks
  BY <1>1, <1>2 DEF HoldsConsistent, SlotsApart
<1>7. SlotsApart'
  BY <1>5, <1>6 DEF SlotsApart
<1>8. \A t \in tx'[c].locks : OnOffer(c, t) /\ t \in Types
  BY <1>1 DEF HoldsConsistent, StockHeld
<1>9. booking[c] = "none" => Wanted(c) \subseteq tx'[c].locks
  BY <1>1 DEF HoldsConsistent, StockHeld
<1>10. StockHeld'
  BY <1>1, <1>8, <1>9, StockLemma DEF HoldsConsistent
<1>11. QED
  BY <1>7, <1>10 DEF HoldsConsistent

\* Every step keeps the slots apart and the stock held.
LEMMA HoldsStep == TypeOK /\ HoldsConsistent /\ [Next]_vars => HoldsConsistent'
<1> SUFFICES ASSUME TypeOK, HoldsConsistent, [Next]_vars PROVE HoldsConsistent'
  OBVIOUS
<1> USE DEF stockVars
<1>1. ASSUME NEW c \in Requests, NEW a \in Asks, Submit(c, a) PROVE HoldsConsistent'
  <2>1. /\ tx[c].phase = "idle" /\ booking[c] = "none" /\ tx[c].locks = {}
    BY <1>1, ConstantsAssumption DEF Submit, HoldsConsistent, SlotsApart, StockHeld
  <2>2. /\ ask' = [ask EXCEPT ![c] = a]
        /\ \A d \in Requests \ {c} : tx'[d] = tx[d] /\ ask'[d] = ask[d]
        /\ tx'[c].phase = "reading" /\ tx'[c].locks = {} /\ ask'[c] = a
        /\ UNCHANGED <<booking, offered>>
    BY <1>1, <2>1, SMT DEF Submit, TypeOK
  <2>3. \A d \in Requests : Taken(d)' => Taken(d) /\ d # c
    BY <2>1, <2>2 DEF Taken
  <2>4. SlotsApart'
    BY <2>2, <2>3 DEF HoldsConsistent, SlotsApart
  <2>5. StockHeld'
    <3>1. \A d \in Requests \ {c} : Wanted(d)' = Wanted(d)
      BY <2>2 DEF Wanted
    <3>2. \A d \in Requests \ {c}, t \in Types : OnOffer(d, t)' <=> OnOffer(d, t)
      BY <2>2 DEF OnOffer
    <3>3. QED
      BY <2>2, <3>1, <3>2 DEF HoldsConsistent, StockHeld
  <2>6. QED
    BY <2>4, <2>5 DEF HoldsConsistent
<1>2. ASSUME NEW c \in Requests, ReadRoom(c) PROVE HoldsConsistent'
  <2>1. CASE tx' = Ended(c)
    BY <1>2, <2>1, EndedKeeps DEF ReadRoom
  <2>2. CASE tx' = [tx EXCEPT ![c].phase = "locking"]
    <3>1. tx[c].phase = "reading" /\ UNCHANGED <<ask, booking, offered>>
      BY <1>2 DEF ReadRoom
    <3>2. QED
      BY <2>2, <3>1, MovedKeeps
  <2>3. QED
    BY <1>2, <2>1, <2>2 DEF ReadRoom
<1>3. ASSUME NEW c \in Requests, LockType(c) PROVE HoldsConsistent'
  <2>1. PICK t \in Types : tx' = IF OnOffer(c, t)
                                  THEN [tx EXCEPT ![c].locks = @ \cup {t}]
                                  ELSE Ended(c)
    BY <1>3 DEF LockType, NextLocks, Wanted
  <2>2. UNCHANGED <<ask, booking, offered>> /\ tx[c].phase = "locking"
    BY <1>3 DEF LockType
  <2>3. CASE OnOffer(c, t)
    <3>1. /\ \A d \in Requests \ {c} : tx'[d] = tx[d]
          /\ tx'[c].phase = "locking" /\ tx'[c].locks = tx[c].locks \cup {t}
      BY <2>1, <2>2, <2>3, SMT DEF TypeOK
    <3>2. SlotsApart'
      BY <2>2, <3>1, ApartLemma DEF HoldsConsistent
    <3>3. \A u \in tx'[c].locks : OnOffer(c, u) /\ u \in Types
      BY <2>3, <3>1 DEF HoldsConsistent, StockHeld
    <3>4. StockHeld'
      BY <2>2, <3>1, <3>3, StockLemma DEF HoldsConsistent
    <3>5. QED
      BY <3>2, <3>4 DEF HoldsConsistent
  <2>4. CASE ~OnOffer(c, t)
    BY <2>1, <2>2, <2>4, EndedKeeps
  <2>5. QED
    BY <2>3, <2>4
<1>4. ASSUME NEW c \in Requests, CheckStock(c) PROVE HoldsConsistent'
  <2>1. CASE tx' = Ended(c)
    BY <1>4, <2>1, EndedKeeps DEF CheckStock
  <2>2. CASE tx' = [tx EXCEPT ![c].phase = "ready"]
    <3>1. /\ tx[c].phase = "locking" /\ UNCHANGED <<ask, booking, offered>>
          /\ Wanted(c) \subseteq tx[c].locks
      BY <1>4 DEF CheckStock
    <3>2. QED
      BY <2>2, <3>1, MovedKeeps
  <2>3. QED
    BY <1>4, <2>1, <2>2 DEF CheckStock
<1>5. ASSUME NEW c \in Requests, PlaceEntry(c) PROVE HoldsConsistent'
  <2>1. /\ tx[c].phase = "ready" /\ UNCHANGED <<ask, booking, offered>>
        /\ tx' = [tx EXCEPT ![c].phase = "placed"]
    BY <1>5 DEF PlaceEntry
  <2>2. booking[c] = "none" => Wanted(c) \subseteq tx[c].locks
    BY <2>1 DEF HoldsConsistent, StockHeld
  <2>3. QED
    BY <2>1, <2>2, MovedKeeps
<1>6. ASSUME NEW c \in Requests, CheckOverlap(c) PROVE HoldsConsistent'
  <2>1. CASE tx' = Ended(c)
    BY <1>6, <2>1, EndedKeeps DEF CheckOverlap
  <2>2. CASE Clear(c) /\ tx' = [tx EXCEPT ![c].phase = "checked"]
    BY <1>6, <2>2, CheckedKeeps DEF CheckOverlap
  <2>3. QED
    BY <1>6, <2>1, <2>2 DEF CheckOverlap
<1>7. ASSUME NEW c \in Requests, Commit(c) PROVE HoldsConsistent'
  <2>1. /\ \A d \in Requests \ {c} : tx'[d] = tx[d] /\ booking'[d] = booking[d]
        /\ tx'[c].phase = "idle" /\ tx'[c].locks = {} /\ booking'[c] = "blocking"
        /\ UNCHANGED <<ask, offered>>
        /\ tx[c].phase = "checked"
    BY <1>7, SMT DEF Commit, NoTx, TypeOK
  <2>2. \A d \in Requests : Taken(d)' => Taken(d)
    BY <2>1 DEF Taken
  <2>3. SlotsApart'
    BY <2>1, <2>2 DEF HoldsConsistent, SlotsApart
  <2>4. StockHeld'
    <3>1. \A d \in Requests : Wanted(d)' = Wanted(d)
      BY <2>1 DEF Wanted
    <3>2. \A d \in Requests, t \in Types : OnOffer(d, t)' <=> OnOffer(d, t)
      BY <2>1 DEF OnOffer
    <3>3. QED
      BY <2>1, <3>1, <3>2 DEF HoldsConsistent, StockHeld
  <2>5. QED
    BY <2>3, <2>4 DEF HoldsConsistent
<1>8. ASSUME NEW c \in Requests, DeadlockVictim(c) PROVE HoldsConsistent'
  <2>1. /\ \A d \in Requests \ {c} : tx'[d] = tx[d]
        /\ tx'[c].phase \in
              IF booking[c] = "none" THEN {"reading", "refused"} ELSE {"ready", "idle"}
        /\ tx'[c].locks = {}
        /\ tx[c].phase # "idle"
        /\ UNCHANGED <<ask, booking, offered>>
    BY <1>8, ReplayedLemma DEF DeadlockVictim
  <2>2. SlotsApart'
    BY <2>1, ApartLemma DEF HoldsConsistent
  <2>3. StockHeld'
    BY <2>1, StockLemma DEF HoldsConsistent
  <2>4. QED
    BY <2>2, <2>3 DEF HoldsConsistent
<1>9. ASSUME NEW c \in Requests, StartUpdate(c) PROVE HoldsConsistent'
  <2>1. /\ booking[c] = "blocking" /\ UNCHANGED <<ask, booking, offered>>
        /\ tx' = [tx EXCEPT ![c].phase = "ready"]
    BY <1>9 DEF StartUpdate
  <2>2. QED
    BY <2>1, MovedKeeps
<1>10. ASSUME NEW c \in Requests, Release(c) PROVE HoldsConsistent'
  <2>1. /\ \A d \in Requests \ {c} : booking'[d] = booking[d]
        /\ booking'[c] = "released" /\ booking[c] = "blocking"
        /\ UNCHANGED <<ask, tx, offered>>
    BY <1>10, SMT DEF Release, TypeOK
  <2>2. \A d \in Requests : Taken(d)' => Taken(d)
    BY <2>1 DEF Taken
  <2>3. SlotsApart'
    BY <2>1, <2>2 DEF HoldsConsistent, SlotsApart
  <2>4. StockHeld'
    <3>1. \A d \in Requests : Wanted(d)' = Wanted(d)
      BY <2>1 DEF Wanted
    <3>2. \A d \in Requests, t \in Types : OnOffer(d, t)' <=> OnOffer(d, t)
      BY <2>1 DEF OnOffer
    <3>3. QED
      BY <2>1, <3>1, <3>2 DEF HoldsConsistent, StockHeld
  <2>5. QED
    BY <2>3, <2>4 DEF HoldsConsistent
<1>11. ASSUME NEW c \in Requests, Crash(c) PROVE HoldsConsistent'
  BY <1>11, EndedKeeps DEF Crash
<1>12. ASSUME NEW t \in Types, NEW n \in Units, NEW b \in Buffers, NEW active \in BOOLEAN,
              EditEquipment(t, n, b, active)
       PROVE  HoldsConsistent'
  <2>1. /\ UNCHANGED <<ask, booking, tx>>
        /\ \A c \in Requests : t \notin tx[c].locks
        /\ \A u \in Types \ {t} : u \in offered' <=> u \in offered
    BY <1>12 DEF EditEquipment, LockedBy
  <2>2. SlotsApart'
    BY <2>1 DEF HoldsConsistent, SlotsApart, Taken
  <2>3. StockHeld'
    <3>1. \A d \in Requests : Wanted(d)' = Wanted(d)
      BY <2>1 DEF Wanted
    <3>2. \A d \in Requests, u \in Types \ {t} : OnOffer(d, u)' <=> OnOffer(d, u)
      BY <2>1 DEF OnOffer
    <3>3. QED
      BY <2>1, <3>1, <3>2 DEF HoldsConsistent, StockHeld
  <2>4. QED
    BY <2>2, <2>3 DEF HoldsConsistent
<1>13. ASSUME UNCHANGED <<ask, booking, tx, offered>> PROVE HoldsConsistent'
  <2>1. SlotsApart'
    BY <1>13 DEF HoldsConsistent, SlotsApart, Taken
  <2>2. \A d \in Requests : Wanted(d)' = Wanted(d)
    BY <1>13 DEF Wanted
  <2>3. \A d \in Requests, t \in Types : OnOffer(d, t)' <=> OnOffer(d, t)
    BY <1>13 DEF OnOffer
  <2>4. StockHeld'
    BY <1>13, <2>2, <2>3 DEF HoldsConsistent, StockHeld
  <2>5. QED
    BY <2>1, <2>4 DEF HoldsConsistent
<1>14. QED
  BY <1>1, <1>2, <1>3, <1>4, <1>5, <1>6, <1>7, <1>8, <1>9, <1>10, <1>11, <1>12, <1>13
     DEF Next, HoldStep, EditRoom, vars

\* Nobody has asked for anything at the start.
LEMMA HoldsInit == Init => HoldsConsistent
  BY SMT DEF Init, HoldsConsistent, SlotsApart, StockHeld, Taken, NoTx

\* Slots stay apart and stock stays held, for any constants.
THEOREM HoldsAlwaysConsistent == Spec => []HoldsConsistent
<1>1. Init => TypeOK /\ HoldsConsistent
  BY TypeInit, HoldsInit
<1>2. TypeOK /\ HoldsConsistent /\ [Next]_vars => (TypeOK /\ HoldsConsistent)'
  BY TypeStep, HoldsStep
<1>3. QED
  BY <1>1, <1>2, PTL DEF Spec

-----------------------------------------------------------------------------
(* What follows from it *)

\* Slots apart leave the turnaround between them.
LEMMA ApartIsExclusive == TypeOK /\ HoldsConsistent => RoomExclusive
<1> SUFFICES ASSUME TypeOK, HoldsConsistent,
                    NEW c \in Requests, NEW d \in Requests, c # d,
                    booking[c] = "blocking", booking[d] = "blocking",
                    ask[c].room = ask[d].room
             PROVE  \/ ask[c].to + Turnaround <= ask[d].from
                    \/ ask[d].to + Turnaround <= ask[c].from
  BY DEF RoomExclusive
<1>1. ask[c] \in Asks /\ ask[d] \in Asks
  BY DEF HoldsConsistent, SlotsApart
<1>2. /\ ask[c].from \in Nat /\ ask[c].to \in Nat
      /\ ask[d].from \in Nat /\ ask[d].to \in Nat
  BY <1>1, ConstantsAssumption
<1>3. ~Overlap(ask[c], ask[d])
  BY DEF HoldsConsistent, SlotsApart, Taken
<1>4. QED
  BY <1>2, <1>3, SMT DEF Overlap, Turnaround

\* INV-1 for any rooms, asks and interleaving of holds and status changes.
THEOREM RoomStaysExclusive == Spec => []RoomExclusive
<1>1. TypeOK /\ HoldsConsistent => RoomExclusive
  BY ApartIsExclusive
<1>2. QED
  BY <1>1, TypeCorrect, HoldsAlwaysConsistent, PTL

\* A booking only comes to be by a commit of a hold that has its stock.
LEMMA OfferedStep ==
  ASSUME TypeOK, HoldsConsistent, [Next]_vars,
         NEW c \in Requests, booking[c] = "none", booking'[c] = "blocking"
  PROVE  \A t \in Wanted(c) : t \in offered /\ t \in VenueTypes[ask[c].room]
<1>1. tx[c].phase = "checked"
  BY SMT DEF Next, HoldStep, Submit, ReadRoom, LockType, CheckStock, PlaceEntry,
     CheckOverlap, Commit, DeadlockVictim, StartUpdate, Release, Crash,
     EditEquipment, EditRoom, vars, TypeOK
<1>2. QED
  BY <1>1 DEF HoldsConsistent, StockHeld, OnOffer

\* A hold only commits with equipment its venue offers at that moment.
THEOREM HiresWhatIsOffered == Spec => HiresOfferedEquipment
<1>1. TypeOK /\ HoldsConsistent /\ [Next]_vars =>
        [\A c \in Requests :
           booking[c] = "none" /\ booking'[c] = "blocking" =>
             \A t \in Wanted(c) : t \in offered /\ t \in VenueTypes[ask[c].room]]_vars
  BY OfferedStep
<1>2. QED
  BY <1>1, TypeCorrect, HoldsAlwaysConsistent, PTL DEF Spec, HiresOfferedEquipment

-----------------------------------------------------------------------------
(* Naturals *)

\* A set of naturals that is not empty has a least element.
LEMMA LeastNatural ==
  ASSUME NEW S \in SUBSET Nat, S # {}
  PROVE  \E n \in S : \A m \in S : n <= m
<1>1. IsWellFoundedOn(OpToRel(<, Nat), Nat)
  BY NatLessThanWellFounded
<1>2. PICK n \in S : \A m \in S : <<m, n>> \notin OpToRel(<, Nat)
  BY <1>1, WFMin
<1>3. ASSUME NEW m \in S PROVE n <= m
  <2>1. m \in Nat /\ n \in Nat
    OBVIOUS
  <2>2. ~(m < n)
    BY <1>2, <2>1 DEF OpToRel
  <2>3. QED
    BY <2>1, <2>2
<1>4. QED
  BY <1>3

\* A finite set of naturals that is not empty has a greatest element: one with
\* the fewest above it.
LEMMA GreatestNatural ==
  ASSUME NEW S \in SUBSET Nat, IsFiniteSet(S), S # {}
  PROVE  \E n \in S : \A m \in S : m <= n
<1> DEFINE Above(n) == {m \in S : n < m}
           Counts   == {Cardinality(Above(n)) : n \in S}
<1>1. \A n \in S : IsFiniteSet(Above(n)) /\ Cardinality(Above(n)) \in Nat
  BY FS_Subset, FS_CardinalityType
<1>2. PICK n \in S : \A m \in S : Cardinality(Above(n)) <= Cardinality(Above(m))
  <2>1. Counts \in SUBSET Nat /\ Counts # {}
    BY <1>1
  <2>2. PICK k \in Counts : \A l \in Counts : k <= l
    BY <2>1, LeastNatural
  <2>3. QED
    BY <2>2
<1>3. ASSUME NEW m \in S, n < m PROVE FALSE
  <2> n \in Nat /\ m \in Nat /\ \A k \in S : k \in Nat
    OBVIOUS
  <2>1. Above(m) \subseteq Above(n) /\ m \in Above(n) /\ m \notin Above(m)
    <3>1. ~(m < m) /\ \A k \in S : m < k => n < k
      BY <1>3
    <3>2. QED
      BY <1>3, <3>1
  <2>2. Cardinality(Above(m)) < Cardinality(Above(n))
    <3>1. Above(m) \in SUBSET Above(n) /\ Above(m) # Above(n)
      BY <2>1
    <3>2. Cardinality(Above(m)) <= Cardinality(Above(n)) /\ Cardinality(Above(m)) # Cardinality(Above(n))
      BY <1>1, <3>1, FS_Subset
    <3>3. QED
      BY <1>1, <1>3, <3>2
  <2>3. QED
    BY <1>1, <1>2, <1>3, <2>2
<1>4. ASSUME NEW m \in S PROVE m <= n
  <2>1. ~(n < m)
    BY <1>3
  <2>2. m \in Nat /\ n \in Nat
    OBVIOUS
  <2>3. QED
    BY <2>1, <2>2
<1>5. QED
  BY <1>4

-----------------------------------------------------------------------------
(* Units that are out *)

Out(t, i) == UNION {{d} \X (1..ask[d].lines[t]) : d \in {e \in Requests : BlockingAt(e, i)}}

LEMMA LineType ==
  ASSUME TypeOK, HoldsConsistent, NEW d \in Requests, ask[d] \in Asks, NEW t \in Types
  PROVE  /\ ask[d].from \in Nat /\ ask[d].to \in Nat
         /\ ask[d].lines[t] \in 0..MaxQuantity
  BY ConstantsAssumption

LEMMA BlockingHasAsked ==
  ASSUME TypeOK, HoldsConsistent, NEW d \in Requests, booking[d] = "blocking"
  PROVE  ask[d] \in Asks
  BY DEF HoldsConsistent, SlotsApart

LEMMA OutFinite ==
  ASSUME TypeOK, HoldsConsistent, NEW t \in Types, NEW i \in Int
  PROVE  /\ Out(t, i) = {u \in Requests \X (1..MaxQuantity) :
                           BlockingAt(u[1], i) /\ u[2] <= ask[u[1]].lines[t]}
         /\ IsFiniteSet(Out(t, i))
         /\ UsageAt(t, i) = Cardinality(Out(t, i))
         /\ UsageAt(t, i) \in Nat
<1>1. \A d \in Requests : BlockingAt(d, i) => ask[d].lines[t] \in 0..MaxQuantity
  BY LineType, BlockingHasAsked DEF BlockingAt
<1>2. Out(t, i) = {u \in Requests \X (1..MaxQuantity) :
                           BlockingAt(u[1], i) /\ u[2] <= ask[u[1]].lines[t]}
  BY <1>1, ConstantsAssumption DEF Out
<1>3. IsFiniteSet(Requests \X (1..MaxQuantity))
  <2>1. IsFiniteSet(1..MaxQuantity)
    BY FS_Interval, ConstantsAssumption
  <2>2. QED
    BY <2>1, FS_Product, ConstantsAssumption
<1>4. IsFiniteSet(Out(t, i))
  BY <1>2, <1>3, FS_Subset
<1>5. UsageAt(t, i) = Cardinality(Out(t, i))
  BY DEF UsageAt, Out
<1>6. QED
  BY <1>2, <1>4, <1>5, FS_CardinalityType

\* Usage does not fall where all that is out at i is out at j as well.
LEMMA UsageGrows ==
  ASSUME TypeOK, HoldsConsistent, NEW t \in Types, NEW i \in Int, NEW j \in Int,
         \A d \in Requests : BlockingAt(d, i) /\ ask[d].lines[t] > 0 => BlockingAt(d, j)
  PROVE  UsageAt(t, i) <= UsageAt(t, j)
<1>1. Out(t, i) \subseteq Out(t, j)
  <2> SUFFICES ASSUME NEW u \in Requests \X (1..MaxQuantity),
                      BlockingAt(u[1], i), u[2] <= ask[u[1]].lines[t]
               PROVE  BlockingAt(u[1], j)
    BY OutFinite
  <2>1. ask[u[1]].lines[t] \in 0..MaxQuantity
    BY LineType, BlockingHasAsked DEF BlockingAt
  <2>2. QED
    BY <2>1, ConstantsAssumption
<1>2. QED
  BY <1>1, OutFinite, FS_Subset

\* Usage peaks where a booking starts: whatever is out at i is all out at the
\* latest of its starts.
LEMMA UsagePeaksAtStarts ==
  ASSUME TypeOK, HoldsConsistent, NEW t \in Types, NEW i \in Nat, UsageAt(t, i) > 0
  PROVE  \E d \in Requests :
           /\ BlockingAt(d, i) /\ ask[d].lines[t] > 0
           /\ \A e \in Requests : BlockingAt(e, i) /\ ask[e].lines[t] > 0 =>
                BlockingAt(e, ask[d].from) /\ ask[e].from <= ask[d].from
<1> DEFINE Here == {d \in Requests : BlockingAt(d, i) /\ ask[d].lines[t] > 0}
           Ages == {i - ask[d].from : d \in Here}
<1>1. \A d \in Here : ask[d].from \in Nat /\ ask[d].to \in Nat /\ ask[d].from <= i /\ i < ask[d].to
  BY LineType, BlockingHasAsked DEF BlockingAt
<1>2. Here # {}
  <2>1. Out(t, i) # {}
    BY OutFinite, FS_EmptySet
  <2>2. PICK u \in Requests \X (1..MaxQuantity) : BlockingAt(u[1], i) /\ u[2] <= ask[u[1]].lines[t]
    BY <2>1, OutFinite
  <2>3. ask[u[1]].lines[t] \in 0..MaxQuantity
    BY <2>2, LineType, BlockingHasAsked DEF BlockingAt
  <2>4. u[1] \in Here
    BY <2>2, <2>3, ConstantsAssumption
  <2>5. QED
    BY <2>4
<1>3. Ages \in SUBSET Nat /\ Ages # {}
  <2>1. \A d \in Here : i - ask[d].from \in Nat
    BY <1>1
  <2>2. QED
    BY <1>2, <2>1
<1>4. PICK n \in Ages : \A m \in Ages : n <= m
  BY <1>3, LeastNatural
<1>5. PICK d \in Here : n = i - ask[d].from
  BY <1>4
<1>6. ASSUME NEW e \in Here PROVE ask[e].from <= ask[d].from
  <2>1. i - ask[d].from <= i - ask[e].from
    BY <1>4, <1>5
  <2>2. QED
    BY <1>1, <2>1
<1>7. \A e \in Here : BlockingAt(e, ask[d].from)
  BY <1>1, <1>6 DEF BlockingAt
<1>8. QED
  BY <1>6, <1>7

-----------------------------------------------------------------------------
(* Row locks *)

\* A step of c's transaction keeps the locks in order if c gets no row that
\* somebody else has and no row out of turn.
LEMMA OrderLemma ==
  ASSUME TypeOK, LocksInOrder, NEW c \in Requests,
         UNCHANGED ask,
         \A d \in Requests \ {c} : tx'[d] = tx[d],
         \A d \in Requests \ {c} : tx'[c].locks \cap tx[d].locks = {},
         tx'[c].phase \in {"idle", "reading", "refused"} => tx'[c].locks = {},
         tx'[c].phase = "locking" =>
           \A t \in tx'[c].locks, u \in Wanted(c) \ tx'[c].locks : t < u
  PROVE  LocksInOrder'
<1>1. \A d \in Requests : Wanted(d)' = Wanted(d)
  BY DEF Wanted
<1>2. ASSUME NEW d \in Requests
      PROVE  /\ \A e \in Requests \ {d} : tx'[d].locks \cap tx'[e].locks = {}
             /\ tx'[d].phase \in {"idle", "reading", "refused"} => tx'[d].locks = {}
             /\ tx'[d].phase = "locking" =>
                  \A t \in tx'[d].locks, u \in Wanted(d)' \ tx'[d].locks : t < u
  <2>1. CASE d = c
    BY <1>1, <2>1
  <2>2. CASE d # c
    <3>1. tx'[d] = tx[d]
      BY <2>2
    <3>2. \A e \in Requests \ {d} : tx'[d].locks \cap tx'[e].locks = {}
      BY <2>2, <3>1 DEF LocksInOrder
    <3>3. QED
      BY <1>1, <3>1, <3>2 DEF LocksInOrder
  <2>3. QED
    BY <2>1, <2>2
<1>3. QED
  BY <1>2 DEF LocksInOrder

\* A transaction that lets go of every row, or keeps those it has while it
\* moves past lockTypes, keeps the order.
LEMMA OrderKept ==
  ASSUME TypeOK, LocksInOrder, NEW c \in Requests, UNCHANGED ask,
         \A d \in Requests \ {c} : tx'[d] = tx[d],
         \/ tx'[c].locks = {}
         \/ tx'[c].locks = tx[c].locks /\ tx'[c].phase \in {"ready", "placed", "checked"}
  PROVE  LocksInOrder'
  BY OrderLemma DEF LocksInOrder

\* Every step keeps the locks in order.
LEMMA OrderStep == TypeOK /\ HoldsConsistent /\ LocksInOrder /\ [Next]_vars => LocksInOrder'
<1> SUFFICES ASSUME TypeOK, HoldsConsistent, LocksInOrder, [Next]_vars PROVE LocksInOrder'
  OBVIOUS
<1>1. ASSUME NEW c \in Requests, NEW a \in Asks, Submit(c, a) PROVE LocksInOrder'
  <2>1. tx[c].phase = "idle"
    BY <1>1, ConstantsAssumption DEF Submit, HoldsConsistent, SlotsApart
  <2>2. /\ \A d \in Requests \ {c} : tx'[d] = tx[d] /\ ask'[d] = ask[d]
        /\ tx'[c].phase = "reading" /\ tx'[c].locks = {}
    BY <1>1, <2>1 DEF Submit, TypeOK, LocksInOrder
  <2>3. \A d \in Requests \ {c} : Wanted(d)' = Wanted(d)
    BY <2>2 DEF Wanted
  <2>4. QED
    BY <2>2, <2>3 DEF LocksInOrder
<1>2. ASSUME NEW c \in Requests, tx' = Ended(c) \/ tx' = Replayed(c), UNCHANGED ask
      PROVE  LocksInOrder'
  <2>1. \A d \in Requests \ {c} : tx'[d] = tx[d]
    BY <1>2, EndedLemma, ReplayedLemma
  <2>2. tx'[c].locks = {}
    BY <1>2, EndedLemma, ReplayedLemma
  <2>3. QED
    BY <1>2, <2>1, <2>2, OrderKept
<1>3. ASSUME NEW c \in Requests, ReadRoom(c) PROVE LocksInOrder'
  <2>1. CASE tx' = [tx EXCEPT ![c].phase = "locking"]
    <3>1. /\ tx[c].phase = "reading" /\ UNCHANGED ask
          /\ \A d \in Requests \ {c} : tx'[d] = tx[d]
          /\ tx'[c].locks = tx[c].locks
      BY <1>3, <2>1 DEF ReadRoom, TypeOK
    <3>2. tx'[c].locks = {}
      BY <3>1 DEF LocksInOrder
    <3>3. QED
      BY <3>1, <3>2, OrderKept
  <2>2. QED
    BY <1>2, <1>3, <2>1 DEF ReadRoom
<1>4. ASSUME NEW c \in Requests, LockType(c) PROVE LocksInOrder'
  <2>1. PICK t \in NextLocks(c) :
          /\ RowFree(c, t)
          /\ tx' = IF OnOffer(c, t) THEN [tx EXCEPT ![c].locks = @ \cup {t}] ELSE Ended(c)
    BY <1>4 DEF LockType
  <2>2. tx[c].phase = "locking" /\ UNCHANGED ask
    BY <1>4 DEF LockType
  <2>3. CASE tx' = [tx EXCEPT ![c].locks = @ \cup {t}]
    <3>1. /\ \A d \in Requests \ {c} : tx'[d] = tx[d]
          /\ tx'[c].locks = tx[c].locks \cup {t} /\ tx'[c].phase = "locking"
      BY <2>2, <2>3 DEF TypeOK
    <3>2. \A d \in Requests \ {c} : tx'[c].locks \cap tx[d].locks = {}
      BY <2>1, <3>1 DEF LocksInOrder, RowFree, LockedBy
    <3>3. \A u \in tx'[c].locks, v \in Wanted(c) \ tx'[c].locks : u < v
      <4>1. t \in Types /\ \A v \in Wanted(c) \ tx[c].locks : v \in Types /\ t <= v
        BY DEF NextLocks, Wanted
      <4>2. ASSUME NEW v \in Wanted(c) \ tx'[c].locks PROVE t < v
        <5>1. v \in Nat /\ t \in Nat /\ t <= v /\ t # v
          BY <3>1, <4>1, ConstantsAssumption
        <5>2. QED
          BY <5>1
      <4>3. QED
        BY <2>2, <3>1, <4>2 DEF LocksInOrder
    <3>4. QED
      BY <2>2, <3>1, <3>2, <3>3, OrderLemma
  <2>4. QED
    BY <1>2, <2>1, <2>2, <2>3
<1>5. ASSUME NEW c \in Requests, NEW p \in {"ready", "placed", "checked"},
             tx' = [tx EXCEPT ![c].phase = p], UNCHANGED ask
      PROVE  LocksInOrder'
  BY <1>5, OrderKept DEF TypeOK
<1>6. ASSUME NEW c \in Requests, Commit(c) PROVE LocksInOrder'
  BY <1>6, OrderKept DEF Commit, NoTx, TypeOK
<1>7. ASSUME UNCHANGED <<ask, tx>> PROVE LocksInOrder'
  BY <1>7 DEF LocksInOrder, Wanted
<1>8. ASSUME NEW c \in Requests, CheckStock(c) \/ PlaceEntry(c) \/ CheckOverlap(c) \/ StartUpdate(c)
      PROVE  LocksInOrder'
  BY <1>2, <1>5, <1>8 DEF CheckStock, PlaceEntry, CheckOverlap, StartUpdate
<1>9. ASSUME NEW c \in Requests, DeadlockVictim(c) \/ Crash(c) PROVE LocksInOrder'
  BY <1>2, <1>9 DEF DeadlockVictim, Crash
<1>10. QED
  BY <1>1, <1>3, <1>4, <1>6, <1>7, <1>8, <1>9
  DEF Next, HoldStep, Release, EditEquipment, EditRoom, vars

\* In a deadlock everybody waits for a part of it.
LEMMA EverybodyWaits ==
  ASSUME NEW S \in SUBSET Requests, Deadlocked(S), NEW c \in S
  PROVE  \E d \in S \ {c} : WaitsFor(c, d)
<1>1. S # {c}
  BY FS_Singleton DEF Deadlocked
<1>2. {c} \in SUBSET S /\ {c} # {} /\ {c} # S
  BY <1>1
<1>3. PICK x \in {c}, y \in S \ {c} : WaitsFor(x, y)
  BY <1>2 DEF Deadlocked
<1>4. QED
  BY <1>3

\* A deadlock with one hold that waits for stock would be all of holds that
\* do: those that wait for an index entry wait for nobody else.
LEMMA LockersWaitAmongThemselves ==
  ASSUME NEW S \in SUBSET Requests, Deadlocked(S), NEW c \in S, tx[c].phase # "placed"
  PROVE  \A d \in S : tx[d].phase = "locking"
<1>1. \A d \in S : tx[d].phase \in {"locking", "placed"}
  BY EverybodyWaits DEF WaitsFor
<1> DEFINE P == {d \in S : tx[d].phase = "placed"}
<1>2. CASE P # {}
  <2>1. P \in SUBSET S /\ P # S
    OBVIOUS
  <2>2. PICK x \in P, y \in S \ P : WaitsFor(x, y)
    BY <1>2, <2>1 DEF Deadlocked
  <2>3. InProgress(y)
    BY <2>2 DEF WaitsFor
  <2>4. QED
    BY <1>1, <2>2, <2>3 DEF InProgress
<1>3. QED
  BY <1>1, <1>2

\* Holds that lock stock wait upwards: whoever has the row I lock next locks a
\* higher one next.
LEMMA WaitsUpwards ==
  ASSUME LocksInOrder, NEW c \in Requests, NEW d \in Requests,
         tx[c].phase = "locking", tx[d].phase = "locking", WaitsFor(c, d)
  PROVE  \E t \in NextLocks(c) : \A u \in NextLocks(d) : t < u
<1>1. PICK t \in NextLocks(c) : t \in tx[d].locks
  BY DEF WaitsFor, LockedBy
<1>2. \A u \in NextLocks(d) : t < u
  BY <1>1 DEF LocksInOrder, NextLocks
<1>3. QED
  BY <1>2

\* A hold that waits for stock is never part of a deadlock: the highest row
\* anybody in it locks next would have a holder who locks a higher one.
LEMMA OrderedLocksDoNotDeadlock == LocksInOrder => StockLocksDoNotDeadlock
<1> SUFFICES ASSUME LocksInOrder, NEW S \in SUBSET Requests, Deadlocked(S),
                    NEW c \in S, tx[c].phase # "placed"
             PROVE  FALSE
  BY DEF StockLocksDoNotDeadlock
<1>1. \A d \in S : tx[d].phase = "locking"
  BY LockersWaitAmongThemselves
<1> DEFINE Nexts == {t \in Types : \E d \in S : t \in NextLocks(d)}
<1>2. \A d \in S : \E t \in Nexts : t \in NextLocks(d)
  <2>1. ASSUME NEW d \in S PROVE \E t \in Types : t \in NextLocks(d)
    <3>1. PICK e \in S \ {d} : WaitsFor(d, e)
      BY EverybodyWaits
    <3>2. PICK t \in NextLocks(d) : LockedBy(e, t)
      BY <1>1, <3>1 DEF WaitsFor
    <3>3. t \in Types
      BY DEF NextLocks, Wanted
    <3>4. QED
      BY <3>2, <3>3
  <2>2. QED
    BY <2>1
<1>3. Nexts \in SUBSET Nat /\ IsFiniteSet(Nexts) /\ Nexts # {}
  BY <1>2, FS_Subset, ConstantsAssumption
<1>4. PICK m \in Nexts : \A t \in Nexts : t <= m
  BY <1>3, GreatestNatural
<1>5. PICK d \in S : m \in NextLocks(d)
  BY <1>4
<1>6. PICK e \in S \ {d} : WaitsFor(d, e)
  BY EverybodyWaits
<1>7. PICK t \in NextLocks(d) : \A u \in NextLocks(e) : t < u
  BY <1>1, <1>5, <1>6, WaitsUpwards
<1>8. t = m
  <2>1. m \in Nat /\ t \in Nat /\ t <= m /\ m <= t
    BY <1>5, <1>7, ConstantsAssumption DEF NextLocks, Wanted
  <2>2. QED
    BY <2>1
<1>9. PICK u \in Nexts : u \in NextLocks(e)
  BY <1>2, <1>6
<1>10. m < u /\ u <= m /\ m \in Nat /\ u \in Nat
  BY <1>3, <1>4, <1>7, <1>8, <1>9
<1>11. QED
  BY <1>10

\* Nobody has locked anything at the start.
LEMMA OrderInit == Init => LocksInOrder
  BY DEF Init, LocksInOrder, NoTx

\* Locks stay in order, for any constants.
THEOREM LocksStayInOrder == Spec => []LocksInOrder
<1>1. Init => LocksInOrder
  BY OrderInit
<1>2. TypeOK /\ HoldsConsistent /\ LocksInOrder /\ [Next]_vars => LocksInOrder'
  BY OrderStep
<1>3. QED
  BY <1>1, <1>2, TypeCorrect, HoldsAlwaysConsistent, PTL DEF Spec

\* A hold that waits for stock is never part of a deadlock, whatever the
\* number of requests and types: lockTypes' ORDER BY id is enough.
THEOREM StockNeverDeadlocks == Spec => []StockLocksDoNotDeadlock
<1>1. LocksInOrder => StockLocksDoNotDeadlock
  BY OrderedLocksDoNotDeadlock
<1>2. QED
  BY <1>1, LocksStayInOrder, PTL

-----------------------------------------------------------------------------
(* The stock check *)

LEMMA CapacityType ==
  ASSUME TypeOK, NEW t \in Types
  PROVE  units[t] \in Nat /\ buffer[t] \in 0..100 /\ EffectiveCapacity(t) \in Int
<1>1. units[t] \in Nat /\ buffer[t] \in 0..100
  BY ConstantsAssumption DEF TypeOK
<1>2. units[t] * (1000 + buffer[t]) \in Int
  BY <1>1
<1>3. QED
  BY <1>1, <1>2 DEF EffectiveCapacity

\* Looking at the requested start and at the starts within the interval is
\* enough: at any instant of it, whatever is out has been since one of them.
LEMMA PeakLemma ==
  ASSUME TypeOK, HoldsConsistent, NEW a \in Asks, NEW t \in Types, Fits(t, a),
         NEW i \in a.from..(a.to - 1)
  PROVE  UsageAt(t, i) + a.lines[t] <= EffectiveCapacity(t)
<1>1. a.from \in Nat /\ a.to \in Nat /\ a.lines[t] \in Nat /\ i \in Nat /\ a.from <= i /\ i < a.to
  BY ConstantsAssumption
<1>2. UsageAt(t, i) \in Nat /\ EffectiveCapacity(t) \in Int
  BY <1>1, OutFinite, CapacityType
<1>3. a.from \in Points(t, a)
  BY DEF Points
<1>4. ASSUME NEW j \in Nat, j \in Points(t, a), UsageAt(t, i) <= UsageAt(t, j)
      PROVE  UsageAt(t, i) + a.lines[t] <= EffectiveCapacity(t)
  <2>1. UsageAt(t, j) \in Nat
    BY OutFinite
  <2>2. UsageAt(t, j) + a.lines[t] <= EffectiveCapacity(t)
    BY <1>4 DEF Fits
  <2>3. QED
    BY <1>1, <1>2, <1>4, <2>1, <2>2
<1>5. CASE UsageAt(t, i) = 0
  <2>1. UsageAt(t, a.from) \in Nat
    BY <1>1, OutFinite
  <2>2. QED
    BY <1>1, <1>3, <1>4, <1>5, <2>1
<1>6. CASE UsageAt(t, i) > 0
  <2>1. PICK d \in Requests :
           /\ BlockingAt(d, i) /\ ask[d].lines[t] > 0
           /\ \A e \in Requests : BlockingAt(e, i) /\ ask[e].lines[t] > 0 =>
                BlockingAt(e, ask[d].from) /\ ask[e].from <= ask[d].from
    BY <1>1, <1>6, UsagePeaksAtStarts
  <2>2. ask[d].from \in Nat /\ ask[d].to \in Nat /\ ask[d].from <= i /\ i < ask[d].to
    BY <2>1, LineType, BlockingHasAsked DEF BlockingAt
  <2>3. CASE a.from <= ask[d].from
    <3>1. ask[d].from \in Points(t, a)
      BY <1>1, <2>1, <2>2, <2>3 DEF Points, BlockingAt
    <3>2. UsageAt(t, i) <= UsageAt(t, ask[d].from)
      BY <1>1, <2>1, <2>2, UsageGrows
    <3>3. QED
      BY <1>4, <2>2, <3>1, <3>2
  <2>4. CASE ask[d].from < a.from
    <3>1. ASSUME NEW e \in Requests, BlockingAt(e, i), ask[e].lines[t] > 0
          PROVE  BlockingAt(e, a.from)
      <4>1. ask[e].from \in Nat /\ ask[e].to \in Nat /\ ask[e].from <= ask[d].from
        BY <2>1, <3>1, LineType, BlockingHasAsked DEF BlockingAt
      <4>2. QED
        BY <1>1, <2>2, <2>4, <3>1, <4>1 DEF BlockingAt
    <3>2. UsageAt(t, i) <= UsageAt(t, a.from)
      BY <1>1, <3>1, UsageGrows
    <3>3. QED
      BY <1>1, <1>3, <1>4, <3>2
  <2>5. QED
    BY <1>1, <2>2, <2>3, <2>4
<1>7. QED
  BY <1>2, <1>5, <1>6

\* peakUsage finds the peak, for any bookings, quantities and capacities.
THEOREM PeakAlwaysExact == Spec => []PeakIsExact
<1>1. TypeOK /\ HoldsConsistent => PeakIsExact
  BY PeakLemma DEF PeakIsExact
<1>2. QED
  BY <1>1, TypeCorrect, HoldsAlwaysConsistent, PTL

-----------------------------------------------------------------------------
(* INV-2 *)

\* A step after which nothing more is out takes no stock.
LEMMA UsageFalls ==
  ASSUME TypeOK, HoldsConsistent, NEW t \in Types, NEW i \in Int,
         \A d \in Requests : BlockingAt(d, i)' =>
           /\ ask'[d] = ask[d] /\ ask[d] \in Asks
           /\ ask[d].lines[t] > 0 => BlockingAt(d, i)
  PROVE  UsageAt(t, i)' \in Nat /\ UsageAt(t, i)' <= UsageAt(t, i)
<1>1. Out(t, i)' \subseteq Out(t, i)
  <2> SUFFICES ASSUME NEW d \in Requests, BlockingAt(d, i)', NEW u \in {d} \X (1..ask'[d].lines[t])
               PROVE  u \in Out(t, i)
    BY DEF Out
  <2>1. ask'[d] = ask[d] /\ ask[d] \in Asks
    OBVIOUS
  <2>2. ask[d].lines[t] \in 0..MaxQuantity
    BY <2>1, ConstantsAssumption
  <2>3. ask[d].lines[t] > 0
    BY <2>1, <2>2, ConstantsAssumption
  <2>4. BlockingAt(d, i)
    BY <2>3
  <2>5. QED
    BY <2>1, <2>4 DEF Out
<1>2. UsageAt(t, i)' = Cardinality(Out(t, i)')
  BY DEF UsageAt, Out
<1>3. QED
  BY <1>1, <1>2, OutFinite, FS_Subset, FS_CardinalityType

\* A step that adds c's booking takes at most what c asked for.
LEMMA UsageRises ==
  ASSUME TypeOK, HoldsConsistent, NEW t \in Types, NEW i \in Int,
         NEW c \in Requests, ask[c] \in Asks, UNCHANGED ask,
         \A d \in Requests \ {c} : BlockingAt(d, i)' => BlockingAt(d, i)
  PROVE  UsageAt(t, i)' \in Nat /\ UsageAt(t, i)' <= UsageAt(t, i) + ask[c].lines[t]
<1> DEFINE Own == {c} \X (1..ask[c].lines[t])
<1>1. ask[c].lines[t] \in Nat
  BY ConstantsAssumption
<1>2. IsFiniteSet(Own) /\ Cardinality(Own) = ask[c].lines[t]
  <2>1. IsFiniteSet(1..ask[c].lines[t]) /\ Cardinality(1..ask[c].lines[t]) = ask[c].lines[t]
    <3>1. /\ IsFiniteSet(1..ask[c].lines[t])
          /\ Cardinality(1..ask[c].lines[t])
               = IF 1 > ask[c].lines[t] THEN 0 ELSE ask[c].lines[t] - 1 + 1
      <4>1. 1 \in Int /\ ask[c].lines[t] \in Int
        BY <1>1
      <4>2. QED
        BY <4>1, FS_Interval, Zenon
    <3>2. QED
      BY <1>1, <3>1
  <2>2. IsFiniteSet({c}) /\ Cardinality({c}) = 1
    BY FS_Singleton
  <2>3. IsFiniteSet(Own) /\ Cardinality(Own) = Cardinality({c}) * Cardinality(1..ask[c].lines[t])
    BY <2>1, <2>2, FS_Product
  <2>4. QED
    BY <1>1, <2>1, <2>2, <2>3
<1>3. Out(t, i)' \subseteq Out(t, i) \cup Own
  BY DEF Out
<1>4. IsFiniteSet(Out(t, i)) /\ UsageAt(t, i) = Cardinality(Out(t, i)) /\ UsageAt(t, i) \in Nat
  BY OutFinite
<1> HIDE DEF Own
<1>5. /\ IsFiniteSet(Out(t, i) \cup Own)
      /\ Cardinality(Out(t, i) \cup Own) <= UsageAt(t, i) + ask[c].lines[t]
  <2>1. IsFiniteSet(Out(t, i) \cap Own) /\ Cardinality(Out(t, i) \cap Own) \in Nat
    BY <1>4, FS_Subset, FS_CardinalityType
  <2>2. /\ IsFiniteSet(Out(t, i) \cup Own)
        /\ Cardinality(Out(t, i) \cup Own)
             = Cardinality(Out(t, i)) + Cardinality(Own) - Cardinality(Out(t, i) \cap Own)
    BY <1>2, <1>4, FS_Union
  <2>3. QED
    BY <1>1, <1>2, <1>4, <2>1, <2>2
<1>6. UsageAt(t, i)' = Cardinality(Out(t, i)')
  BY DEF UsageAt, Out
<1>7. Cardinality(Out(t, i) \cup Own) \in Nat
  BY <1>5, FS_CardinalityType
<1>8. IsFiniteSet(Out(t, i)') /\ Cardinality(Out(t, i)') <= Cardinality(Out(t, i) \cup Own)
  BY <1>3, <1>5, FS_Subset
<1>9. Cardinality(Out(t, i)') \in Nat
  BY <1>8, FS_CardinalityType
<1>10. QED
  BY <1>1, <1>4, <1>5, <1>6, <1>7, <1>8, <1>9

\* No step brings back a booking that is over.
LEMMA OverStep == TypeOK /\ HoldsConsistent /\ OverIsOver /\ [Next]_vars => OverIsOver'
<1> SUFFICES ASSUME TypeOK, HoldsConsistent, OverIsOver, [Next]_vars PROVE OverIsOver'
  OBVIOUS
<1>1. ASSUME NEW c \in Requests, NEW a \in Asks, Submit(c, a) PROVE OverIsOver'
  <2>1. booking[c] = "none"
    BY <1>1, ConstantsAssumption DEF Submit, HoldsConsistent, SlotsApart
  <2>2. QED
    BY <1>1, <2>1 DEF Submit, TypeOK, OverIsOver
<1>2. ASSUME NEW c \in Requests, UNCHANGED booking, tx[c].phase # "idle" \/ booking[c] # "released",
             \A d \in Requests \ {c} : tx'[d] = tx[d]
      PROVE  OverIsOver'
  BY <1>2 DEF OverIsOver
<1>3. ASSUME NEW c \in Requests, ReadRoom(c) \/ CheckStock(c) \/ CheckOverlap(c) \/ Crash(c)
      PROVE  OverIsOver'
  <2>1. tx[c].phase # "idle" /\ UNCHANGED booking
    BY <1>3 DEF ReadRoom, CheckStock, CheckOverlap, Crash
  <2>2. \A d \in Requests \ {c} : tx'[d] = tx[d]
    BY <1>3, EndedLemma DEF ReadRoom, CheckStock, CheckOverlap, Crash, TypeOK
  <2>3. QED
    BY <1>2, <2>1, <2>2
<1>4. ASSUME NEW c \in Requests, LockType(c) PROVE OverIsOver'
  <2>1. tx[c].phase # "idle" /\ UNCHANGED booking
    BY <1>4 DEF LockType
  <2>2. \A d \in Requests \ {c} : tx'[d] = tx[d]
    BY <1>4, EndedLemma DEF LockType, TypeOK
  <2>3. QED
    BY <1>2, <2>1, <2>2
<1>5. ASSUME NEW c \in Requests, DeadlockVictim(c) PROVE OverIsOver'
  BY <1>2, <1>5, ReplayedLemma DEF DeadlockVictim
<1>6. ASSUME NEW c \in Requests, PlaceEntry(c) \/ StartUpdate(c) PROVE OverIsOver'
  <2>1. (tx[c].phase # "idle" \/ booking[c] # "released") /\ UNCHANGED booking
    BY <1>6 DEF PlaceEntry, StartUpdate
  <2>2. \A d \in Requests \ {c} : tx'[d] = tx[d]
    BY <1>6 DEF PlaceEntry, StartUpdate, TypeOK
  <2>3. QED
    BY <1>2, <2>1, <2>2
<1>7. ASSUME NEW c \in Requests, Commit(c) PROVE OverIsOver'
  BY <1>7 DEF Commit, NoTx, TypeOK, OverIsOver
<1>8. ASSUME NEW c \in Requests, Release(c) PROVE OverIsOver'
  BY <1>8 DEF Release, TypeOK, OverIsOver
<1>9. ASSUME UNCHANGED <<booking, tx>> PROVE OverIsOver'
  BY <1>9 DEF OverIsOver
<1>10. QED
  BY <1>1, <1>3, <1>4, <1>5, <1>6, <1>7, <1>8, <1>9
  DEF Next, HoldStep, EditEquipment, EditRoom, vars

\* Only a commit takes stock.
LEMMA OnlyCommitsTake ==
  ASSUME TypeOK, HoldsConsistent, [Next]_vars, NEW t \in Types, NEW i \in Int,
         \A c \in Requests : ~Commit(c)
  PROVE  UsageAt(t, i)' \in Nat /\ UsageAt(t, i)' <= UsageAt(t, i)
<1>1. CASE \E c \in Requests, a \in Asks : Submit(c, a)
  <2>1. PICK c \in Requests, a \in Asks : Submit(c, a)
    BY <1>1
  <2>2. booking[c] = "none"
    BY <2>1, ConstantsAssumption DEF Submit, HoldsConsistent, SlotsApart
  <2>3. \A d \in Requests \ {c} : ask'[d] = ask[d]
    BY <2>1 DEF Submit, TypeOK
  <2>4. booking' = booking
    BY <2>1 DEF Submit
  <2>5. \A d \in Requests : BlockingAt(d, i)' =>
          ask'[d] = ask[d] /\ ask[d] \in Asks /\ BlockingAt(d, i)
    BY <2>2, <2>3, <2>4, BlockingHasAsked DEF BlockingAt
  <2>6. QED
    BY <2>5, UsageFalls
<1>2. CASE \A c \in Requests, a \in Asks : ~Submit(c, a)
  <2>1. UNCHANGED ask /\ \A d \in Requests : booking'[d] = "blocking" => booking[d] = "blocking"
    BY <1>2 DEF Next, HoldStep, ReadRoom, LockType, CheckStock, PlaceEntry, CheckOverlap,
       DeadlockVictim, StartUpdate, Release, Crash, EditEquipment, EditRoom, vars, TypeOK
  <2>2. \A d \in Requests : BlockingAt(d, i)' =>
          ask'[d] = ask[d] /\ ask[d] \in Asks /\ BlockingAt(d, i)
    BY <2>1, BlockingHasAsked DEF BlockingAt
  <2>3. QED
    BY <2>2, UsageFalls
<1>3. QED
  BY <1>1, <1>2

\* A commit takes no more than a new booking's types, for its time.
LEMMA CommitTakes ==
  ASSUME TypeOK, HoldsConsistent, OverIsOver, NEW c \in Requests, Commit(c),
         NEW t \in Types, NEW i \in Int,
         ~(booking[c] = "none" /\ t \in Wanted(c) /\ i \in ask[c].from..(ask[c].to - 1))
  PROVE  UsageAt(t, i)' \in Nat /\ UsageAt(t, i)' <= UsageAt(t, i)
<1>1. /\ tx[c].phase = "checked" /\ UNCHANGED ask
      /\ \A d \in Requests \ {c} : booking'[d] = booking[d]
  BY DEF Commit, TypeOK
<1>2. booking[c] \in {"none", "blocking"} /\ ask[c] \in Asks
  BY <1>1 DEF OverIsOver, TypeOK, HoldsConsistent, SlotsApart
<1>3. ask[c].from \in Nat /\ ask[c].to \in Nat /\ ask[c].lines[t] \in Nat
  BY <1>2, ConstantsAssumption
<1>4. \A d \in Requests \ {c} : BlockingAt(d, i)' => BlockingAt(d, i) /\ ask[d] \in Asks
  BY <1>1, BlockingHasAsked DEF BlockingAt
<1>5. BlockingAt(c, i)' => (ask[c].lines[t] > 0 => BlockingAt(c, i))
  BY <1>1, <1>2, <1>3 DEF BlockingAt, Wanted
<1>6. QED
  BY <1>1, <1>2, <1>4, <1>5, UsageFalls

\* The units, the buffer and so the capacity of a type do not change while a
\* hold has its row.
LEMMA CapacityKept ==
  ASSUME TypeOK, [Next]_vars, NEW t \in Types,
         \/ \E c \in Requests : LockedBy(c, t)
         \/ \A n \in Units, b \in Buffers, active \in BOOLEAN : ~EditEquipment(t, n, b, active)
  PROVE  /\ units'[t] = units[t] /\ buffer'[t] = buffer[t]
         /\ EffectiveCapacity(t)' = EffectiveCapacity(t)
<1>1. CASE UNCHANGED stockVars
  BY <1>1 DEF EffectiveCapacity, stockVars
<1>2. ASSUME NEW u \in Types, NEW n \in Units, NEW b \in Buffers, NEW active \in BOOLEAN,
             EditEquipment(u, n, b, active)
      PROVE  /\ units'[t] = units[t] /\ buffer'[t] = buffer[t]
             /\ EffectiveCapacity(t)' = EffectiveCapacity(t)
  <2>1. t # u
    BY <1>2 DEF EditEquipment
  <2>2. units'[t] = units[t] /\ buffer'[t] = buffer[t]
    BY <1>2, <2>1 DEF EditEquipment, TypeOK
  <2>3. QED
    BY <2>2 DEF EffectiveCapacity
<1>3. QED
  BY <1>1, <1>2 DEF Next, HoldStep, Submit, ReadRoom, LockType, CheckStock, PlaceEntry, CheckOverlap,
     Commit, DeadlockVictim, StartUpdate, Release, Crash, EditRoom, vars, stockVars

\* A hold that passes its stock check, or has passed it, has asked, has its
\* rows, and fits at every instant of its interval.
LEMMA ReservedNow ==
  ASSUME TypeOK, HoldsConsistent, StockReserved, [Next]_vars, NEW c \in Requests,
         tx'[c].phase \in {"ready", "placed", "checked"}, booking'[c] = "none"
  PROVE  /\ booking[c] = "none" /\ ask'[c] = ask[c] /\ ask[c] \in Asks
         /\ Wanted(c) \subseteq tx[c].locks
         /\ \A t \in Wanted(c), i \in ask[c].from..(ask[c].to - 1) :
              UsageAt(t, i) + ask[c].lines[t] <= EffectiveCapacity(t)
<1>1. booking[c] = "none"
  BY DEF Next, HoldStep, Submit, ReadRoom, LockType, CheckStock, PlaceEntry, CheckOverlap,
     Commit, DeadlockVictim, StartUpdate, Release, Crash, EditEquipment, EditRoom, vars, TypeOK
<1>2. \/ tx[c].phase \in {"ready", "placed", "checked"} /\ ask'[c] = ask[c]
      \/ CheckStock(c) /\ tx' = [tx EXCEPT ![c].phase = "ready"]
  <2>1. ASSUME NEW d \in Requests, NEW a \in Asks, Submit(d, a)
        PROVE  tx[c].phase \in {"ready", "placed", "checked"} /\ ask'[c] = ask[c]
    <3>1. d # c
      BY <2>1 DEF Submit, TypeOK
    <3>2. tx'[c] = tx[c] /\ ask'[c] = ask[c]
      BY <2>1, <3>1 DEF Submit, TypeOK
    <3>3. QED
      BY <3>2
  <2>2. ASSUME NEW d \in Requests, tx' = Ended(d) \/ tx' = Replayed(d), UNCHANGED ask
        PROVE  tx[c].phase \in {"ready", "placed", "checked"} /\ ask'[c] = ask[c]
    <3>1. d # c
      <4>1. Ended(c)[c].phase = "refused" /\ Replayed(c)[c].phase \in {"reading", "refused"}
        BY <1>1, EndedLemma, ReplayedLemma
      <4>2. QED
        BY <2>2, <4>1
    <3>2. tx'[c] = tx[c]
      <4>1. Ended(d)[c] = tx[c] /\ Replayed(d)[c] = tx[c]
        BY <3>1, EndedLemma, ReplayedLemma
      <4>2. QED
        BY <2>2, <4>1
    <3>3. QED
      BY <2>2, <3>2
  <2>3. ASSUME NEW d \in Requests, ReadRoom(d)
        PROVE  tx[c].phase \in {"ready", "placed", "checked"} /\ ask'[c] = ask[c]
    BY <2>2, <2>3 DEF ReadRoom, TypeOK
  <2>4. ASSUME NEW d \in Requests, LockType(d)
        PROVE  tx[c].phase \in {"ready", "placed", "checked"} /\ ask'[c] = ask[c]
    <3>1. UNCHANGED ask /\ tx[d].phase = "locking"
      BY <2>4 DEF LockType
    <3>2. PICK t \in Types : tx' = [tx EXCEPT ![d].locks = @ \cup {t}] \/ tx' = Ended(d)
      BY <2>4 DEF LockType, NextLocks, Wanted
    <3>3. QED
      BY <2>2, <3>1, <3>2 DEF TypeOK
  <2>5. ASSUME NEW d \in Requests, CheckStock(d), d # c
        PROVE  tx[c].phase \in {"ready", "placed", "checked"} /\ ask'[c] = ask[c]
    BY <2>2, <2>5 DEF CheckStock, TypeOK
  <2>6. ASSUME CheckStock(c), ~(tx' = [tx EXCEPT ![c].phase = "ready"])
        PROVE  tx[c].phase \in {"ready", "placed", "checked"} /\ ask'[c] = ask[c]
    BY <2>2, <2>6 DEF CheckStock
  <2>7. ASSUME NEW d \in Requests, PlaceEntry(d) \/ CheckOverlap(d) \/ Crash(d) \/ DeadlockVictim(d)
        PROVE  tx[c].phase \in {"ready", "placed", "checked"} /\ ask'[c] = ask[c]
    BY <2>2, <2>7 DEF PlaceEntry, CheckOverlap, Crash, DeadlockVictim, TypeOK
  <2>8. ASSUME NEW d \in Requests, StartUpdate(d) \/ Commit(d)
        PROVE  tx[c].phase \in {"ready", "placed", "checked"} /\ ask'[c] = ask[c]
    BY <1>1, <2>8 DEF StartUpdate, Commit, NoTx, TypeOK
  <2>9. QED
    BY <2>1, <2>3, <2>4, <2>5, <2>6, <2>7, <2>8
    DEF Next, HoldStep, Release, EditEquipment, EditRoom, vars
<1>3. CASE tx[c].phase \in {"ready", "placed", "checked"} /\ ask'[c] = ask[c]
  BY <1>1, <1>3 DEF StockReserved, HoldsConsistent, StockHeld, SlotsApart
<1>4. CASE CheckStock(c) /\ tx' = [tx EXCEPT ![c].phase = "ready"]
  <2>1. /\ tx[c].phase = "locking" /\ UNCHANGED ask /\ Wanted(c) \subseteq tx[c].locks
    BY <1>4 DEF CheckStock
  <2>2. ask[c] \in Asks
    BY <2>1 DEF HoldsConsistent, SlotsApart
  <2>3. Ended(c)[c].phase = "refused"
    BY <1>1, EndedLemma
  <2>4. \A t \in Wanted(c) : Fits(t, ask[c])
    BY <1>4, <2>3 DEF CheckStock, TypeOK
  <2>5. \A t \in Wanted(c) : t \in Types
    BY DEF Wanted
  <2>6. QED
    BY <1>1, <2>1, <2>2, <2>4, <2>5, PeakLemma
<1>5. QED
  BY <1>2, <1>3, <1>4

\* What a hold has found stays so: nobody else can commit units of a type whose
\* row it has, or edit that type.
LEMMA ReservedStep ==
  TypeOK /\ HoldsConsistent /\ LocksInOrder /\ OverIsOver /\ StockReserved /\ [Next]_vars
    => StockReserved'
<1> SUFFICES ASSUME TypeOK, HoldsConsistent, LocksInOrder, OverIsOver, StockReserved, [Next]_vars,
                    NEW c \in Requests,
                    tx'[c].phase \in {"ready", "placed", "checked"}, booking'[c] = "none",
                    NEW t \in Wanted(c)', NEW i \in ask'[c].from..(ask'[c].to - 1)
             PROVE  UsageAt(t, i)' + ask'[c].lines[t] <= EffectiveCapacity(t)'
  BY DEF StockReserved
<1>1. /\ booking[c] = "none" /\ ask'[c] = ask[c] /\ ask[c] \in Asks
      /\ Wanted(c) \subseteq tx[c].locks
      /\ \A u \in Wanted(c), j \in ask[c].from..(ask[c].to - 1) :
           UsageAt(u, j) + ask[c].lines[u] <= EffectiveCapacity(u)
  BY ReservedNow
<1>2. t \in Types /\ t \in Wanted(c) /\ i \in ask[c].from..(ask[c].to - 1)
  BY <1>1 DEF Wanted
<1>3. i \in Int /\ ask[c].lines[t] \in Nat
  BY <1>1, <1>2, ConstantsAssumption
<1>4. EffectiveCapacity(t)' = EffectiveCapacity(t)
  BY <1>1, <1>2, CapacityKept DEF LockedBy
<1>5. UsageAt(t, i)' \in Nat /\ UsageAt(t, i)' <= UsageAt(t, i)
  <2>1. ASSUME NEW d \in Requests, Commit(d) PROVE UsageAt(t, i)' \in Nat /\ UsageAt(t, i)' <= UsageAt(t, i)
    <3>1. d # c
      BY <2>1 DEF Commit, TypeOK
    <3>2. ~(booking[d] = "none" /\ t \in Wanted(d))
      <4>1. tx[d].phase = "checked"
        BY <2>1 DEF Commit
      <4>2. booking[d] = "none" => Wanted(d) \subseteq tx[d].locks
        BY <4>1 DEF HoldsConsistent, StockHeld
      <4>3. tx[c].locks \cap tx[d].locks = {}
        BY <3>1 DEF LocksInOrder
      <4>4. QED
        BY <1>1, <1>2, <4>2, <4>3
    <3>3. QED
      BY <1>2, <1>3, <2>1, <3>2, CommitTakes
  <2>2. CASE \A d \in Requests : ~Commit(d)
    BY <1>2, <1>3, <2>2, OnlyCommitsTake
  <2>3. QED
    BY <2>1, <2>2
<1>6. UsageAt(t, i) \in Nat /\ EffectiveCapacity(t) \in Int
  BY <1>2, <1>3, OutFinite, CapacityType
<1>7. UsageAt(t, i) + ask[c].lines[t] <= EffectiveCapacity(t)
  BY <1>1, <1>2
<1>8. QED
  BY <1>1, <1>3, <1>4, <1>5, <1>6, <1>7

\* The inductive invariant holds, for any constants: locks stay in order, what
\* is over stays over, and what a hold's stock check found stands.
THEOREM InvariantHolds == Spec => []IInv
<1>1. Init => OverIsOver /\ StockReserved
  <2> SUFFICES ASSUME Init PROVE OverIsOver /\ StockReserved
    OBVIOUS
  <2>1. \A c \in Requests : booking[c] = "none" /\ tx[c].phase = "idle"
    BY DEF Init, NoTx
  <2>2. QED
    BY <2>1 DEF OverIsOver, StockReserved
<1>2. TypeOK /\ HoldsConsistent /\ LocksInOrder /\ OverIsOver /\ StockReserved /\ [Next]_vars
        => OverIsOver' /\ StockReserved'
  BY OverStep, ReservedStep
<1>3. QED
  BY <1>1, <1>2, TypeCorrect, HoldsAlwaysConsistent, LocksStayInOrder, PTL DEF Spec, IInv

\* At every instant, no type is out in more units than its capacity.
AllWithin == \A t \in Types, i \in Nat : UsageAt(t, i) <= EffectiveCapacity(t)

\* The capacity of n units with an overbooking buffer of b thousandths.
CapacityOf(n, b) == (n * (1000 + b)) \div 1000

\* Capacity is never below the units.
LEMMA CapacityCovers ==
  ASSUME NEW n \in Nat, NEW b \in 0..100
  PROVE  CapacityOf(n, b) \in Int /\ n <= CapacityOf(n, b)
<1>1. n * (1000 + b) \in Nat /\ n * b \in Nat
  OBVIOUS
<1>2. n * (1000 + b) = 1000 * n + n * b
  OBVIOUS
<1>3. QED
  BY <1>1, <1>2 DEF CapacityOf

\* It grows with the units and with the buffer.
LEMMA CapacityGrows ==
  ASSUME NEW k \in Nat, NEW n \in Nat, NEW a \in 0..100, NEW b \in 0..100, k <= n, a <= b
  PROVE  CapacityOf(k, a) <= CapacityOf(n, b)
<1>1. /\ n * (1000 + b) \in Nat /\ k * (1000 + a) \in Nat
      /\ n * b \in Nat /\ n * a \in Nat /\ k * a \in Nat
  OBVIOUS
<1>2. n * (1000 + b) = 1000 * n + n * b /\ k * (1000 + a) = 1000 * k + k * a
  OBVIOUS
<1>3. k * a <= n * a /\ n * a <= n * b
  OBVIOUS
<1>4. k * (1000 + a) <= n * (1000 + b)
  BY <1>1, <1>2, <1>3
<1>5. ASSUME NEW x \in Nat, NEW y \in Nat, x <= y PROVE x \div 1000 <= y \div 1000
  BY <1>5
<1>6. QED
  BY <1>1, <1>4, <1>5 DEF CapacityOf

\* What is out of a type only grows up to its capacity, and its units are only
\* lowered to what is out: a commit adds what was checked and reserved, and the
\* console's edit compares units_owned with the peaks.
LEMMA UsageStep ==
  ASSUME TypeOK, HoldsConsistent, OverIsOver, StockReserved, [Next]_vars,
         NEW t \in Types, NEW i \in Nat
  PROVE  /\ UsageAt(t, i)' \in Nat /\ units'[t] \in Nat /\ buffer'[t] \in 0..100
         /\ \/ UsageAt(t, i)' <= UsageAt(t, i) /\ units[t] <= units'[t]
            \/ UsageAt(t, i)' <= units'[t]
            \/ /\ UsageAt(t, i)' <= EffectiveCapacity(t)
               /\ units'[t] = units[t] /\ buffer'[t] = buffer[t]
<1>1. /\ UsageAt(t, i) \in Nat /\ EffectiveCapacity(t) \in Int
      /\ units[t] \in Nat /\ buffer[t] \in 0..100
  BY OutFinite, CapacityType
<1>2. ASSUME NEW c \in Requests, Commit(c)
      PROVE  /\ UsageAt(t, i)' \in Nat
             /\ units'[t] = units[t] /\ buffer'[t] = buffer[t]
             /\ UsageAt(t, i)' <= UsageAt(t, i) \/ UsageAt(t, i)' <= EffectiveCapacity(t)
  <2>1. units'[t] = units[t] /\ buffer'[t] = buffer[t]
    BY <1>2 DEF Commit, stockVars
  <2>2. CASE booking[c] = "none" /\ t \in Wanted(c) /\ i \in ask[c].from..(ask[c].to - 1)
    <3>1. /\ tx[c].phase = "checked" /\ UNCHANGED ask
          /\ \A d \in Requests \ {c} : booking'[d] = booking[d]
      BY <1>2 DEF Commit, TypeOK
    <3>2. ask[c] \in Asks
      BY <3>1 DEF HoldsConsistent, SlotsApart
    <3>3. \A d \in Requests \ {c} : BlockingAt(d, i)' => BlockingAt(d, i)
      BY <3>1 DEF BlockingAt
    <3>4. UsageAt(t, i)' \in Nat /\ UsageAt(t, i)' <= UsageAt(t, i) + ask[c].lines[t]
      BY <3>1, <3>2, <3>3, UsageRises
    <3>5. UsageAt(t, i) + ask[c].lines[t] <= EffectiveCapacity(t)
      BY <2>2, <3>1 DEF StockReserved
    <3>6. ask[c].lines[t] \in Nat
      BY <3>2, ConstantsAssumption
    <3>7. QED
      BY <1>1, <2>1, <3>4, <3>5, <3>6
  <2>3. CASE ~(booking[c] = "none" /\ t \in Wanted(c) /\ i \in ask[c].from..(ask[c].to - 1))
    BY <1>2, <2>1, <2>3, CommitTakes
  <2>4. QED
    BY <2>2, <2>3
<1>3. ASSUME NEW n \in Units, NEW b \in Buffers, NEW active \in BOOLEAN, EditEquipment(t, n, b, active)
      PROVE  /\ UsageAt(t, i)' \in Nat /\ units'[t] \in Nat /\ buffer'[t] \in 0..100
             /\ \/ UsageAt(t, i)' <= UsageAt(t, i) /\ units[t] <= units'[t]
                \/ UsageAt(t, i)' <= units'[t]
  <2>1. units'[t] = n /\ buffer'[t] = b /\ n \in Nat /\ b \in 0..100
    BY <1>3, CapacityType, ConstantsAssumption DEF EditEquipment, TypeOK
  <2>2. \A d \in Requests : ~Commit(d)
    BY <1>3 DEF EditEquipment, Commit, TypeOK, NoTx
  <2>3. UsageAt(t, i)' \in Nat /\ UsageAt(t, i)' <= UsageAt(t, i)
    BY <2>2, OnlyCommitsTake
  <2>4. CASE units[t] <= n
    BY <2>1, <2>3, <2>4
  <2>5. CASE n < units[t] /\ UsageAt(t, i) > 0
    <3>1. PICK d \in Requests :
             /\ BlockingAt(d, i) /\ ask[d].lines[t] > 0
             /\ \A e \in Requests : BlockingAt(e, i) /\ ask[e].lines[t] > 0 =>
                  BlockingAt(e, ask[d].from) /\ ask[e].from <= ask[d].from
      BY <2>5, UsagePeaksAtStarts
    <3>2. ask[d].from \in Nat
      BY <3>1, LineType, BlockingHasAsked DEF BlockingAt
    <3>3. UsageAt(t, i) <= UsageAt(t, ask[d].from) /\ UsageAt(t, ask[d].from) \in Nat
      BY <3>1, <3>2, UsageGrows, OutFinite
    <3>4. UsageAt(t, ask[d].from) <= n
      BY <1>3, <2>5, <3>1 DEF EditEquipment, CommittedPeakWithin, BlockingAt
    <3>5. QED
      BY <1>1, <2>1, <2>3, <3>3, <3>4
  <2>6. CASE UsageAt(t, i) = 0
    BY <2>1, <2>3, <2>6
  <2>7. QED
    BY <1>1, <2>1, <2>4, <2>5, <2>6
<1>4. CASE /\ \A c \in Requests : ~Commit(c)
           /\ \A n \in Units, b \in Buffers, active \in BOOLEAN : ~EditEquipment(t, n, b, active)
  <2>1. UsageAt(t, i)' \in Nat /\ UsageAt(t, i)' <= UsageAt(t, i)
    BY <1>4, OnlyCommitsTake
  <2>2. units'[t] = units[t] /\ buffer'[t] = buffer[t]
    BY <1>4, CapacityKept
  <2>3. QED
    BY <1>1, <2>1, <2>2
<1>5. QED
  BY <1>1, <1>2, <1>3, <1>4

\* INV-2 is inductive while buffers are not lowered.
LEMMA WithinStep ==
  ASSUME TypeOK, HoldsConsistent, OverIsOver, StockReserved, AllWithin, [Next]_vars,
         \A t \in Types : buffer[t] <= buffer'[t],
         NEW t \in Types, NEW i \in Nat
  PROVE  UsageAt(t, i)' <= EffectiveCapacity(t)'
<1>1. /\ UsageAt(t, i) \in Nat /\ EffectiveCapacity(t) \in Int
      /\ units[t] \in Nat /\ buffer[t] \in 0..100
      /\ UsageAt(t, i) <= EffectiveCapacity(t)
  BY OutFinite, CapacityType DEF AllWithin
<1>2. /\ EffectiveCapacity(t)' = CapacityOf(units'[t], buffer'[t])
      /\ EffectiveCapacity(t) = CapacityOf(units[t], buffer[t])
  BY DEF EffectiveCapacity, CapacityOf
<1>3. UsageAt(t, i)' \in Nat /\ units'[t] \in Nat /\ buffer'[t] \in 0..100
  BY UsageStep
<1>4. /\ units'[t] <= EffectiveCapacity(t)'
      /\ units[t] <= units'[t] => EffectiveCapacity(t) <= EffectiveCapacity(t)'
      /\ EffectiveCapacity(t)' \in Int
  <2>1. buffer[t] <= buffer'[t]
    OBVIOUS
  <2>2. units'[t] <= CapacityOf(units'[t], buffer'[t]) /\ CapacityOf(units'[t], buffer'[t]) \in Int
    BY <1>3, CapacityCovers
  <2>3. ASSUME units[t] <= units'[t]
        PROVE  CapacityOf(units[t], buffer[t]) <= CapacityOf(units'[t], buffer'[t])
    BY <1>1, <1>3, <2>1, <2>3, CapacityGrows
  <2>4. QED
    BY <1>2, <2>2, <2>3
<1>5. \/ UsageAt(t, i)' <= UsageAt(t, i) /\ units[t] <= units'[t]
      \/ UsageAt(t, i)' <= units'[t]
      \/ UsageAt(t, i)' <= EffectiveCapacity(t) /\ units'[t] = units[t]
  BY UsageStep
<1>6. QED
  BY <1>1, <1>3, <1>4, <1>5

\* No type is out in more units than its own would be with a buffer of m.
WithinBuffer(m) == \A t \in Types, i \in Nat : UsageAt(t, i) <= CapacityOf(units[t], m)

\* That is inductive for any m that no buffer is set above, however buffers
\* are edited.
LEMMA WithinBufferStep ==
  ASSUME NEW m \in 0..100, \A b \in Buffers : b <= m,
         TypeOK, HoldsConsistent, OverIsOver, StockReserved, WithinBuffer(m), [Next]_vars
  PROVE  WithinBuffer(m)'
<1> SUFFICES ASSUME NEW t \in Types, NEW i \in Nat
             PROVE  UsageAt(t, i)' <= CapacityOf(units'[t], m)
  BY DEF WithinBuffer
<1>1. /\ UsageAt(t, i) \in Nat /\ units[t] \in Nat
      /\ buffer[t] \in 0..100 /\ buffer[t] <= m
      /\ UsageAt(t, i) <= CapacityOf(units[t], m)
  BY OutFinite, CapacityType DEF WithinBuffer, TypeOK
<1>2. UsageAt(t, i)' \in Nat /\ units'[t] \in Nat
  BY UsageStep
<1>3. EffectiveCapacity(t) <= CapacityOf(units[t], m) /\ EffectiveCapacity(t) \in Int
  <2>1. EffectiveCapacity(t) = CapacityOf(units[t], buffer[t])
    BY DEF EffectiveCapacity, CapacityOf
  <2>2. units[t] <= units[t]
    BY <1>1
  <2>3. QED
    BY <1>1, <2>1, <2>2, CapacityCovers, CapacityGrows
<1>4. /\ units'[t] <= CapacityOf(units'[t], m)
      /\ units[t] <= units'[t] => CapacityOf(units[t], m) <= CapacityOf(units'[t], m)
      /\ CapacityOf(units[t], m) \in Int /\ CapacityOf(units'[t], m) \in Int
  <2>1. m <= m
    OBVIOUS
  <2>2. QED
    BY <1>1, <1>2, <2>1, CapacityCovers, CapacityGrows
<1>5. \/ UsageAt(t, i)' <= UsageAt(t, i) /\ units[t] <= units'[t]
      \/ UsageAt(t, i)' <= units'[t]
      \/ UsageAt(t, i)' <= EffectiveCapacity(t) /\ units'[t] = units[t]
  BY UsageStep
<1>6. QED
  BY <1>1, <1>2, <1>3, <1>4, <1>5

\* Nothing is out at the start.
LEMMA WithinInit == Init => AllWithin
<1> SUFFICES ASSUME Init, NEW t \in Types, NEW i \in Nat PROVE UsageAt(t, i) <= EffectiveCapacity(t)
  BY DEF AllWithin
<1>1. TypeOK /\ HoldsConsistent
  BY TypeInit, HoldsInit
<1>2. Out(t, i) = {}
  BY DEF Init, Out, BlockingAt
<1>3. UsageAt(t, i) = 0
  BY <1>1, <1>2, OutFinite, FS_EmptySet
<1>4. units[t] \in Nat /\ buffer[t] \in 0..100
  BY <1>1, CapacityType
<1>5. units[t] <= EffectiveCapacity(t) /\ EffectiveCapacity(t) \in Int
  <2>1. EffectiveCapacity(t) = CapacityOf(units[t], buffer[t])
    BY DEF EffectiveCapacity, CapacityOf
  <2>2. QED
    BY <1>4, <2>1, CapacityCovers
<1>6. QED
  BY <1>3, <1>4, <1>5

\* INV-2 for any types, quantities, stock and interleaving, as long as nobody
\* lowers an overbooking buffer: that edit is the one the code does not guard.
THEOREM EquipmentStaysWithinCapacity == Spec /\ BuffersNotLowered => []EquipmentWithinCapacity
<1>1. Init => AllWithin
  BY WithinInit
<1>2. /\ TypeOK /\ HoldsConsistent /\ OverIsOver /\ StockReserved /\ AllWithin /\ [Next]_vars
      /\ [\A t \in Types : buffer[t] <= buffer'[t]]_vars
      => AllWithin'
  <2> SUFFICES ASSUME TypeOK, HoldsConsistent, OverIsOver, StockReserved, AllWithin, [Next]_vars,
                      [\A t \in Types : buffer[t] <= buffer'[t]]_vars
               PROVE  AllWithin'
    OBVIOUS
  <2>1. \A t \in Types : buffer[t] \in Int /\ (UNCHANGED vars => buffer'[t] = buffer[t])
    BY CapacityType DEF vars, stockVars
  <2>2. \A t \in Types : buffer[t] <= buffer'[t]
    BY <2>1
  <2>3. \A t \in Types, i \in Nat : UsageAt(t, i)' <= EffectiveCapacity(t)'
    BY <2>2, WithinStep
  <2>4. QED
    BY <2>3 DEF AllWithin
<1>3. TypeOK /\ HoldsConsistent /\ AllWithin => EquipmentWithinCapacity
  <2> SUFFICES ASSUME TypeOK, HoldsConsistent, AllWithin,
                      NEW t \in Types, NEW d \in Requests, booking[d] = "blocking",
                      NEW i \in ask[d].from..ask[d].to
               PROVE  UsageAt(t, i) <= EffectiveCapacity(t)
    BY DEF EquipmentWithinCapacity
  <2>1. i \in Nat
    BY LineType, BlockingHasAsked
  <2>2. QED
    BY <2>1 DEF AllWithin
<1>4. QED
  BY <1>1, <1>2, <1>3, InvariantHolds, PTL DEF Spec, BuffersNotLowered, IInv

\* INV-2 as far as it holds of every run: however buffers are edited, no type
\* is ever out in more units than the largest buffer would allow.
THEOREM UseBoundedByLargestBuffer ==
  ASSUME NEW m \in 0..100, \A b \in Buffers : b <= m
  PROVE  Spec => []WithinBuffer(m)
<1>1. Init => WithinBuffer(m)
  <2> SUFFICES ASSUME Init, NEW t \in Types, NEW i \in Nat
               PROVE  UsageAt(t, i) <= CapacityOf(units[t], m)
    BY DEF WithinBuffer
  <2>1. TypeOK /\ UsageAt(t, i) <= EffectiveCapacity(t)
    BY TypeInit, WithinInit DEF AllWithin
  <2>2. /\ units[t] \in Nat /\ buffer[t] \in 0..100 /\ buffer[t] <= m
        /\ EffectiveCapacity(t) = CapacityOf(units[t], buffer[t])
    BY <2>1, CapacityType DEF TypeOK, EffectiveCapacity, CapacityOf
  <2>3. /\ EffectiveCapacity(t) <= CapacityOf(units[t], m)
        /\ EffectiveCapacity(t) \in Int /\ CapacityOf(units[t], m) \in Int
    <3>1. units[t] <= units[t]
      BY <2>2
    <3>2. QED
      BY <2>2, <3>1, CapacityCovers, CapacityGrows
  <2>4. UsageAt(t, i) \in Nat
    BY <2>1, HoldsInit, OutFinite
  <2>5. QED
    BY <2>1, <2>3, <2>4
<1>2. TypeOK /\ HoldsConsistent /\ OverIsOver /\ StockReserved /\ WithinBuffer(m) /\ [Next]_vars
      => WithinBuffer(m)'
  BY WithinBufferStep
<1>3. QED
  BY <1>1, <1>2, InvariantHolds, PTL DEF Spec, IInv
=============================================================================
