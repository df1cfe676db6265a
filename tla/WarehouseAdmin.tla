---------------------------- MODULE WarehouseAdmin ----------------------------
(***************************************************************************)
(* Warehouse together with its admin site, where staff edit an inventory   *)
(* row or a reservation.                                                   *)
(*                                                                         *)
(* A form shows the row as it was when the page was opened, and saving it  *)
(* writes every editable column back, the ones nobody touched included: no *)
(* lock, no movement, no check against the handlers' rules, only the       *)
(* CheckConstraint of the table.  So after a save the counters may         *)
(* disagree with the ledger and with the reservations, and the defensive   *)
(* branches of Warehouse, dead code without staff, come alive.             *)
(*                                                                         *)
(* Left out: forms that add or delete rows, that move an inventory to      *)
(* another book, or that edit a reservation's order or key, movements and  *)
(* returns.                                                                *)
(***************************************************************************)
EXTENDS Warehouse

CONSTANTS
    NoForm,     \* no form is open
    MaxTyped,   \* bound: numbers typed into a form
    MaxForms    \* bound: forms opened

ASSUME AdminAssumption ==
    /\ MaxTyped \in Nat /\ MaxForms \in Nat
    /\ NoForm \notin [book : Books, quantity : Nat, reserved : Nat]
    /\ NoForm \notin [order : Orders, status : Statuses]

VARIABLES
    stockForm,        \* an inventory form and what it shows
    reservationForm,  \* a reservation form and what it shows
    opened            \* forms opened so far

staff == <<stockForm, reservationForm, opened>>
adminVars == <<vars, staff>>

AdminInit == Init /\ stockForm = NoForm /\ reservationForm = NoForm /\ opened = 0

-----------------------------------------------------------------------------
(* InventoryAdmin                                                           *)

OpenStockForm(b) ==
    /\ stockForm = NoForm /\ opened < MaxForms /\ listing[b] # "absent"
    /\ stockForm' = [book |-> b, quantity |-> quantity[b], reserved |-> reserved[b]]
    /\ opened' = opened + 1
    /\ UNCHANGED <<vars, reservationForm>>

FaultAnyCounters(q, r) == TRUE
ValidCounters(q, r) == r <= q

\* Each field is as it was shown or as staff retyped it.
SaveStockForm(q, r) ==
    /\ stockForm # NoForm
    /\ q \in 0..MaxTyped \cup {stockForm.quantity}
    /\ r \in 0..MaxTyped \cup {stockForm.reserved}
    /\ ValidCounters(q, r)
    /\ quantity' = [quantity EXCEPT ![stockForm.book] = q]
    /\ reserved' = [reserved EXCEPT ![stockForm.book] = r]
    /\ stockForm' = NoForm
    /\ UNCHANGED <<listing, movements, reservations, created, returns, task,
                   reservationForm, opened>>

-----------------------------------------------------------------------------
(* ReservationAdmin                                                         *)

OpenReservationForm(o) ==
    /\ reservationForm = NoForm /\ opened < MaxForms /\ Exists(o)
    /\ reservationForm' = [order |-> o, status |-> reservations[o].status]
    /\ opened' = opened + 1
    /\ UNCHANGED <<vars, stockForm>>

\* No handler writes expires_at, so only retyping it changes whether it is past.
SaveReservationForm(status, due) ==
    LET o == reservationForm.order IN
    /\ reservationForm # NoForm
    /\ reservations' = [reservations EXCEPT ![o].status = status, ![o].due = due]
    /\ reservationForm' = NoForm
    /\ UNCHANGED <<listing, stock, created, returns, task, stockForm, opened>>

-----------------------------------------------------------------------------
Handlers == Next /\ UNCHANGED staff

AdminNext ==
    \/ Handlers
    \/ \E b \in Books : OpenStockForm(b)
    \/ \E q, r \in 0..(MaxTyped + MaxReceived + MaxAdjusted) : SaveStockForm(q, r)
    \/ \E o \in Orders : OpenReservationForm(o)
    \/ \E status \in Statuses \ {"NONE"}, due \in BOOLEAN :
          SaveReservationForm(status, due)

AdminFairness ==
    \A w \in Workers :
       /\ WF_adminVars(StartExpiry(w) /\ UNCHANGED staff)
       /\ WF_adminVars((\E o \in Orders : ExpireNext(w, o)) /\ UNCHANGED staff)

AdminSpec == AdminInit /\ [][AdminNext]_adminVars /\ AdminFairness

-----------------------------------------------------------------------------
(* Properties *)

\* How far each counter of a book is from what the movements say, and the
\* reserved one from what the pending reservations hold.
Drift ==
    [b \in Books |->
       [quantity |-> quantity[b] - (movements[b]["receipt"] + movements[b]["write_off"]
                       + movements[b]["adjustment"] + movements[b]["sale"]
                       + movements[b]["return"]),
        reserved |-> reserved[b] - (movements[b]["sale"] - movements[b]["reservation"]
                       - movements[b]["reservation_release"]),
        held |-> reserved[b] - SumFunctionOnSet([o \in Orders |-> Items(o)[b]],
                       {o \in Orders : reservations[o].status = "PENDING"})]]

\* A mistake of staff stays what it was: once the counters, the ledger and the
\* reservations disagree, no handler and no expiry makes that larger, smaller
\* or different, whatever it sells, releases or refuses.
OnlyFormsMisstate ==
    [][Drift' # Drift =>
          \/ stockForm # NoForm /\ stockForm' = NoForm
          \/ reservationForm # NoForm /\ reservationForm' = NoForm]_adminVars

\* One reservation whose units a form has taken away does not keep the expiry
\* task from releasing the others.
CoveredIsReleased ==
    \A o \in Orders : []<>~(o \in Overdue /\ Releasable(o))

=============================================================================
