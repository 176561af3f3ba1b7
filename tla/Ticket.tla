------------------------------- MODULE Ticket -------------------------------
(***************************************************************************)
(* The ticket contract (contracts/ticket/src/lib.rs): an organizer sells   *)
(* seats at a face price that the contract keeps in escrow; a seat can be  *)
(* resold once, is used at the door, and is refunded when the event is     *)
(* cancelled.  A contract call is one atomic step; one that traps, a token *)
(* transfer included, leaves no trace.                                     *)
(***************************************************************************)
EXTENDS Integers, FiniteSets

CONSTANTS
    People,        \* addresses that can authorise a call
    TicketSelf,    \* the contract's own address
    Prices,        \* amounts that callers name
    MaxSeats,      \* bound: max_tickets
    Purse          \* bound: what each person holds of the payment token at first

ASSUME TicketAssumption ==
    /\ TicketSelf \notin People /\ Prices \subseteq Int
    /\ MaxSeats \in Nat /\ Purse \in Nat
    /\ People # {}

VARIABLES
    event,      \* STATUS ("none" before initialize)
    terms,      \* ADMIN, MAX_TIX, PRICE, MAXRESALE
    nextId,     \* NEXT_ID
    seat,       \* the stored tickets, by id
    purse,      \* the payment token's balances
    admitted    \* history: seats that verify_ticket answered true for

ticketVars == <<event, terms, nextId, seat, purse, admitted>>

NoTerms == [admin |-> TicketSelf, max |-> 0, price |-> 0, resale |-> 0]
NoSeat  == [owner |-> TicketSelf, status |-> "none"]
SeatIds == 0..(MaxSeats - 1)
Wallets == People \cup {TicketSelf}

TicketInit ==
    /\ event = "none" /\ terms = NoTerms /\ nextId = 0
    /\ seat = [i \in SeatIds |-> NoSeat]
    /\ purse = [a \in Wallets |-> IF a = TicketSelf THEN 0 ELSE Purse]
    /\ admitted = {}

\* token::Client::transfer
TokenTransfer(from, to, amount) ==
    /\ 0 <= amount /\ amount <= purse[from]
    /\ purse' = IF from = to THEN purse
                ELSE [purse EXCEPT ![from] = @ - amount, ![to] = @ + amount]

initialize(admin, max, price, resale) ==
    /\ event = "none"
    /\ price > 0 /\ resale >= price
    /\ event' = "active"
    /\ terms' = [admin |-> admin, max |-> max, price |-> price, resale |-> resale]
    /\ UNCHANGED <<nextId, seat, purse, admitted>>

\* Every other call of the organizer's asserts an active event.
OrganizerCall == event = "active"

mint_ticket(recipient) ==
    /\ OrganizerCall
    /\ nextId < terms.max
    /\ TokenTransfer(recipient, TicketSelf, terms.price)
    /\ seat' = [seat EXCEPT ![nextId] = [owner |-> recipient, status |-> "valid"]]
    /\ nextId' = nextId + 1
    /\ UNCHANGED <<event, terms, admitted>>

\* The seller pays the sale price, to the organizer.
transfer_ticket(i, to, price) ==
    /\ event = "active"
    /\ i < nextId
    /\ seat[i].status = "valid"
    /\ price <= terms.resale /\ price > 0
    /\ TokenTransfer(seat[i].owner, terms.admin, price)
    /\ seat' = [seat EXCEPT ![i] = [owner |-> to, status |-> "transferred"]]
    /\ UNCHANGED <<event, terms, nextId, admitted>>

\* A seat in any other status is answered with false and left alone.
verify_ticket(i) ==
    /\ OrganizerCall
    /\ i < nextId /\ seat[i].status \in {"valid", "transferred"}
    /\ seat' = [seat EXCEPT ![i].status = "used"]
    /\ admitted' = admitted \cup {i}
    /\ UNCHANGED <<event, terms, nextId, purse>>

complete_event ==
    /\ OrganizerCall
    /\ event' = "completed"
    /\ UNCHANGED <<terms, nextId, seat, purse, admitted>>

\* Mutant: seats already used at the door are refunded as well.
RefundableWithUsed == {i \in 0..(nextId - 1) : seat[i].status # "cancelled"}

Refundable == {i \in 0..(nextId - 1) : seat[i].status \notin {"used", "cancelled"}}

RefundOf(a) == terms.price * Cardinality({i \in Refundable : seat[i].owner = a})

\* The loop refunds each seat's current owner; one transfer that fails undoes all.
cancel_event ==
    /\ OrganizerCall
    /\ terms.price * Cardinality(Refundable) <= purse[TicketSelf]
    /\ purse' = [a \in Wallets |->
                    IF a = TicketSelf THEN purse[a] - terms.price * Cardinality(Refundable)
                    ELSE purse[a] + RefundOf(a)]
    /\ seat' = [i \in SeatIds |-> IF i \in Refundable THEN [seat[i] EXCEPT !.status = "cancelled"]
                                  ELSE seat[i]]
    /\ event' = "cancelled"
    /\ UNCHANGED <<terms, nextId, admitted>>

TicketNext ==
    \/ \E admin \in People, max \in 0..MaxSeats, price, resale \in Prices :
          initialize(admin, max, price, resale)
    \/ \E p \in People : mint_ticket(p)
    \/ \E i \in SeatIds : \/ verify_ticket(i)
                          \/ \E to \in People, price \in Prices : transfer_ticket(i, to, price)
    \/ complete_event
    \/ cancel_event

TicketSpec == TicketInit /\ [][TicketNext]_ticketVars
-----------------------------------------------------------------------------
(* Properties. *)

Seats == [owner : People, status : {"valid", "transferred", "used", "cancelled"}]

TicketTypeOK ==
    /\ event \in {"none", "active", "completed", "cancelled"}
    /\ terms \in [admin : Wallets, max : 0..MaxSeats, price : Nat, resale : Nat]
    /\ nextId \in 0..MaxSeats
    /\ seat \in [SeatIds -> Seats \cup {NoSeat}]
    /\ \A i \in SeatIds : i < nextId <=> seat[i] # NoSeat
    /\ purse \in [Wallets -> Nat]
    /\ admitted \subseteq 0..(nextId - 1)

\* Seats whose price is still in escrow.
Unrefunded == {i \in 0..(nextId - 1) : seat[i].status # "cancelled"}

\* "Cancel the event and refund every current ticket holder from escrow": over any
\* order of sales, resales and admissions the contract holds exactly the face price
\* of every seat not refunded, so a cancellation can always pay, and a seat that was
\* used at the door is never refunded.
EscrowExact ==
    /\ purse[TicketSelf] = terms.price * Cardinality(Unrefunded)
    /\ \A i \in admitted : seat[i].status = "used"
=============================================================================
