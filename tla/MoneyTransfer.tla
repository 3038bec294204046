---------------------------- MODULE MoneyTransfer ----------------------------
(***************************************************************************)
(* What a transfer promises about money.  The amount leaves the source     *)
(* once, and then either arrives at the destination or goes back to the    *)
(* source, once; a transfer that is rejected moved nothing.                *)
(***************************************************************************)
EXTENDS Integers

CONSTANTS Transfers, Accounts, Source, Destination, Amount, InitialBalance

VARIABLES
    phase,      \* how far each transfer is
    balance     \* the balance of each account in minor units

vars == <<phase, balance>>

Init ==
    /\ phase = [t \in Transfers |-> "absent"]
    /\ balance = [a \in Accounts |-> InitialBalance[a]]

Move(t, from, to) ==
    /\ phase[t] = from
    /\ phase' = [phase EXCEPT ![t] = to]

Request(t) == Move(t, "absent", "requested") /\ UNCHANGED balance

Reject(t) == Move(t, "requested", "rejected") /\ UNCHANGED balance

Take(t) ==
    /\ Move(t, "requested", "inTransit")
    /\ balance[Source[t]] >= Amount[t]
    /\ balance' = [balance EXCEPT ![Source[t]] = @ - Amount[t]]

Deliver(t) ==
    /\ Move(t, "inTransit", "delivered")
    /\ balance' = [balance EXCEPT ![Destination[t]] = @ + Amount[t]]

GiveBack(t) ==
    /\ Move(t, "inTransit", "returned")
    /\ balance' = [balance EXCEPT ![Source[t]] = @ + Amount[t]]

Next == \E t \in Transfers :
    Request(t) \/ Reject(t) \/ Take(t) \/ Deliver(t) \/ GiveBack(t)

Spec == Init /\ [][Next]_vars
=============================================================================
