---------------------------- MODULE MCCommandApi ----------------------------
(* Instances of CommandApi for TLC: one account, every mix of keys and bodies. *)
EXTENDS CommandApi, TLC

CONSTANTS acc1, USD, tx1, tx2

Send(type, minorUnits, transactionId) ==
    [command |-> [type |-> type, amount |-> FormatMinorUnitsToMoney(minorUnits), currency |-> USD],
     accountId |-> acc1, transactionId |-> transactionId]

\* A withdrawal that only the deposit makes possible, one that is always covered,
\* under the transaction id of the deposit, and a command without transaction.
MCBodies ==
    {Send("withdraw", 100, tx2), Send("deposit", 50, tx1), Send("withdraw", 50, tx1),
     Send("freeze", 0, NoTransaction)}

MCSymmetry == Permutations(Requests) \cup Permutations(Keys)
=============================================================================
