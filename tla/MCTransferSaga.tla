--------------------------- MODULE MCTransferSaga ---------------------------
(* Instances of TransferSaga for TLC. *)
EXTENDS TransferSaga

CONSTANTS t1, t2, alice, bob, carol, c1, c2

\* Two transfers out of one account that holds enough for one of them.
MCSource == [t \in Transfers |-> alice]
MCDestination == [t \in Transfers |-> IF t = t1 THEN bob ELSE carol]
MCAmount == [t \in Transfers |-> 150]
MCInitialBalance == [a \in Accounts |-> IF a = alice THEN 200 ELSE 0]
=============================================================================
