------------------------ MODULE MCTransferProjection ------------------------
(* Instance of TransferProjection for TLC. *)
EXTENDS TransferProjection

CONSTANTS t1, c1, c2, r1

TransferEvent(type) == [eventType |-> type, stage |-> "DEBIT"]

MCHistory ==
    [t \in Streams |-> << TransferEvent("TransferInitiated"),
                          TransferEvent("TransferDebitStarted"),
                          TransferEvent("TransferFailed") >>]

MCLength == [t \in Streams |-> Len(MCHistory[t])]

MCReplay ==
    [t \in Streams |->
        LET f[n \in 0..MCLength[t]] ==
                IF n = 0 THEN NewTransfer
                ELSE TransferWhen(f[n - 1], MCHistory[t][n].eventType, MCHistory[t][n].stage)
        IN f]

\* One clock, and two processes whose clocks differ so that the last event looks older.
MCClocks ==
    { [e \in T!Events |-> e.version],
      [e \in T!Events |-> IF e.version = 3 THEN 1 ELSE e.version] }
=============================================================================
