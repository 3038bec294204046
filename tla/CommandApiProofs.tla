-------------------------- MODULE CommandApiProofs --------------------------
(***************************************************************************)
(* TLAPS proofs about CommandApi, for any number of requests, keys,        *)
(* transactions, failing calls and crashes.                                *)
(*                                                                         *)
(* A request claims a transaction while it holds the record it inserted,   *)
(* for good if its command was committed, and for good if it was rejected. *)
(* A claim needs a record (ClaimReserved) and records are never deleted,   *)
(* so at most one request ever claims a transaction (ClaimUnique).         *)
(*                                                                         *)
(* Three more invariants say that the answers are true: what is accepted   *)
(* was done (DoneOK), a key belongs to one request (KeyOwned), and an open *)
(* record to one that has not told its client how it ended (OpenOK).       *)
(***************************************************************************)
EXTENDS CommandApi, AccountAggregateProofs

-----------------------------------------------------------------------------
(* The inductive invariant *)

Holding == {"handler", "completeTransaction", "failTransaction"}

Claims(r) ==
    IsMovement(BodyOf(r)) /\ (r \in committed \/ pc[r] \in Holding \/ err[r] = "rejected")

Reserved(t) == registry[t].status # "NONE"

ClaimReserved == \A r \in Requests : Claims(r) => Reserved(TransactionOf(r))

ClaimUnique ==
    \A r, q \in Requests :
        Claims(r) /\ Claims(q) /\ TransactionOf(r) = TransactionOf(q) => r = q

\* An error is known when a catch block runs, and a rejected command is none that
\* was committed.
ErrorKnownOf(r) ==
    /\ pc[r] \in {"failTransaction", "failKey"} => err[r] # "none"
    /\ pc[r] \in {"new", "reserveTransaction", "handler"} => err[r] = "none" /\ r \notin committed
    /\ err[r] = "rejected" => r \notin committed
    /\ answer[r] = "rejected" => err[r] = "rejected"

ErrorKnown == \A r \in Requests : ErrorKnownOf(r)

IInv == TypeOK /\ ClaimReserved /\ ClaimUnique /\ ErrorKnown

-----------------------------------------------------------------------------
(* Typing *)

\* The parts of TypeOK that the steps of a request change.
LocalType ==
    /\ pc \in [Requests -> PCs]
    /\ err \in [Requests -> Answers]
    /\ answer \in [Requests -> Answers]
    /\ \A r \in Requests : answer[r] # "none" <=> pc[r] = "done"

LEMMA GotoType ==
    ASSUME LocalType, NEW r \in Requests, NEW label \in PCs \ {"done"}, pc[r] # "done", Goto(r, label)
    PROVE  LocalType'
BY DEF LocalType, Goto

LEMMA ThrowType ==
    ASSUME LocalType, NEW r \in Requests, NEW label \in PCs \ {"done"}, NEW e \in Answers,
           pc[r] # "done", Throw(r, label, e)
    PROVE  LocalType'
BY DEF LocalType, Throw

LEMMA ReplyType ==
    ASSUME LocalType, NEW r \in Requests, NEW a \in Answers \ {"none"}, Reply(r, a)
    PROVE  LocalType'
BY DEF LocalType, Reply, PCs

\* What a request refers to is there.
LEMMA RequestType ==
    ASSUME TypeOK, NEW r \in Requests
    PROVE  /\ KeyOf(r) \in Keys /\ BodyOf(r) \in Bodies
           /\ BodyOf(r).command \in Command /\ BodyOf(r).accountId \in Accounts
           /\ IsMovement(BodyOf(r)) <=> TransactionOf(r) \in Transactions
<1>1. request[r] \in [key : Keys, body : Bodies]
  BY DEF TypeOK
<1>2. KeyOf(r) \in Keys /\ BodyOf(r) \in Bodies
  BY <1>1 DEF KeyOf, BodyOf
<1>3. BodyOf(r) \in Body
  BY <1>2, ApiAssumption
<1>4. QED
  BY <1>2, <1>3, ApiAssumption DEF Body, TransactionOf

LEMMA SetKeyType ==
    ASSUME TypeOK, NEW r \in Requests, NEW status \in KeyStatus, SetKey(r, status)
    PROVE  keys' \in [Keys -> [status : KeyStatus, body : Bodies \cup {NoBody}]]
BY RequestType DEF SetKey, TypeOK

\* A write to a transaction record keeps its type, and no record ever vanishes.
LEMMA SetTransactionType ==
    ASSUME TypeOK, NEW r \in Requests, NEW status \in TransactionStatus \ {"NONE"},
           SetTransaction(r, status)
    PROVE  /\ registry' \in [Transactions -> [status : TransactionStatus, body : Bodies \cup {NoBody}]]
           /\ \A t \in Transactions : Reserved(t) => Reserved(t)'
<1>1. registry \in [Transactions -> [status : TransactionStatus, body : Bodies \cup {NoBody}]]
  BY DEF TypeOK
<1>2. registry' = [registry EXCEPT ![TransactionOf(r)] = [registry[TransactionOf(r)] EXCEPT !.status = status]]
  BY DEF SetTransaction
<1>3. CASE TransactionOf(r) \in Transactions
  <2>1. [registry[TransactionOf(r)] EXCEPT !.status = status]
           \in [status : TransactionStatus, body : Bodies \cup {NoBody}]
    BY <1>1, <1>3
  <2>2. [registry[TransactionOf(r)] EXCEPT !.status = status].status = status
    BY <1>1, <1>3
  <2>3. QED
    BY <1>1, <1>2, <1>3, <2>1, <2>2 DEF Reserved
<1>4. CASE TransactionOf(r) \notin Transactions
  BY <1>1, <1>2, <1>4 DEF Reserved
<1>5. QED
  BY <1>3, <1>4

LEMMA NewTransactionType ==
    ASSUME TypeOK, NEW r \in Requests, NewTransaction(r)
    PROVE  /\ registry' \in [Transactions -> [status : TransactionStatus, body : Bodies \cup {NoBody}]]
           /\ \A t \in Transactions : Reserved(t) \/ t = TransactionOf(r) => Reserved(t)'
<1>1. BodyOf(r) \in Bodies
  BY RequestType
<1>2. QED
  BY <1>1 DEF NewTransaction, TypeOK, TransactionStatus, Reserved

LEMMA CommitCommandType ==
    ASSUME TypeOK, NEW r \in Requests, CommitCommand(r)
    PROVE  account' \in [Accounts -> AccountState] /\ committed' = committed \cup {r}
<1> DEFINE a == BodyOf(r).accountId
           event == MakeEvent(account[a], BodyOf(r).command, KeyOf(r))
<1>1. a \in Accounts /\ account[a] \in AccountState /\ BodyOf(r).command \in Command
  BY RequestType DEF TypeOK
<1>2. event \in Event({KeyOf(r)})
  BY <1>1, MakeEventType
<1>3. When(account[a], event) \in AccountState
  BY <1>1, <1>2, WhenType
<1>4. account' = [account EXCEPT ![a] = When(account[a], event)] /\ committed' = committed \cup {r}
  BY DEF CommitCommand
<1> HIDE DEF event
<1>5. QED
  BY <1>1, <1>3, <1>4 DEF TypeOK

-----------------------------------------------------------------------------
(* Steps *)

\* No step makes a record of a transaction vanish.
KeepsRecords == \A t \in Transactions : Reserved(t) => Reserved(t)'

\* Everybody but r stays where it is.
OthersStay(r) ==
    \A q \in Requests \ {r} :
        /\ pc'[q] = pc[q] /\ err'[q] = err[q] /\ answer'[q] = answer[q]
        /\ q \in committed' <=> q \in committed

\* A step of r that claims no transaction r did not claim before.
LEMMA NoNewClaim ==
    ASSUME IInv, TypeOK', NEW r \in Requests, UNCHANGED request, KeepsRecords, OthersStay(r),
           Claims(r)' => Claims(r), ErrorKnownOf(r)'
    PROVE  IInv'
<1>1. \A q \in Requests : Claims(q)' => Claims(q)
  BY DEF OthersStay, Claims, BodyOf
<1>2. \A q \in Requests : Claims(q) => TransactionOf(q) \in Transactions
  BY RequestType DEF IInv, Claims
<1>3. ClaimReserved'
  BY <1>1, <1>2 DEF IInv, ClaimReserved, KeepsRecords, TransactionOf, BodyOf
<1>4. ClaimUnique'
  BY <1>1 DEF IInv, ClaimUnique, TransactionOf, BodyOf
<1>5. ErrorKnown'
  BY DEF IInv, ErrorKnown, ErrorKnownOf, OthersStay
<1>6. QED
  BY <1>3, <1>4, <1>5 DEF IInv

LEMMA GotoStays ==
    ASSUME TypeOK, NEW r \in Requests, NEW label, Goto(r, label),
           committed' = committed \/ committed' = committed \cup {r}
    PROVE  OthersStay(r) /\ pc'[r] = label /\ err'[r] = err[r] /\ answer'[r] = answer[r]
BY DEF TypeOK, Goto, OthersStay

LEMMA ThrowStays ==
    ASSUME TypeOK, NEW r \in Requests, NEW label, NEW e, Throw(r, label, e),
           committed' = committed \/ committed' = committed \cup {r}
    PROVE  OthersStay(r) /\ pc'[r] = label /\ err'[r] = e /\ answer'[r] = answer[r]
BY DEF TypeOK, Throw, OthersStay

LEMMA ReplyStays ==
    ASSUME TypeOK, NEW r \in Requests, NEW a, Reply(r, a),
           committed' = committed \/ committed' = committed \cup {r}
    PROVE  OthersStay(r) /\ pc'[r] = "done" /\ err'[r] = err[r] /\ answer'[r] = a
BY DEF TypeOK, Reply, OthersStay

\* TypeOK, put together again from its parts.
LEMMA JoinType ==
    ASSUME TypeOK, LocalType', UNCHANGED request,
           keys' \in [Keys -> [status : KeyStatus, body : Bodies \cup {NoBody}]],
           registry' \in [Transactions -> [status : TransactionStatus, body : Bodies \cup {NoBody}]],
           account' \in [Accounts -> AccountState], committed' \subseteq Requests,
           faults' \in 0 .. MaxFaults, crashes' \in 0 .. MaxCrashes
    PROVE  TypeOK'
BY DEF TypeOK, LocalType

\* Before its answer a request has none.
LEMMA Unanswered ==
    ASSUME IInv, NEW r \in Requests, pc[r] # "done"
    PROVE  answer[r] = "none"
BY DEF IInv, TypeOK

LEMMA ReserveKeyIInv ==
    ASSUME IInv, NEW r \in Requests, ReserveKey(r)
    PROVE  IInv'
<1>1. TypeOK /\ LocalType /\ pc[r] = "new" /\ answer[r] = "none"
  BY Unanswered DEF IInv, TypeOK, LocalType, ReserveKey
<1>2. UNCHANGED <<registry, account, request, committed, faults, crashes>>
  BY DEF ReserveKey
<1>3. KeepsRecords
  BY <1>2 DEF KeepsRecords, Reserved
<1>4. CASE SetKey(r, "IN_PROGRESS")
             /\ Goto(r, IF IsMovement(BodyOf(r)) THEN "reserveTransaction" ELSE "handler")
  <2>1. PICK label : /\ label = IF IsMovement(BodyOf(r)) THEN "reserveTransaction" ELSE "handler"
                     /\ Goto(r, label)
    BY <1>4
  <2>2. TypeOK'
    BY <1>1, <1>2, <1>4, <2>1, GotoType, SetKeyType, JoinType DEF TypeOK, PCs, KeyStatus
  <2>3. OthersStay(r) /\ pc'[r] = label /\ err'[r] = err[r] /\ answer'[r] = answer[r]
    BY <1>1, <1>2, <2>1, GotoStays
  <2>4. ErrorKnownOf(r)'
    BY <1>1, <1>2, <2>1, <2>3 DEF IInv, ErrorKnown, ErrorKnownOf
  <2>5. Claims(r)' => Claims(r)
    BY <1>2, <2>1, <2>3 DEF Claims, Holding, BodyOf
  <2>6. QED
    BY <1>2, <1>3, <2>2, <2>3, <2>4, <2>5, NoNewClaim
<1>5. CASE Reply(r, KeyAnswer(keys[KeyOf(r)], BodyOf(r))) /\ UNCHANGED keys
  <2>1. PICK a : a = KeyAnswer(keys[KeyOf(r)], BodyOf(r)) /\ Reply(r, a)
    BY <1>5
  <2>2. a \in Answers \ {"none", "rejected"}
    BY <2>1 DEF KeyAnswer, Answers
  <2>3. TypeOK'
    BY <1>1, <1>2, <1>5, <2>1, <2>2, ReplyType, JoinType DEF TypeOK
  <2>4. OthersStay(r) /\ pc'[r] = "done" /\ err'[r] = err[r] /\ answer'[r] = a
    BY <1>1, <1>2, <2>1, ReplyStays
  <2>5. ErrorKnownOf(r)'
    BY <1>1, <1>2, <2>2, <2>4 DEF IInv, ErrorKnown, ErrorKnownOf
  <2>6. Claims(r)' => Claims(r)
    BY <1>2, <2>4 DEF Claims, Holding, BodyOf
  <2>7. QED
    BY <1>2, <1>3, <2>3, <2>4, <2>5, <2>6, NoNewClaim
<1>6. QED
  BY <1>4, <1>5 DEF ReserveKey

\* The parts of TypeOK about what requests share.
DataType ==
    /\ keys \in [Keys -> [status : KeyStatus, body : Bodies \cup {NoBody}]]
    /\ registry \in [Transactions -> [status : TransactionStatus, body : Bodies \cup {NoBody}]]
    /\ account \in [Accounts -> AccountState]
    /\ committed \subseteq Requests
    /\ faults \in 0 .. MaxFaults
    /\ crashes \in 0 .. MaxCrashes

\* What a step of r writes to the shared state is harmless: no record vanishes and
\* only r is committed, while it holds its transaction.
SafeData(r) ==
    /\ DataType'
    /\ UNCHANGED request
    /\ KeepsRecords
    /\ committed' = committed \/ (committed' = committed \cup {r} /\ pc[r] \in Holding)

\* Each way to leave a step, with what it needs to claim nothing new.
LEMMA GotoIInv ==
    ASSUME IInv, NEW r \in Requests, SafeData(r),
           NEW label \in PCs \ {"new", "reserveTransaction", "handler", "done"},
           pc[r] # "done", Goto(r, label),
           label \in Holding => pc[r] \in Holding,
           label \in {"failTransaction", "failKey"} => err[r] # "none",
           err[r] = "rejected" => r \notin committed'
    PROVE  IInv'
<1>1. TypeOK /\ LocalType /\ answer[r] = "none"
  BY Unanswered DEF IInv, TypeOK, LocalType
<1>2. TypeOK'
  BY <1>1, GotoType, JoinType DEF SafeData, DataType
<1>3. OthersStay(r) /\ pc'[r] = label /\ err'[r] = err[r] /\ answer'[r] = answer[r]
  BY <1>1, GotoStays DEF SafeData
<1>4. ErrorKnownOf(r)'
  BY <1>1, <1>3 DEF ErrorKnownOf
<1>5. Claims(r)' => Claims(r)
  BY <1>3 DEF SafeData, Claims, BodyOf
<1>6. QED
  BY <1>2, <1>3, <1>4, <1>5, NoNewClaim DEF SafeData

LEMMA ThrowIInv ==
    ASSUME IInv, NEW r \in Requests, SafeData(r),
           NEW label \in {"failTransaction", "failKey"}, NEW e \in Answers \ {"none"},
           pc[r] # "done", Throw(r, label, e),
           label \in Holding => ~IsMovement(BodyOf(r)) \/ pc[r] \in Holding,
           e = "rejected" => r \notin committed' /\ pc[r] \in Holding
    PROVE  IInv'
<1>1. TypeOK /\ LocalType /\ answer[r] = "none"
  BY Unanswered DEF IInv, TypeOK, LocalType
<1>2. label \in PCs \ {"done"}
  BY DEF PCs
<1>3. TypeOK'
  BY <1>1, <1>2, ThrowType, JoinType DEF SafeData, DataType
<1>4. OthersStay(r) /\ pc'[r] = label /\ err'[r] = e /\ answer'[r] = answer[r]
  BY <1>1, ThrowStays DEF SafeData
<1>5. ErrorKnownOf(r)'
  BY <1>1, <1>4 DEF ErrorKnownOf
<1>6. Claims(r)' => Claims(r)
  BY <1>4 DEF SafeData, Claims, BodyOf
<1>7. QED
  BY <1>3, <1>4, <1>5, <1>6, NoNewClaim DEF SafeData

LEMMA ReplyIInv ==
    ASSUME IInv, NEW r \in Requests, SafeData(r), committed' = committed,
           NEW a \in Answers \ {"none"}, Reply(r, a), a = "rejected" => err[r] = "rejected"
    PROVE  IInv'
<1>1. TypeOK /\ LocalType /\ ErrorKnownOf(r)
  BY DEF IInv, TypeOK, LocalType, ErrorKnown
<1>2. TypeOK'
  BY <1>1, ReplyType, JoinType DEF SafeData, DataType
<1>3. OthersStay(r) /\ pc'[r] = "done" /\ err'[r] = err[r] /\ answer'[r] = a
  BY <1>1, ReplyStays DEF SafeData
<1>4. ErrorKnownOf(r)'
  BY <1>1, <1>3 DEF ErrorKnownOf
<1>5. Claims(r)' => Claims(r)
  BY <1>3 DEF SafeData, Claims, BodyOf, Holding
<1>6. QED
  BY <1>2, <1>3, <1>4, <1>5, NoNewClaim DEF SafeData

-----------------------------------------------------------------------------
(* Actions *)

\* Shared state that a step leaves alone, or changes in one of the ways it may.
LEMMA DataStays ==
    ASSUME IInv, NEW r \in Requests, UNCHANGED <<request, crashes>>,
           faults' \in 0 .. MaxFaults,
           \/ UNCHANGED keys
           \/ \E status \in KeyStatus : SetKey(r, status),
           \/ UNCHANGED registry
           \/ \E status \in TransactionStatus \ {"NONE"} : SetTransaction(r, status)
           \/ NewTransaction(r),
           \/ UNCHANGED <<account, committed>>
           \/ CommitCommand(r) /\ pc[r] \in Holding
    PROVE  SafeData(r)
<1>1. TypeOK
  BY DEF IInv
<1>2. keys' \in [Keys -> [status : KeyStatus, body : Bodies \cup {NoBody}]]
  BY <1>1, SetKeyType DEF TypeOK
<1>3. /\ registry' \in [Transactions -> [status : TransactionStatus, body : Bodies \cup {NoBody}]]
      /\ KeepsRecords
  <2>1. CASE UNCHANGED registry
    BY <1>1, <2>1 DEF TypeOK, KeepsRecords, Reserved
  <2>2. CASE \E status \in TransactionStatus \ {"NONE"} : SetTransaction(r, status)
    BY <1>1, <2>2, SetTransactionType DEF KeepsRecords
  <2>3. CASE NewTransaction(r)
    BY <1>1, <2>3, NewTransactionType DEF KeepsRecords
  <2>4. QED
    BY <2>1, <2>2, <2>3
<1>4. account' \in [Accounts -> AccountState] /\ committed' \subseteq Requests
  BY <1>1, CommitCommandType DEF TypeOK
<1>5. committed' = committed \/ (committed' = committed \cup {r} /\ pc[r] \in Holding)
  <2>1. CASE UNCHANGED <<account, committed>>
    BY <2>1
  <2>2. CASE CommitCommand(r) /\ pc[r] \in Holding
    BY <1>1, <2>2, CommitCommandType
  <2>3. QED
    BY <2>1, <2>2
<1>6. crashes' \in 0 .. MaxCrashes
  BY <1>1 DEF TypeOK
<1>7. QED
  BY <1>2, <1>3, <1>4, <1>5, <1>6 DEF SafeData, DataType

\* The one step that claims a transaction: the record was not there, so nobody
\* else claims it.
LEMMA NewClaimIInv ==
    ASSUME IInv, NEW r \in Requests, pc[r] = "reserveTransaction",
           MayRun(registry[TransactionOf(r)]),
           NewTransaction(r), Goto(r, "handler"),
           UNCHANGED <<keys, account, request, committed, faults, crashes>>
    PROVE  IInv'
<1>1. TypeOK /\ LocalType /\ answer[r] = "none" /\ ErrorKnownOf(r)
  BY Unanswered DEF IInv, TypeOK, LocalType, ErrorKnown
<1>2. faults' \in 0 .. MaxFaults
  BY <1>1 DEF TypeOK
<1>3. SafeData(r)
  BY <1>2, DataStays
<1>4. TypeOK'
  BY <1>1, <1>3, GotoType, JoinType DEF SafeData, DataType, PCs
<1>5. OthersStay(r) /\ pc'[r] = "handler" /\ err'[r] = err[r] /\ answer'[r] = answer[r]
  BY <1>1, GotoStays
<1>6. ErrorKnown'
  <2>1. ErrorKnownOf(r)'
    BY <1>1, <1>5 DEF ErrorKnownOf
  <2>2. QED
    BY <1>5, <2>1 DEF IInv, ErrorKnown, ErrorKnownOf, OthersStay
<1>7. \A q \in Requests \ {r} : Claims(q)' => Claims(q) /\ TransactionOf(q) # TransactionOf(r)
  <2>1. \A q \in Requests \ {r} : Claims(q)' => Claims(q)
    BY <1>5 DEF OthersStay, Claims, BodyOf
  <2>2. ~Reserved(TransactionOf(r))
    BY DEF MayRun, Reserved
  <2>3. QED
    BY <2>1, <2>2 DEF IInv, ClaimReserved
<1>8. ClaimReserved'
  <2>1. \A t \in Transactions : Reserved(t) \/ t = TransactionOf(r) => Reserved(t)'
    BY <1>1, NewTransactionType
  <2>2. \A q \in Requests : Claims(q) \/ Claims(q)' => TransactionOf(q) \in Transactions
    <3>1. \A q \in Requests : IsMovement(BodyOf(q)) => TransactionOf(q) \in Transactions
      BY <1>1, RequestType
    <3>2. QED
      BY <3>1 DEF Claims, BodyOf
  <2>3. QED
    BY <1>7, <2>1, <2>2 DEF IInv, ClaimReserved, TransactionOf, BodyOf
<1>9. ClaimUnique'
  BY <1>7 DEF IInv, ClaimUnique, TransactionOf, BodyOf
<1>10. QED
  BY <1>4, <1>6, <1>8, <1>9 DEF IInv

LEMMA CompleteTransactionIInv ==
    ASSUME IInv, NEW r \in Requests, CompleteTransaction(r)
    PROVE  IInv'
<1>1. /\ SetTransaction(r, "COMPLETED") /\ Goto(r, "completeKey") /\ pc[r] = "completeTransaction"
      /\ UNCHANGED <<keys, account, request, committed, faults, crashes>>
  BY DEF CompleteTransaction
<1>2. SafeData(r)
  BY <1>1, DataStays DEF IInv, TypeOK, TransactionStatus
<1>3. QED
  BY <1>1, <1>2, GotoIInv DEF IInv, ErrorKnown, ErrorKnownOf, PCs, Holding

LEMMA FailTransactionIInv ==
    ASSUME IInv, NEW r \in Requests, FailTransaction(r)
    PROVE  IInv'
<1>1. /\ SetTransaction(r, "FAILED_TERMINAL") /\ Goto(r, "failKey") /\ pc[r] = "failTransaction"
      /\ UNCHANGED <<keys, account, request, committed, faults, crashes>>
  BY DEF FailTransaction
<1>2. SafeData(r)
  BY <1>1, DataStays DEF IInv, TypeOK, TransactionStatus
<1>3. QED
  BY <1>1, <1>2, GotoIInv DEF IInv, ErrorKnown, ErrorKnownOf, PCs, Holding

LEMMA CompleteKeyIInv ==
    ASSUME IInv, NEW r \in Requests, CompleteKey(r)
    PROVE  IInv'
<1>1. /\ SetKey(r, "COMPLETED") /\ Reply(r, "accepted")
      /\ UNCHANGED <<registry, account, request, committed, faults, crashes>>
  BY DEF CompleteKey
<1>2. SafeData(r)
  BY <1>1, DataStays DEF IInv, TypeOK, KeyStatus
<1>3. QED
  BY <1>1, <1>2, ReplyIInv DEF Answers

LEMMA FailKeyIInv ==
    ASSUME IInv, NEW r \in Requests, FailKey(r)
    PROVE  IInv'
<1>1. /\ SetKey(r, "FAILED") /\ Reply(r, err[r]) /\ pc[r] = "failKey"
      /\ UNCHANGED <<registry, account, request, committed, faults, crashes>>
  BY DEF FailKey
<1>2. SafeData(r)
  BY <1>1, DataStays DEF IInv, TypeOK, KeyStatus
<1>3. err[r] \in Answers \ {"none"}
  BY <1>1 DEF IInv, TypeOK, ErrorKnown, ErrorKnownOf
<1>4. QED
  BY <1>1, <1>2, <1>3, ReplyIInv

LEMMA ReserveTransactionIInv ==
    ASSUME IInv, NEW r \in Requests, ReserveTransaction(r)
    PROVE  IInv'
<1> DEFINE record == registry[TransactionOf(r)]
           a == TransactionAnswer(record, BodyOf(r))
<1>1. pc[r] = "reserveTransaction" /\ UNCHANGED <<keys, account, request, committed, faults, crashes>>
  BY DEF ReserveTransaction
<1>2. CASE MayRun(record) /\ NewTransaction(r) /\ Goto(r, "handler")
  BY <1>1, <1>2, NewClaimIInv
<1>3. CASE UNCHANGED registry /\ IF a = "accepted" THEN Goto(r, "completeKey") ELSE Throw(r, "failKey", a)
  <2>1. SafeData(r)
    BY <1>1, <1>3, DataStays DEF IInv, TypeOK
  <2>2. a \in Answers \ {"none", "rejected"}
    BY DEF TransactionAnswer, Answers
  <2> HIDE DEF a
  <2>3. CASE Goto(r, "completeKey")
    BY <1>1, <2>1, <2>3, GotoIInv DEF IInv, ErrorKnown, ErrorKnownOf, PCs, Holding
  <2>4. CASE Throw(r, "failKey", a)
    BY <1>1, <2>1, <2>2, <2>4, ThrowIInv DEF Holding
  <2>5. QED
    BY <1>3, <2>3, <2>4
<1>4. QED
  BY <1>2, <1>3 DEF ReserveTransaction

\* The label after a command, and the one after its error.
LEMMA LabelAfter ==
    ASSUME NEW r \in Requests
    PROVE  /\ AfterCommand(r) \in {"completeTransaction", "completeKey"}
           /\ AfterError(r) \in {"failTransaction", "failKey"}
           /\ ~IsMovement(BodyOf(r)) => AfterError(r) = "failKey"
BY DEF AfterCommand, AfterError

LEMMA HandlerIInv ==
    ASSUME IInv, NEW r \in Requests, Handler(r)
    PROVE  IInv'
<1>1. pc[r] = "handler" /\ UNCHANGED <<keys, registry, request, faults, crashes>>
  BY DEF Handler
<1>2. err[r] = "none" /\ r \notin committed
  BY <1>1 DEF IInv, ErrorKnown, ErrorKnownOf
<1>3. CASE CommitCommand(r) /\ Goto(r, AfterCommand(r))
  <2>1. SafeData(r)
    BY <1>1, <1>3, DataStays DEF IInv, TypeOK, Holding
  <2>2. QED
    BY <1>1, <1>2, <1>3, <2>1, LabelAfter, GotoIInv DEF PCs, Holding
<1>4. CASE Throw(r, AfterError(r), "rejected") /\ UNCHANGED <<account, committed>>
  <2>1. SafeData(r)
    BY <1>1, <1>4, DataStays DEF IInv, TypeOK
  <2>2. QED
    BY <1>1, <1>2, <1>4, <2>1, LabelAfter, ThrowIInv DEF Answers, Holding
<1>5. QED
  BY <1>3, <1>4 DEF Handler

LEMMA FaultType ==
    ASSUME IInv, Fault
    PROVE  faults' \in 0 .. MaxFaults /\ UNCHANGED <<request, crashes>>
BY ApiAssumption DEF IInv, TypeOK, Fault

LEMMA CallFailsIInv ==
    ASSUME IInv, NEW r \in Requests, CallFails(r)
    PROVE  IInv'
<1>1. Fault /\ UNCHANGED <<keys, registry, account, committed>>
  BY DEF CallFails
<1>2. SafeData(r)
  BY <1>1, FaultType, DataStays
<1>3. "error" \in Answers \ {"none"}
  BY DEF Answers
<1>4. CASE Reply(r, "error")
  BY <1>1, <1>2, <1>3, <1>4, ReplyIInv
<1>5. CASE pc[r] \in {"reserveTransaction", "failTransaction", "completeKey"} /\ Throw(r, "failKey", "error")
  BY <1>2, <1>3, <1>5, ThrowIInv DEF Holding
<1>6. CASE pc[r] = "handler" /\ Throw(r, AfterError(r), "error")
  BY <1>2, <1>3, <1>6, LabelAfter, ThrowIInv DEF Holding
<1>7. CASE pc[r] = "completeTransaction" /\ Throw(r, "failTransaction", "error")
  BY <1>2, <1>3, <1>7, ThrowIInv DEF Holding
<1>8. QED
  BY <1>4, <1>5, <1>6, <1>7 DEF CallFails

LEMMA ReplyLostIInv ==
    ASSUME IInv, NEW r \in Requests, ReplyLost(r)
    PROVE  IInv'
<1>1. faults' \in 0 .. MaxFaults /\ UNCHANGED <<request, crashes>>
  BY FaultType DEF ReplyLost
<1>2. "error" \in Answers \ {"none"}
  BY DEF Answers
<1>3. ASSUME NEW status \in KeyStatus, SetKey(r, status), UNCHANGED <<registry, account, committed>>,
             Reply(r, "error")
      PROVE  IInv'
  BY <1>1, <1>2, <1>3, DataStays, ReplyIInv
<1>4. CASE /\ pc[r] = "reserveTransaction" /\ NewTransaction(r) /\ Throw(r, "failKey", "error")
           /\ UNCHANGED <<keys, account, committed>>
  BY <1>1, <1>2, <1>4, DataStays, ThrowIInv DEF Holding
<1>5. CASE /\ pc[r] = "handler" /\ CommitCommand(r) /\ Throw(r, AfterError(r), "error")
           /\ UNCHANGED <<keys, registry>>
  <2>1. SafeData(r)
    BY <1>1, <1>5, DataStays DEF Holding
  <2>2. QED
    BY <1>2, <1>5, <2>1, LabelAfter, ThrowIInv DEF Holding
<1>6. ASSUME NEW status \in TransactionStatus \ {"NONE"}, SetTransaction(r, status),
             NEW label \in {"failTransaction", "failKey"}, Throw(r, label, "error"),
             pc[r] \in Holding, UNCHANGED <<keys, account, committed>>
      PROVE  IInv'
  <2>1. SafeData(r)
    BY <1>1, <1>6, DataStays
  <2>2. QED
    BY <1>2, <1>6, <2>1, ThrowIInv DEF Holding
<1>7. CASE /\ pc[r] = "completeKey" /\ SetKey(r, "COMPLETED") /\ Throw(r, "failKey", "error")
           /\ UNCHANGED <<registry, account, committed>>
  <2>1. SafeData(r)
    BY <1>1, <1>7, DataStays DEF KeyStatus
  <2>2. QED
    BY <1>2, <1>7, <2>1, ThrowIInv DEF Holding
<1>8. QED
  BY <1>3, <1>4, <1>5, <1>6, <1>7 DEF ReplyLost, KeyStatus, TransactionStatus, Holding

LEMMA CrashIInv ==
    ASSUME IInv, NEW r \in Requests, Crash(r)
    PROVE  IInv'
<1>1. /\ crashes' \in 0 .. MaxCrashes /\ pc' = [pc EXCEPT ![r] = "crashed"] /\ pc[r] # "done"
      /\ UNCHANGED <<keys, registry, account, request, err, answer, committed, faults>>
  BY ApiAssumption DEF IInv, TypeOK, Crash, Running
<1>2. Goto(r, "crashed")
  BY <1>1 DEF Goto
<1>3. SafeData(r)
  BY <1>1 DEF IInv, TypeOK, SafeData, DataType, KeepsRecords, Reserved
<1>4. QED
  BY <1>1, <1>2, <1>3, GotoIInv DEF IInv, ErrorKnown, ErrorKnownOf, PCs, Holding

-----------------------------------------------------------------------------
(* Theorems *)

LEMMA InitIInv == Init => IInv
<1> SUFFICES ASSUME Init PROVE IInv
  OBVIOUS
<1>1. OpenAccount \in AccountState
  BY ApiAssumption DEF OpenAccount, AccountState, Statuses
<1>2. TypeOK
  BY <1>1, ApiAssumption DEF Init, TypeOK, KeyStatus, TransactionStatus, PCs, Answers
<1>3. \A r \in Requests : ~Claims(r)
  BY DEF Init, Claims, Holding
<1>4. ErrorKnown
  BY DEF Init, ErrorKnown, ErrorKnownOf
<1>5. QED
  BY <1>2, <1>3, <1>4 DEF IInv, ClaimReserved, ClaimUnique

LEMMA NextIInv == IInv /\ [Next]_vars => IInv'
<1> SUFFICES ASSUME IInv, [Next]_vars PROVE IInv'
  OBVIOUS
<1>1. ASSUME NEW r \in Requests, Step(r) PROVE IInv'
  BY <1>1, ReserveKeyIInv, ReserveTransactionIInv, HandlerIInv, CompleteTransactionIInv,
     FailTransactionIInv, CompleteKeyIInv, FailKeyIInv DEF Step
<1>2. ASSUME NEW r \in Requests, CallFails(r) \/ ReplyLost(r) \/ Crash(r) PROVE IInv'
  BY <1>2, CallFailsIInv, ReplyLostIInv, CrashIInv
<1>3. CASE UNCHANGED vars
  BY <1>3 DEF vars, IInv, TypeOK, ClaimReserved, ClaimUnique, ErrorKnown, ErrorKnownOf, Claims,
              Reserved, TransactionOf, BodyOf
<1>4. QED
  BY <1>1, <1>2, <1>3 DEF Next

\* The claims on transactions are consistent in every state of the command path.
THEOREM Invariant == Spec => []IInv
BY InitIInv, NextIInv, PTL DEF Spec

\* Every state of the command path, faults and crashes included, is well typed:
\* in particular a request is answered exactly when it is done.
THEOREM TypeCorrect == Spec => []TypeOK
<1>1. IInv => TypeOK
  BY DEF IInv
<1>2. QED
  BY <1>1, Invariant, PTL

\* No two requests ever move money under one transaction id.
THEOREM MovedOnce == Spec => []MovementAtMostOnce
<1>1. ASSUME IInv PROVE MovementAtMostOnce
  <2>1. SUFFICES ASSUME NEW r \in committed, NEW q \in committed, IsMovement(BodyOf(r)),
                        TransactionOf(r) = TransactionOf(q)
                 PROVE  r = q
    BY DEF MovementAtMostOnce
  <2>2. r \in Requests /\ q \in Requests
    BY <1>1 DEF IInv, TypeOK
  <2>3. IsMovement(BodyOf(q))
    BY <1>1, <2>1, <2>2, RequestType DEF IInv
  <2>4. QED
    BY <1>1, <2>1, <2>2, <2>3 DEF IInv, ClaimUnique, Claims
<1>2. QED
  BY <1>1, Invariant, PTL

\* A transaction whose client was told of a domain error is never carried out.
THEOREM RejectedForGood == Spec => []RejectionIsFinal
<1>1. ASSUME IInv PROVE RejectionIsFinal
  <2>1. SUFFICES ASSUME NEW r \in Requests, answer[r] = "rejected", IsMovement(BodyOf(r)),
                        NEW q \in committed, TransactionOf(q) = TransactionOf(r)
                 PROVE  FALSE
    BY DEF RejectionIsFinal
  <2>2. q \in Requests
    BY <1>1 DEF IInv, TypeOK
  <2>3. IsMovement(BodyOf(q))
    BY <1>1, <2>1, <2>2, RequestType DEF IInv
  <2>4. err[r] = "rejected" /\ r \notin committed
    BY <1>1, <2>1 DEF IInv, ErrorKnown, ErrorKnownOf
  <2>5. r = q
    BY <1>1, <2>1, <2>2, <2>3, <2>4 DEF IInv, ClaimUnique, Claims
  <2>6. QED
    BY <2>1, <2>4, <2>5
<1>2. QED
  BY <1>1, Invariant, PTL

-----------------------------------------------------------------------------
(* What the steps of a request come to                                     *)
(*                                                                         *)
(* The proofs below only need what a step does to the records and to the   *)
(* request itself.  Seen that way, with the failing calls, the lost        *)
(* replies and the crash, there are eight kinds of steps.                  *)

\* The INSERT of the idempotency record succeeds.
OpensKey(r) ==
    /\ pc[r] = "new" /\ keys[KeyOf(r)].status = "NONE" /\ SetKey(r, "IN_PROGRESS")
    /\ UNCHANGED <<registry, committed>> /\ err'[r] = err[r]
    /\ \/ /\ pc'[r] = IF IsMovement(BodyOf(r)) THEN "reserveTransaction" ELSE "handler"
          /\ answer'[r] = answer[r]
       \/ pc'[r] = "done" /\ answer'[r] = "error"

\* The request is answered from the idempotency record, or the INSERT fails.
AnsweredFromKey(r) ==
    /\ pc[r] = "new" /\ pc'[r] = "done" /\ UNCHANGED <<keys, registry, committed>> /\ err'[r] = err[r]
    /\ \/ answer'[r] = "error"
       \/ /\ keys[KeyOf(r)].status # "NONE"
          /\ answer'[r] = KeyAnswer(keys[KeyOf(r)], BodyOf(r))

\* The INSERT of the transaction record succeeds.
OpensTransaction(r) ==
    /\ pc[r] = "reserveTransaction" /\ MayRun(registry[TransactionOf(r)]) /\ NewTransaction(r)
    /\ UNCHANGED <<keys, committed>> /\ answer'[r] = answer[r]
    /\ \/ pc'[r] = "handler" /\ err'[r] = err[r]
       \/ pc'[r] = "failKey" /\ err'[r] = "error"

AnsweredFromTransaction(r) ==
    LET a == TransactionAnswer(registry[TransactionOf(r)], BodyOf(r)) IN
    /\ pc[r] = "reserveTransaction" /\ ~MayRun(registry[TransactionOf(r)])
    /\ UNCHANGED <<keys, registry, committed>> /\ answer'[r] = answer[r]
    /\ \/ a = "accepted" /\ pc'[r] = "completeKey" /\ err'[r] = err[r]
       \/ a # "accepted" /\ pc'[r] = "failKey" /\ err'[r] = a

RunsCommand(r) ==
    /\ pc[r] = "handler" /\ CommandError(r) = "none" /\ committed' = committed \cup {r}
    /\ UNCHANGED <<keys, registry>> /\ answer'[r] = answer[r]
    /\ \/ pc'[r] = AfterCommand(r) /\ err'[r] = err[r]
       \/ pc'[r] = AfterError(r) /\ err'[r] = "error"

MarksTransaction(r) ==
    /\ UNCHANGED <<keys, committed>> /\ answer'[r] = answer[r]
    /\ \/ /\ pc[r] = "completeTransaction" /\ SetTransaction(r, "COMPLETED")
          /\ \/ pc'[r] = "completeKey" /\ err'[r] = err[r]
             \/ pc'[r] = "failTransaction" /\ err'[r] = "error"
       \/ /\ pc[r] = "failTransaction" /\ SetTransaction(r, "FAILED_TERMINAL")
          /\ pc'[r] = "failKey" /\ err'[r] \in {err[r], "error"}

MarksKey(r) ==
    /\ UNCHANGED <<registry, committed>>
    /\ \/ /\ pc[r] = "completeKey" /\ SetKey(r, "COMPLETED")
          /\ \/ pc'[r] = "done" /\ answer'[r] = "accepted" /\ err'[r] = err[r]
             \/ pc'[r] = "failKey" /\ answer'[r] = answer[r] /\ err'[r] = "error"
       \/ /\ pc[r] = "failKey" /\ SetKey(r, "FAILED")
          /\ pc'[r] = "done" /\ err'[r] = err[r] /\ answer'[r] \in {err[r], "error"}

\* An error, a failed call or a crash: nothing is written.
GivesUp(r) ==
    /\ UNCHANGED <<keys, registry, committed>>
    /\ \/ pc[r] = "failKey" /\ pc'[r] = "done" /\ answer'[r] = "error" /\ err'[r] = err[r]
       \/ /\ answer'[r] = answer[r]
          /\ \/ /\ pc[r] \in {"reserveTransaction", "failTransaction", "completeKey"}
                /\ pc'[r] = "failKey" /\ err'[r] = "error"
             \/ pc[r] = "handler" /\ pc'[r] = AfterError(r) /\ err'[r] \in {"rejected", "error"}
             \/ pc[r] = "completeTransaction" /\ pc'[r] = "failTransaction" /\ err'[r] = "error"
             \/ Running(r) /\ pc'[r] = "crashed" /\ err'[r] = err[r]

Kinds(r) ==
    \/ OpensKey(r) \/ AnsweredFromKey(r) \/ OpensTransaction(r) \/ AnsweredFromTransaction(r)
    \/ RunsCommand(r) \/ MarksTransaction(r) \/ MarksKey(r) \/ GivesUp(r)

LEMMA StepKinds ==
    ASSUME TypeOK, NEW r \in Requests, Step(r)
    PROVE  UNCHANGED request /\ OthersStay(r) /\ Kinds(r)
<1>1. /\ UNCHANGED request /\ (committed' = committed \/ committed' = committed \cup {r})
  BY DEF Step, ReserveKey, ReserveTransaction, Handler, CompleteTransaction, FailTransaction,
         CompleteKey, FailKey, CommitCommand
<1>2. /\ \A label : Goto(r, label) =>
            OthersStay(r) /\ pc'[r] = label /\ err'[r] = err[r] /\ answer'[r] = answer[r]
      /\ \A label, e : Throw(r, label, e) =>
            OthersStay(r) /\ pc'[r] = label /\ err'[r] = e /\ answer'[r] = answer[r]
      /\ \A a : Reply(r, a) =>
            OthersStay(r) /\ pc'[r] = "done" /\ err'[r] = err[r] /\ answer'[r] = a
  BY <1>1, GotoStays, ThrowStays, ReplyStays
<1>3. CASE ReserveKey(r)
  BY <1>1, <1>2, <1>3 DEF ReserveKey, OpensKey, AnsweredFromKey, Kinds
<1>4. CASE ReserveTransaction(r)
  BY <1>1, <1>2, <1>4 DEF ReserveTransaction, OpensTransaction, AnsweredFromTransaction, Kinds
<1>5. CASE Handler(r)
  BY <1>1, <1>2, <1>5 DEF Handler, CommitCommand, RunsCommand, GivesUp, Kinds
<1>6. CASE CompleteTransaction(r) \/ FailTransaction(r)
  BY <1>1, <1>2, <1>6 DEF CompleteTransaction, FailTransaction, MarksTransaction, Kinds
<1>7. CASE CompleteKey(r) \/ FailKey(r)
  BY <1>1, <1>2, <1>7 DEF CompleteKey, FailKey, MarksKey, Kinds
<1>8. QED
  BY <1>3, <1>4, <1>5, <1>6, <1>7 DEF Step

LEMMA FaultKinds ==
    ASSUME TypeOK, NEW r \in Requests, CallFails(r) \/ ReplyLost(r) \/ Crash(r)
    PROVE  UNCHANGED request /\ OthersStay(r) /\ Kinds(r)
<1>1. /\ UNCHANGED request /\ (committed' = committed \/ committed' = committed \cup {r})
  BY DEF CallFails, ReplyLost, Crash, Fault, CommitCommand
<1>2. /\ \A label, e : Throw(r, label, e) =>
            OthersStay(r) /\ pc'[r] = label /\ err'[r] = e /\ answer'[r] = answer[r]
      /\ \A a : Reply(r, a) =>
            OthersStay(r) /\ pc'[r] = "done" /\ err'[r] = err[r] /\ answer'[r] = a
  BY <1>1, ThrowStays, ReplyStays
<1>3. CASE CallFails(r)
  BY <1>1, <1>2, <1>3 DEF CallFails, AnsweredFromKey, GivesUp, Kinds
<1>4. CASE ReplyLost(r)
  <2>1. \/ pc[r] = "new" /\ OthersStay(r) /\ OpensKey(r)
        \/ pc[r] = "reserveTransaction" /\ OthersStay(r) /\ OpensTransaction(r)
        \/ pc[r] = "handler" /\ OthersStay(r) /\ RunsCommand(r)
        \/ pc[r] \in {"completeTransaction", "failTransaction"} /\ OthersStay(r) /\ MarksTransaction(r)
        \/ pc[r] \in {"completeKey", "failKey"} /\ OthersStay(r) /\ MarksKey(r)
    BY <1>2, <1>4 DEF ReplyLost, OpensKey, OpensTransaction, RunsCommand, MarksTransaction, MarksKey,
                      CommitCommand
  <2>2. QED
    BY <1>1, <2>1 DEF Kinds
<1>5. CASE Crash(r)
  <2>1. Goto(r, "crashed") /\ Running(r) /\ UNCHANGED <<keys, registry, committed>>
    BY <1>5 DEF Crash, Goto
  <2>2. OthersStay(r) /\ pc'[r] = "crashed" /\ err'[r] = err[r] /\ answer'[r] = answer[r]
    BY <1>1, <2>1, GotoStays
  <2>3. QED
    BY <1>1, <2>1, <2>2 DEF GivesUp, Kinds
<1>6. QED
  BY <1>3, <1>4, <1>5

\* The writes, record by record.
LEMMA SetKeyAt ==
    ASSUME TypeOK, NEW r \in Requests, NEW status, SetKey(r, status)
    PROVE  /\ keys'[KeyOf(r)].status = status /\ keys'[KeyOf(r)].body = BodyOf(r)
           /\ \A k \in Keys : k # KeyOf(r) => keys'[k] = keys[k]
BY RequestType DEF SetKey, TypeOK

LEMMA NewTransactionAt ==
    ASSUME TypeOK, NEW r \in Requests, IsMovement(BodyOf(r)), NewTransaction(r)
    PROVE  /\ registry'[TransactionOf(r)].status = "PENDING"
           /\ registry'[TransactionOf(r)].body = BodyOf(r)
           /\ \A t \in Transactions : t # TransactionOf(r) => registry'[t] = registry[t]
BY RequestType DEF NewTransaction, TypeOK

LEMMA SetTransactionAt ==
    ASSUME TypeOK, NEW r \in Requests, IsMovement(BodyOf(r)), NEW status, SetTransaction(r, status)
    PROVE  /\ registry'[TransactionOf(r)].status = status
           /\ registry'[TransactionOf(r)].body = registry[TransactionOf(r)].body
           /\ \A t \in Transactions : t # TransactionOf(r) => registry'[t] = registry[t]
<1>1. PICK t \in Transactions : t = TransactionOf(r)
  BY RequestType
<1>2. registry[t] \in [status : TransactionStatus, body : Bodies \cup {NoBody}]
  BY DEF TypeOK
<1>3. registry' = [registry EXCEPT ![t] = [registry[t] EXCEPT !.status = status]]
  BY <1>1 DEF SetTransaction
<1>4. PICK new : new = [registry[t] EXCEPT !.status = status]
  OBVIOUS
<1>5. new.status = status /\ new.body = registry[t].body
  BY <1>2, <1>4
<1>6. registry'[t] = new /\ \A u \in Transactions : u # t => registry'[u] = registry[u]
  BY <1>3, <1>4 DEF TypeOK
<1>7. QED
  BY <1>1, <1>5, <1>6

-----------------------------------------------------------------------------
(* Whoever is told "accepted" is told the truth                            *)
(*                                                                         *)
(* An answer is copied: from the command to the transaction record, from   *)
(* there to an idempotency record, under another key too, and from either  *)
(* to later requests.  DoneOK follows a committed command along that way.  *)

\* Something was committed that answers a request with this body and key: its
\* movement, or its very command.
DoneFor(body, key) ==
    \E q \in committed :
        BodyOf(q) = body /\ (IsMovement(body) \/ KeyOf(q) = key)

\* What a request has reached, and what the records it passed say, was really done.
DoneOf(r) ==
    /\ pc[r] \in {"reserveTransaction", "completeTransaction", "failTransaction"} => IsMovement(BodyOf(r))
    /\ pc[r] = "completeTransaction" => r \in committed
    /\ pc[r] = "completeKey" \/ answer[r] = "accepted" => DoneFor(BodyOf(r), KeyOf(r))
    /\ err[r] # "accepted"
    /\ IsMovement(BodyOf(r)) /\ pc[r] \in Holding => registry[TransactionOf(r)].body = BodyOf(r)
    /\ r \in committed /\ IsMovement(BodyOf(r)) => ParseMoneyToMinorUnits(BodyOf(r).command.amount) > 0

TransactionDone(t) ==
    registry[t].status = "COMPLETED" =>
        \E q \in committed : TransactionOf(q) = t /\ BodyOf(q) = registry[t].body

KeyDone(k) == keys[k].status = "COMPLETED" => DoneFor(keys[k].body, k)

DoneOK ==
    /\ \A r \in Requests : DoneOf(r)
    /\ \A t \in Transactions : TransactionDone(t)
    /\ \A k \in Keys : KeyDone(k)

\* A positive amount is written in one way only.
LEMMA ParseInjective ==
    ASSUME NEW d \in Decimal, NEW e \in Decimal,
           ParseMoneyToMinorUnits(d) = ParseMoneyToMinorUnits(e), ParseMoneyToMinorUnits(e) > 0
    PROVE  d = e
<1>1. /\ d.whole \in Nat /\ d.fraction \in 0 .. 99 /\ d.sign \in {"+", "-"}
      /\ e.whole \in Nat /\ e.fraction \in 0 .. 99 /\ e.sign \in {"+", "-"}
  BY DEF Decimal, MinorUnitsPerUnit
<1>2. d.sign = "+" /\ e.sign = "+"
  BY <1>1 DEF ParseMoneyToMinorUnits, MinorUnitsPerUnit
<1>3. d.whole * 100 + d.fraction = e.whole * 100 + e.fraction
  BY <1>2 DEF ParseMoneyToMinorUnits, MinorUnitsPerUnit
<1>4. d.whole = e.whole /\ d.fraction = e.fraction
  <2>1. PICK w \in Nat, f \in 0 .. 99 : w = d.whole /\ f = d.fraction
    BY <1>1
  <2>2. PICK v \in Nat, g \in 0 .. 99 : v = e.whole /\ g = e.fraction
    BY <1>1
  <2>3. w * 100 + f = v * 100 + g
    BY <1>3, <2>1, <2>2
  <2>4. w = v /\ f = g
    BY <2>3
  <2>5. QED
    BY <2>1, <2>2, <2>4
<1>5. ASSUME NEW x \in Decimal
      PROVE  x = [sign |-> x.sign, whole |-> x.whole, fraction |-> x.fraction]
  BY DEF Decimal
<1>6. QED
  BY <1>2, <1>4, <1>5

\* Two movements of one transaction with the same intent are the same movement:
\* ensureSameTransactionIntent compares all there is.
LEMMA SameIntentSameBody ==
    ASSUME NEW body \in Bodies, NEW other \in Bodies, SameTransactionIntent(body, other),
           body.transactionId = other.transactionId,
           ParseMoneyToMinorUnits(other.command.amount) > 0
    PROVE  body = other
<1>1. body \in Body /\ other \in Body
  BY ApiAssumption
<1>2. body.command \in Command /\ other.command \in Command
  BY <1>1 DEF Body
<1>3. body.command.amount = other.command.amount
  BY <1>2, ParseInjective DEF SameTransactionIntent, Command
<1>4. body.command = other.command
  BY <1>2, <1>3 DEF SameTransactionIntent, Command
<1>5. QED
  BY <1>1, <1>4 DEF SameTransactionIntent, Body

\* A movement that raises no domain error moves a positive amount.
LEMMA MovedIsPositive ==
    ASSUME TypeOK, NEW r \in Requests, IsMovement(BodyOf(r)), CommandError(r) = "none"
    PROVE  ParseMoneyToMinorUnits(BodyOf(r).command.amount) > 0
<1>1. BodyOf(r).command \in Command
  BY RequestType
<1>2. ParseMoneyToMinorUnits(BodyOf(r).command.amount) \in Int
  BY <1>1, ParseType DEF Command
<1>3. BodyOf(r).command.type \notin {"create", "freeze"}
  BY DEF IsMovement
<1>4. QED
  BY <1>2, <1>3 DEF CommandError, DomainError

\* What is done stays done, so a step need only answer for what it writes.
LEMMA DoneFrame ==
    ASSUME TypeOK, ClaimReserved, DoneOK, NEW r \in Requests, UNCHANGED request, OthersStay(r),
           committed \subseteq committed',
           \A t \in Transactions :
              \/ registry'[t] = registry[t]
              \/ TransactionDone(t)' /\ (~Reserved(t) \/ registry'[t].body = registry[t].body),
           \A k \in Keys : keys'[k] = keys[k] \/ KeyDone(k)',
           DoneOf(r)'
    PROVE  DoneOK'
<1>1. \A body, key : DoneFor(body, key) => DoneFor(body, key)'
  BY DEF DoneFor, BodyOf, KeyOf
<1>2. ASSUME NEW q \in Requests PROVE DoneOf(q)'
  <2>1. CASE q = r
    BY <2>1
  <2>2. CASE q # r
    <3>1. /\ pc'[q] = pc[q] /\ err'[q] = err[q] /\ answer'[q] = answer[q]
          /\ q \in committed' <=> q \in committed
      BY <2>2 DEF OthersStay
    <3>2. BodyOf(q)' = BodyOf(q) /\ KeyOf(q)' = KeyOf(q) /\ TransactionOf(q)' = TransactionOf(q)
      BY DEF BodyOf, KeyOf, TransactionOf
    <3>3. DoneOf(q)
      BY DEF DoneOK
    <3>4. ASSUME IsMovement(BodyOf(q)), pc[q] \in Holding
          PROVE  registry'[TransactionOf(q)].body = BodyOf(q)
      <4>1. Reserved(TransactionOf(q)) /\ TransactionOf(q) \in Transactions
        BY <3>4, RequestType DEF ClaimReserved, Claims
      <4>2. registry[TransactionOf(q)].body = BodyOf(q)
        BY <3>3, <3>4 DEF DoneOf
      <4>3. QED
        BY <4>1, <4>2
    <3>5. DoneFor(BodyOf(q), KeyOf(q)) => DoneFor(BodyOf(q), KeyOf(q))'
      BY <1>1, <3>2 DEF DoneFor, BodyOf, KeyOf
    <3>6. QED
      BY <3>1, <3>2, <3>3, <3>4, <3>5 DEF DoneOf
  <2>3. QED
    BY <2>1, <2>2
<1>3. ASSUME NEW t \in Transactions PROVE TransactionDone(t)'
  <2>1. CASE registry'[t] = registry[t]
    BY <2>1 DEF DoneOK, TransactionDone, TransactionOf, BodyOf
  <2>2. QED
    BY <2>1
<1>4. ASSUME NEW k \in Keys PROVE KeyDone(k)'
  <2>1. CASE keys'[k] = keys[k]
    BY <2>1 DEF DoneOK, KeyDone, DoneFor, BodyOf, KeyOf
  <2>2. QED
    BY <2>1
<1>5. QED
  BY <1>2, <1>3, <1>4 DEF DoneOK

\* What a request may count on at a step of its own.
LEMMA AtStep ==
    ASSUME IInv, DoneOK, NEW r \in Requests, UNCHANGED request
    PROVE  /\ TypeOK /\ ClaimReserved /\ ErrorKnownOf(r) /\ DoneOf(r)
           /\ pc[r] # "done" => answer[r] = "none"
           /\ KeyOf(r) \in Keys /\ (IsMovement(BodyOf(r)) <=> TransactionOf(r) \in Transactions)
           /\ BodyOf(r)' = BodyOf(r) /\ KeyOf(r)' = KeyOf(r) /\ TransactionOf(r)' = TransactionOf(r)
<1>1. TypeOK
  BY DEF IInv
<1>2. KeyOf(r) \in Keys /\ (IsMovement(BodyOf(r)) <=> TransactionOf(r) \in Transactions)
  BY <1>1, RequestType
<1>3. BodyOf(r)' = BodyOf(r) /\ KeyOf(r)' = KeyOf(r) /\ TransactionOf(r)' = TransactionOf(r)
  BY DEF BodyOf, KeyOf, TransactionOf
<1>4. QED
  BY <1>1, <1>2, <1>3, Unanswered DEF IInv, ErrorKnown, DoneOK

LEMMA OpensKeyDone ==
    ASSUME IInv, DoneOK, NEW r \in Requests, UNCHANGED request, OthersStay(r), OpensKey(r)
    PROVE  DoneOK'
<1>1. UNCHANGED <<registry, committed>> /\ SetKey(r, "IN_PROGRESS") /\ pc[r] = "new"
  BY DEF OpensKey
<1>2. \A k \in Keys : keys'[k] = keys[k] \/ KeyDone(k)'
  BY <1>1, AtStep, SetKeyAt DEF KeyDone
<1>3. DoneOf(r)'
  BY <1>1, AtStep DEF OpensKey, DoneOf, ErrorKnownOf, Holding
<1>4. QED
  BY <1>1, <1>2, <1>3, AtStep, DoneFrame

\* The answer copied from the idempotency record.
LEMMA AnsweredFromKeyDone ==
    ASSUME IInv, DoneOK, NEW r \in Requests, UNCHANGED request, OthersStay(r), AnsweredFromKey(r)
    PROVE  DoneOK'
<1>1. UNCHANGED <<keys, registry, committed>> /\ pc[r] = "new" /\ pc'[r] = "done" /\ err'[r] = err[r]
  BY DEF AnsweredFromKey
<1>2. ASSUME answer'[r] = "accepted" PROVE DoneFor(BodyOf(r), KeyOf(r))
  <2>1. KeyAnswer(keys[KeyOf(r)], BodyOf(r)) = "accepted"
    BY <1>2 DEF AnsweredFromKey
  <2>2. keys[KeyOf(r)].body = BodyOf(r) /\ keys[KeyOf(r)].status = "COMPLETED"
    BY <2>1 DEF KeyAnswer
  <2>3. KeyDone(KeyOf(r))
    BY AtStep DEF DoneOK
  <2>4. QED
    BY <2>2, <2>3 DEF KeyDone
<1>3. DoneFor(BodyOf(r), KeyOf(r)) => DoneFor(BodyOf(r), KeyOf(r))'
  BY <1>1 DEF DoneFor, BodyOf, KeyOf
<1>4. DoneOf(r)'
  BY <1>1, <1>2, <1>3, AtStep DEF DoneOf, ErrorKnownOf, Holding
<1>5. QED
  BY <1>1, <1>4, AtStep, DoneFrame

LEMMA OpensTransactionDone ==
    ASSUME IInv, DoneOK, NEW r \in Requests, UNCHANGED request, OthersStay(r), OpensTransaction(r)
    PROVE  DoneOK'
<1>1. /\ UNCHANGED <<keys, committed>> /\ NewTransaction(r) /\ pc[r] = "reserveTransaction"
      /\ ~Reserved(TransactionOf(r)) /\ answer'[r] = answer[r]
  BY DEF OpensTransaction, MayRun, Reserved
<1>2. IsMovement(BodyOf(r))
  BY <1>1, AtStep DEF DoneOf
<1>3. /\ registry'[TransactionOf(r)].status = "PENDING"
      /\ registry'[TransactionOf(r)].body = BodyOf(r)
      /\ \A t \in Transactions : t # TransactionOf(r) => registry'[t] = registry[t]
  BY <1>1, <1>2, AtStep, NewTransactionAt
<1>4. \A t \in Transactions :
         registry'[t] = registry[t] \/ (TransactionDone(t)' /\ ~Reserved(t))
  BY <1>1, <1>3 DEF TransactionDone
<1>5. DoneOf(r)'
  BY <1>1, <1>2, <1>3, AtStep DEF OpensTransaction, DoneOf, ErrorKnownOf
<1>6. QED
  BY <1>1, <1>4, <1>5, AtStep, DoneFrame

\* The answer copied from the transaction record: of the same movement, whoever
\* made it.
LEMMA AnsweredFromTransactionDone ==
    ASSUME IInv, DoneOK, NEW r \in Requests, UNCHANGED request, OthersStay(r),
           AnsweredFromTransaction(r)
    PROVE  DoneOK'
<1> DEFINE t == TransactionOf(r)
<1>1. /\ UNCHANGED <<keys, registry, committed>> /\ pc[r] = "reserveTransaction"
      /\ answer'[r] = answer[r]
  BY DEF AnsweredFromTransaction
<1>2. IsMovement(BodyOf(r)) /\ t \in Transactions /\ BodyOf(r) \in Bodies
  BY <1>1, AtStep, RequestType DEF DoneOf
<1>3. ASSUME TransactionAnswer(registry[t], BodyOf(r)) = "accepted"
      PROVE  DoneFor(BodyOf(r), KeyOf(r))
  <2>1. registry[t].status = "COMPLETED" /\ SameTransactionIntent(BodyOf(r), registry[t].body)
    BY <1>3 DEF TransactionAnswer
  <2>2. PICK q \in committed : TransactionOf(q) = t /\ BodyOf(q) = registry[t].body
    BY <1>2, <2>1 DEF DoneOK, TransactionDone
  <2>3. q \in Requests
    BY AtStep DEF TypeOK
  <2>4. BodyOf(q) \in Bodies /\ IsMovement(BodyOf(q))
    BY <1>2, <2>2, <2>3, AtStep, RequestType
  <2>5. ParseMoneyToMinorUnits(BodyOf(q).command.amount) > 0
    BY <2>2, <2>3, <2>4, AtStep DEF DoneOf
  <2>6. BodyOf(r) = BodyOf(q)
    BY <1>2, <2>1, <2>2, <2>4, <2>5, SameIntentSameBody DEF TransactionOf
  <2>7. QED
    BY <1>2, <2>2, <2>6 DEF DoneFor
<1>4. DoneFor(BodyOf(r), KeyOf(r)) => DoneFor(BodyOf(r), KeyOf(r))'
  BY <1>1 DEF DoneFor, BodyOf, KeyOf
<1>5. DoneOf(r)'
  BY <1>1, <1>2, <1>3, <1>4, AtStep DEF AnsweredFromTransaction, DoneOf, ErrorKnownOf, Holding
<1>6. QED
  BY <1>1, <1>5, AtStep, DoneFrame

LEMMA RunsCommandDone ==
    ASSUME IInv, DoneOK, NEW r \in Requests, UNCHANGED request, OthersStay(r), RunsCommand(r)
    PROVE  DoneOK'
<1>1. /\ UNCHANGED <<keys, registry>> /\ pc[r] = "handler" /\ committed' = committed \cup {r}
      /\ answer'[r] = answer[r] /\ CommandError(r) = "none"
  BY DEF RunsCommand
<1>2. DoneFor(BodyOf(r), KeyOf(r))'
  BY <1>1 DEF DoneFor
<1>3. IsMovement(BodyOf(r)) => ParseMoneyToMinorUnits(BodyOf(r).command.amount) > 0
  BY <1>1, AtStep, MovedIsPositive
<1>4. /\ pc'[r] \in {"completeTransaction", "failTransaction"} => IsMovement(BodyOf(r))
      /\ pc'[r] \in {"completeTransaction", "failTransaction", "completeKey", "failKey"}
      /\ err'[r] # "accepted"
  BY AtStep DEF RunsCommand, AfterCommand, AfterError, DoneOf
<1>5. IsMovement(BodyOf(r)) => registry'[TransactionOf(r)].body = BodyOf(r)
  BY <1>1, AtStep DEF DoneOf, Holding
<1>6. DoneOf(r)'
  BY <1>1, <1>2, <1>3, <1>4, <1>5, AtStep DEF DoneOf
<1>7. QED
  BY <1>1, <1>6, AtStep, DoneFrame

\* The registry says COMPLETED of a movement that was committed only.
LEMMA MarksTransactionDone ==
    ASSUME IInv, DoneOK, NEW r \in Requests, UNCHANGED request, OthersStay(r), MarksTransaction(r)
    PROVE  DoneOK'
<1>1. /\ UNCHANGED <<keys, committed>> /\ answer'[r] = answer[r]
      /\ pc[r] \in {"completeTransaction", "failTransaction"}
  BY DEF MarksTransaction
<1>2. IsMovement(BodyOf(r)) /\ registry[TransactionOf(r)].body = BodyOf(r)
  BY <1>1, AtStep DEF DoneOf, Holding
<1>3. PICK status : /\ SetTransaction(r, status)
                    /\ status = "COMPLETED" => r \in committed
  BY AtStep DEF MarksTransaction, DoneOf
<1>4. /\ registry'[TransactionOf(r)].status = status
      /\ registry'[TransactionOf(r)].body = BodyOf(r)
      /\ \A t \in Transactions : t # TransactionOf(r) => registry'[t] = registry[t]
  BY <1>2, <1>3, AtStep, SetTransactionAt
<1>5. TransactionDone(TransactionOf(r))'
  BY <1>1, <1>3, <1>4, AtStep DEF TransactionDone
<1>6. \A t \in Transactions :
         \/ registry'[t] = registry[t]
         \/ TransactionDone(t)' /\ registry'[t].body = registry[t].body
  BY <1>2, <1>4, <1>5, AtStep DEF TransactionDone
<1>7. r \in committed => DoneFor(BodyOf(r), KeyOf(r))'
  BY <1>1 DEF DoneFor
<1>8. DoneOf(r)'
  BY <1>1, <1>2, <1>4, <1>7, AtStep DEF MarksTransaction, DoneOf
<1>9. QED
  BY <1>1, <1>6, <1>8, AtStep, DoneFrame

LEMMA MarksKeyDone ==
    ASSUME IInv, DoneOK, NEW r \in Requests, UNCHANGED request, OthersStay(r), MarksKey(r)
    PROVE  DoneOK'
<1>1. UNCHANGED <<registry, committed>> /\ pc[r] \in {"completeKey", "failKey"}
  BY DEF MarksKey
<1>2. PICK status : /\ SetKey(r, status)
                    /\ status = "COMPLETED" => DoneFor(BodyOf(r), KeyOf(r))
  BY AtStep DEF MarksKey, DoneOf
<1>3. DoneFor(BodyOf(r), KeyOf(r)) => DoneFor(BodyOf(r), KeyOf(r))'
  BY <1>1 DEF DoneFor, BodyOf, KeyOf
<1>4. \A k \in Keys : keys'[k] = keys[k] \/ KeyDone(k)'
  <2>1. /\ keys'[KeyOf(r)].status = status /\ keys'[KeyOf(r)].body = BodyOf(r)
        /\ \A k \in Keys : k # KeyOf(r) => keys'[k] = keys[k]
    BY <1>2, AtStep, SetKeyAt
  <2>2. ASSUME NEW k \in Keys, k = KeyOf(r) PROVE KeyDone(k)'
    BY <1>1, <1>2, <2>1, <2>2 DEF KeyDone, DoneFor, BodyOf, KeyOf
  <2>3. QED
    BY <2>1, <2>2
<1>5. DoneOf(r)'
  BY <1>1, <1>2, <1>3, AtStep DEF MarksKey, DoneOf, Holding
<1>6. QED
  BY <1>1, <1>4, <1>5, AtStep, DoneFrame

LEMMA GivesUpDone ==
    ASSUME IInv, DoneOK, NEW r \in Requests, UNCHANGED request, OthersStay(r), GivesUp(r)
    PROVE  DoneOK'
<1>1. UNCHANGED <<keys, registry, committed>>
  BY DEF GivesUp
<1>2. /\ pc'[r] \in {"failTransaction", "failKey", "done", "crashed"}
      /\ pc'[r] = "failTransaction" =>
            IsMovement(BodyOf(r)) /\ registry[TransactionOf(r)].body = BodyOf(r)
      /\ err'[r] # "accepted" /\ answer'[r] # "accepted"
  BY AtStep DEF GivesUp, AfterError, DoneOf, Holding, Running
<1>3. DoneOf(r)'
  BY <1>1, <1>2, AtStep DEF DoneOf, Holding
<1>4. QED
  BY <1>1, <1>3, AtStep, DoneFrame

LEMMA KindsDone ==
    ASSUME IInv, DoneOK, NEW r \in Requests, UNCHANGED request, OthersStay(r), Kinds(r)
    PROVE  DoneOK'
BY OpensKeyDone, AnsweredFromKeyDone, OpensTransactionDone, AnsweredFromTransactionDone,
   RunsCommandDone, MarksTransactionDone, MarksKeyDone, GivesUpDone DEF Kinds

\* Every step is of one of the kinds, or changes nothing.
LEMMA NextKinds ==
    ASSUME TypeOK, [Next]_vars
    PROVE  \/ \E r \in Requests : UNCHANGED request /\ OthersStay(r) /\ Kinds(r)
           \/ UNCHANGED vars
BY StepKinds, FaultKinds DEF Next

LEMMA NextDone == IInv /\ DoneOK /\ [Next]_vars => DoneOK'
<1> SUFFICES ASSUME IInv, DoneOK, [Next]_vars PROVE DoneOK'
  OBVIOUS
<1>1. CASE \E r \in Requests : UNCHANGED request /\ OthersStay(r) /\ Kinds(r)
  BY <1>1, KindsDone
<1>2. CASE UNCHANGED vars
  BY <1>2 DEF vars, DoneOK, DoneOf, TransactionDone, KeyDone, DoneFor, TransactionOf, BodyOf, KeyOf
<1>3. QED
  BY <1>1, <1>2, NextKinds DEF IInv

LEMMA InitDone == Init => DoneOK
BY DEF Init, DoneOK, DoneOf, TransactionDone, KeyDone, Holding

\* A client that is told "accepted", from wherever the answer was copied, asked for
\* something that was done (execute of IdempotencyService and of
\* TransactionRegistryService).
THEOREM AcceptedMeansDone == Spec => []AcceptedIsDone
<1>1. Spec => []DoneOK
  BY Invariant, InitDone, NextDone, PTL DEF Spec
<1>2. ASSUME TypeOK, DoneOK PROVE AcceptedIsDone
  <2>1. SUFFICES ASSUME NEW r \in Requests, answer[r] = "accepted"
                 PROVE  \E q \in committed : IF IsMovement(BodyOf(r)) THEN BodyOf(q) = BodyOf(r)
                                             ELSE request[q] = request[r]
    BY DEF AcceptedIsDone
  <2>2. PICK q \in committed : BodyOf(q) = BodyOf(r) /\ (IsMovement(BodyOf(r)) \/ KeyOf(q) = KeyOf(r))
    BY <1>2, <2>1 DEF DoneOK, DoneOf, DoneFor
  <2>3. request[q] \in [key : Keys, body : Bodies] /\ request[r] \in [key : Keys, body : Bodies]
    BY <1>2 DEF TypeOK
  <2>4. KeyOf(q) = KeyOf(r) => request[q] = request[r]
    BY <2>2, <2>3 DEF BodyOf, KeyOf
  <2>5. QED
    BY <2>2, <2>4
<1>3. QED
  BY <1>1, <1>2, TypeCorrect, PTL

-----------------------------------------------------------------------------
(* A retry of what was accepted is accepted                                *)
(*                                                                         *)
(* A key belongs to the one request that inserted its record, and only     *)
(* that request writes it: what it was told is what the record says.       *)

\* The request inserted its idempotency record and went on, or even committed.
Passed(r) == Running(r) \/ r \in committed

KeyHeld(r) == keys[KeyOf(r)].status # "NONE" /\ keys[KeyOf(r)].body = BodyOf(r)

KeyOwned ==
    /\ \A r \in Requests : Passed(r) => KeyHeld(r)
    /\ \A r, q \in Requests : Passed(r) /\ Passed(q) /\ KeyOf(r) = KeyOf(q) => r = q
    /\ \A r \in Requests :
          r \in committed /\ answer[r] = "accepted" => keys[KeyOf(r)].status = "COMPLETED"

\* The reservation of a key makes its owner, as nobody owns a key without a record.
LEMMA OpensKeyOwned ==
    ASSUME IInv, DoneOK, KeyOwned, NEW r \in Requests, UNCHANGED request, OthersStay(r), OpensKey(r)
    PROVE  KeyOwned'
<1>1. /\ UNCHANGED committed /\ SetKey(r, "IN_PROGRESS") /\ keys[KeyOf(r)].status = "NONE"
      /\ pc[r] = "new"
  BY DEF OpensKey
<1>2. /\ keys'[KeyOf(r)].status = "IN_PROGRESS" /\ keys'[KeyOf(r)].body = BodyOf(r)
      /\ \A k \in Keys : k # KeyOf(r) => keys'[k] = keys[k]
  BY <1>1, AtStep, SetKeyAt
<1>3. r \notin committed
  BY <1>1, AtStep DEF ErrorKnownOf
<1>4. \A q \in Requests : KeyOf(q) = KeyOf(r) => ~Passed(q)
  BY <1>1 DEF KeyOwned, KeyHeld
<1>5. ASSUME NEW q \in Requests, q # r
      PROVE  /\ Passed(q)' <=> Passed(q)
             /\ q \in committed' /\ answer'[q] = "accepted" => q \in committed /\ answer[q] = "accepted"
             /\ Passed(q) => keys'[KeyOf(q)] = keys[KeyOf(q)]
  <2>1. Passed(q)' <=> Passed(q)
    BY <1>5 DEF OthersStay, Passed, Running
  <2>2. KeyOf(q) \in Keys
    BY AtStep
  <2>3. QED
    BY <1>2, <1>4, <1>5, <2>1, <2>2 DEF OthersStay
<1>6. \A q \in Requests : BodyOf(q)' = BodyOf(q) /\ KeyOf(q)' = KeyOf(q)
  BY DEF BodyOf, KeyOf
<1>7. ASSUME NEW q \in Requests, Passed(q)' PROVE KeyHeld(q)'
  <2>1. CASE q = r
    BY <1>2, <1>6, <2>1 DEF KeyHeld
  <2>2. CASE q # r
    BY <1>5, <1>6, <1>7, <2>2 DEF KeyOwned, KeyHeld
  <2>3. QED
    BY <2>1, <2>2
<1>8. \A p, q \in Requests : Passed(p)' /\ Passed(q)' /\ KeyOf(p)' = KeyOf(q)' => p = q
  BY <1>4, <1>5, <1>6 DEF KeyOwned
<1>9. \A q \in Requests : q \in committed' /\ answer'[q] = "accepted" => keys'[KeyOf(q)'].status = "COMPLETED"
  BY <1>1, <1>3, <1>5, <1>6 DEF KeyOwned, Passed
<1>10. QED
  BY <1>7, <1>8, <1>9 DEF KeyOwned

\* No other step makes an owner, and only the owner writes the record.
LEMMA OwnedFrame ==
    ASSUME IInv, DoneOK, KeyOwned, NEW r \in Requests, UNCHANGED request, OthersStay(r),
           Passed(r)' => Passed(r),
           \/ UNCHANGED keys
           \/ \E status \in {"COMPLETED", "FAILED"} : SetKey(r, status) /\ Passed(r),
           r \in committed' /\ answer'[r] = "accepted" => keys'[KeyOf(r)].status = "COMPLETED"
    PROVE  KeyOwned'
<1>1. \A q \in Requests : BodyOf(q)' = BodyOf(q) /\ KeyOf(q)' = KeyOf(q) /\ KeyOf(q) \in Keys
  BY AtStep DEF BodyOf, KeyOf
<1>2. \A q \in Requests : Passed(q)' => Passed(q)
  BY DEF OthersStay, Passed, Running
<1>3. ASSUME NEW q \in Requests, Passed(q), q # r PROVE keys'[KeyOf(q)] = keys[KeyOf(q)]
  <2>1. CASE \E status \in {"COMPLETED", "FAILED"} : SetKey(r, status) /\ Passed(r)
    <3>1. KeyOf(q) # KeyOf(r)
      BY <1>3, <2>1 DEF KeyOwned
    <3>2. \A k \in Keys : k # KeyOf(r) => keys'[k] = keys[k]
      BY <2>1, AtStep, SetKeyAt
    <3>3. QED
      BY <1>1, <3>1, <3>2
  <2>2. QED
    BY <2>1
<1>4. Passed(r) => KeyHeld(r)'
  <2>1. CASE \E status \in {"COMPLETED", "FAILED"} : SetKey(r, status) /\ Passed(r)
    <3>1. keys'[KeyOf(r)].status \in {"COMPLETED", "FAILED"} /\ keys'[KeyOf(r)].body = BodyOf(r)
      BY <2>1, AtStep, SetKeyAt
    <3>2. QED
      BY <1>1, <3>1 DEF KeyHeld
  <2>2. CASE UNCHANGED keys
    BY <1>1, <2>2 DEF KeyOwned, KeyHeld
  <2>3. QED
    BY <2>1, <2>2
<1>5. \A q \in Requests : Passed(q)' => KeyHeld(q)'
  BY <1>1, <1>2, <1>3, <1>4 DEF KeyOwned, KeyHeld
<1>6. \A p, q \in Requests : Passed(p)' /\ Passed(q)' /\ KeyOf(p)' = KeyOf(q)' => p = q
  BY <1>1, <1>2 DEF KeyOwned
<1>7. ASSUME NEW q \in Requests, q \in committed', answer'[q] = "accepted"
      PROVE  keys'[KeyOf(q)'].status = "COMPLETED"
  <2>1. CASE q = r
    BY <1>1, <1>7, <2>1
  <2>2. CASE q # r
    <3>1. q \in committed /\ answer[q] = "accepted" /\ Passed(q)
      BY <1>7, <2>2 DEF OthersStay, Passed
    <3>2. QED
      BY <1>1, <1>3, <2>2, <3>1 DEF KeyOwned
  <2>3. QED
    BY <2>1, <2>2
<1>8. QED
  BY <1>5, <1>6, <1>7 DEF KeyOwned

LEMMA KindsOwned ==
    ASSUME IInv, DoneOK, KeyOwned, NEW r \in Requests, UNCHANGED request, OthersStay(r), Kinds(r)
    PROVE  KeyOwned'
<1>1. CASE OpensKey(r)
  BY <1>1, OpensKeyOwned
<1>2. CASE AnsweredFromKey(r)
  <2>1. UNCHANGED <<keys, committed>> /\ r \notin committed /\ pc'[r] = "done"
    BY <1>2, AtStep DEF AnsweredFromKey, ErrorKnownOf
  <2>2. QED
    BY <2>1, OwnedFrame DEF Passed, Running
<1>3. CASE OpensTransaction(r) \/ AnsweredFromTransaction(r) \/ RunsCommand(r) \/ MarksTransaction(r)
  <2>1. /\ UNCHANGED keys /\ answer'[r] = answer[r]
        /\ pc[r] \in {"reserveTransaction", "handler", "completeTransaction", "failTransaction"}
    BY <1>3 DEF OpensTransaction, AnsweredFromTransaction, RunsCommand, MarksTransaction
  <2>2. answer[r] = "none" /\ Passed(r)
    BY <2>1, AtStep DEF Passed, Running
  <2>3. QED
    BY <2>1, <2>2, OwnedFrame
<1>4. CASE MarksKey(r)
  <2>1. pc[r] \in {"completeKey", "failKey"} /\ UNCHANGED committed
    BY <1>4 DEF MarksKey
  <2>2. Passed(r) /\ answer[r] = "none" /\ err[r] # "accepted"
    BY <2>1, AtStep DEF Passed, Running, DoneOf
  <2>3. PICK status \in {"COMPLETED", "FAILED"} :
           SetKey(r, status) /\ (answer'[r] = "accepted" => status = "COMPLETED")
    BY <1>4, <2>2 DEF MarksKey
  <2>4. keys'[KeyOf(r)].status = status
    BY <2>3, AtStep, SetKeyAt
  <2>5. QED
    BY <2>2, <2>3, <2>4, OwnedFrame
<1>5. CASE GivesUp(r)
  <2>1. UNCHANGED <<keys, committed>> /\ Running(r) /\ answer'[r] # "accepted"
    BY <1>5, AtStep DEF GivesUp, Running
  <2>2. QED
    BY <2>1, OwnedFrame DEF Passed
<1>6. QED
  BY <1>1, <1>2, <1>3, <1>4, <1>5 DEF Kinds

LEMMA NextOwned == IInv /\ DoneOK /\ KeyOwned /\ [Next]_vars => KeyOwned'
<1> SUFFICES ASSUME IInv, DoneOK, KeyOwned, [Next]_vars PROVE KeyOwned'
  OBVIOUS
<1>1. CASE \E r \in Requests : UNCHANGED request /\ OthersStay(r) /\ Kinds(r)
  BY <1>1, KindsOwned
<1>2. CASE UNCHANGED vars
  BY <1>2 DEF vars, KeyOwned, KeyHeld, Passed, Running, BodyOf, KeyOf
<1>3. QED
  BY <1>1, <1>2, NextKinds DEF IInv

LEMMA InitOwned == Init => KeyOwned
BY DEF Init, KeyOwned, Passed, Running

\* The answer of a retry, once its original was told "accepted".
LEMMA RetryStep ==
    ASSUME IInv, DoneOK, KeyOwned, NEW p \in Requests, UNCHANGED request, OthersStay(p), Kinds(p),
           NEW r \in Requests, NEW q \in Requests,
           q \in committed, answer[q] = "accepted", request[r] = request[q],
           answer[r] = "none", answer'[r] # "none"
    PROVE  answer'[r] \in {"accepted", "error"}
<1>1. r = p
  BY DEF OthersStay
<1>2. KeyOf(r) = KeyOf(q) /\ BodyOf(r) = BodyOf(q)
  BY DEF KeyOf, BodyOf
<1>3. keys[KeyOf(r)].status = "COMPLETED" /\ keys[KeyOf(r)].body = BodyOf(r)
  BY <1>2 DEF KeyOwned, KeyHeld, Passed
<1>4. ~Running(r)
  BY <1>2 DEF KeyOwned, Passed
<1>5. OpensKey(r) \/ AnsweredFromKey(r)
  BY <1>1, <1>4 DEF Kinds, Running, OpensTransaction, AnsweredFromTransaction, RunsCommand,
                    MarksTransaction, MarksKey, GivesUp
<1>6. AnsweredFromKey(r)
  BY <1>3, <1>5 DEF OpensKey
<1>7. KeyAnswer(keys[KeyOf(r)], BodyOf(r)) = "accepted"
  BY <1>3 DEF KeyAnswer
<1>8. QED
  BY <1>6, <1>7 DEF AnsweredFromKey

\* A retry with the same key and payload of a request that was accepted is accepted
\* as well, unless the database cannot be reached (IdempotencyService.execute).
THEOREM RetryAccepted == Spec => RetryGetsOriginal
<1>1. Spec => [](IInv /\ DoneOK /\ KeyOwned)
  BY Invariant, InitDone, NextDone, InitOwned, NextOwned, PTL DEF Spec
<1>2. ASSUME IInv, DoneOK, KeyOwned, [Next]_vars
      PROVE  [\A r, q \in Requests :
                 /\ q \in committed /\ answer[q] = "accepted" /\ request[r] = request[q]
                 /\ answer[r] = "none" /\ answer'[r] # "none"
                 => answer'[r] \in {"accepted", "error"}]_vars
  <2>1. CASE \E p \in Requests : UNCHANGED request /\ OthersStay(p) /\ Kinds(p)
    BY <1>2, <2>1, RetryStep
  <2>2. CASE UNCHANGED vars
    BY <2>2
  <2>3. QED
    BY <1>2, <2>1, <2>2, NextKinds DEF IInv
<1>3. QED
  BY <1>1, <1>2, PTL DEF Spec, RetryGetsOriginal

-----------------------------------------------------------------------------
(* Whoever is told "in progress" is told the truth                         *)
(*                                                                         *)
(* A record stays open only as long as the request that opened it has not  *)
(* told its client how it ended.                                           *)

\* The request holds a transaction it reserved, or lost track of it.
Pends(q) ==
    \/ pc[q] \in Holding
    \/ pc[q] = "failKey" /\ err[q] = "error"
    \/ pc[q] = "crashed"
    \/ answer[q] = "error"

OpenKey(k) == keys[k].status = "IN_PROGRESS" => \E q \in Requests : KeyOf(q) = k /\ Undecided(q)

OpenTransaction(t) ==
    registry[t].status = "PENDING" => \E q \in Requests : TransactionOf(q) = t /\ Pends(q)

OpenOK == (\A k \in Keys : OpenKey(k)) /\ (\A t \in Transactions : OpenTransaction(t))

\* A record that is open after a step of r was open before, or r opened it.
LEMMA OpenFrame ==
    ASSUME IInv, DoneOK, OpenOK, NEW r \in Requests, UNCHANGED request, OthersStay(r),
           \A k \in Keys : k # KeyOf(r) => keys'[k] = keys[k],
           keys'[KeyOf(r)].status = "IN_PROGRESS" =>
              Undecided(r)' \/ (keys[KeyOf(r)].status = "IN_PROGRESS" /\ ~Undecided(r)),
           \A t \in Transactions : t # TransactionOf(r) => registry'[t] = registry[t],
           IsMovement(BodyOf(r)) /\ registry'[TransactionOf(r)].status = "PENDING" =>
              Pends(r)' \/ (registry[TransactionOf(r)].status = "PENDING" /\ ~Pends(r))
    PROVE  OpenOK'
<1>1. \A q \in Requests : q # r => (Undecided(q)' <=> Undecided(q)) /\ (Pends(q)' <=> Pends(q))
  BY DEF OthersStay, Undecided, Running, Pends
<1>2. \A q \in Requests : KeyOf(q)' = KeyOf(q) /\ TransactionOf(q)' = TransactionOf(q)
  BY DEF KeyOf, TransactionOf, BodyOf
<1>3. ASSUME NEW k \in Keys, keys'[k].status = "IN_PROGRESS"
      PROVE  \E q \in Requests : KeyOf(q)' = k /\ Undecided(q)'
  <2>1. CASE k = KeyOf(r) /\ Undecided(r)'
    BY <1>2, <2>1
  <2>2. CASE ~(k = KeyOf(r) /\ Undecided(r)')
    <3>1. keys[k].status = "IN_PROGRESS" /\ (k = KeyOf(r) => ~Undecided(r))
      BY <1>3, <2>2
    <3>2. PICK q \in Requests : KeyOf(q) = k /\ Undecided(q)
      BY <3>1 DEF OpenOK, OpenKey
    <3>3. q # r
      BY <3>1, <3>2
    <3>4. QED
      BY <1>1, <1>2, <3>2, <3>3
  <2>3. QED
    BY <2>1, <2>2
<1>4. ASSUME NEW t \in Transactions, registry'[t].status = "PENDING"
      PROVE  \E q \in Requests : TransactionOf(q)' = t /\ Pends(q)'
  <2>1. CASE t = TransactionOf(r) /\ Pends(r)'
    BY <1>2, <2>1
  <2>2. CASE ~(t = TransactionOf(r) /\ Pends(r)')
    <3>1. registry[t].status = "PENDING" /\ (t = TransactionOf(r) => ~Pends(r))
      BY <1>4, <2>2, AtStep
    <3>2. PICK q \in Requests : TransactionOf(q) = t /\ Pends(q)
      BY <3>1 DEF OpenOK, OpenTransaction
    <3>3. q # r
      BY <3>1, <3>2
    <3>4. QED
      BY <1>1, <1>2, <3>2, <3>3
  <2>3. QED
    BY <2>1, <2>2
<1>5. QED
  BY <1>3, <1>4 DEF OpenOK, OpenKey, OpenTransaction

LEMMA KindsOpen ==
    ASSUME IInv, DoneOK, OpenOK, NEW r \in Requests, UNCHANGED request, OthersStay(r), Kinds(r)
    PROVE  OpenOK'
<1>1. CASE OpensKey(r)
  <2>1. UNCHANGED registry /\ SetKey(r, "IN_PROGRESS") /\ pc[r] = "new" /\ answer[r] = "none"
    BY <1>1, AtStep DEF OpensKey
  <2>2. Undecided(r)' /\ ~Pends(r)
    BY <1>1, <2>1 DEF OpensKey, Undecided, Running, Pends, Holding
  <2>3. QED
    BY <2>1, <2>2, AtStep, SetKeyAt, OpenFrame
<1>2. CASE AnsweredFromKey(r)
  <2>1. UNCHANGED <<keys, registry>> /\ ~Undecided(r) /\ ~Pends(r)
    BY <1>2, AtStep DEF AnsweredFromKey, Undecided, Running, Pends, Holding
  <2>2. QED
    BY <2>1, OpenFrame
<1>3. CASE OpensTransaction(r)
  <2>1. UNCHANGED keys /\ NewTransaction(r) /\ IsMovement(BodyOf(r)) /\ Undecided(r)' /\ Pends(r)'
    BY <1>3, AtStep DEF OpensTransaction, DoneOf, Undecided, Running, Pends, Holding
  <2>2. \A t \in Transactions : t # TransactionOf(r) => registry'[t] = registry[t]
    BY <2>1, AtStep, NewTransactionAt
  <2>3. QED
    BY <2>1, <2>2, OpenFrame
<1>4. CASE AnsweredFromTransaction(r)
  <2>1. UNCHANGED <<keys, registry>> /\ Undecided(r)' /\ ~Pends(r)
    BY <1>4, AtStep DEF AnsweredFromTransaction, Undecided, Running, Pends, Holding, ErrorKnownOf
  <2>2. QED
    BY <2>1, OpenFrame
<1>5. CASE RunsCommand(r)
  <2>1. UNCHANGED <<keys, registry>> /\ Undecided(r)' /\ (IsMovement(BodyOf(r)) => Pends(r)')
    BY <1>5 DEF RunsCommand, AfterCommand, AfterError, Undecided, Running, Pends, Holding
  <2>2. QED
    BY <2>1, OpenFrame
<1>6. CASE MarksTransaction(r)
  <2>1. PICK status \in {"COMPLETED", "FAILED_TERMINAL"} : SetTransaction(r, status)
    BY <1>6 DEF MarksTransaction
  <2>2. UNCHANGED keys /\ Undecided(r)' /\ IsMovement(BodyOf(r))
    BY <1>6, AtStep DEF MarksTransaction, DoneOf, Undecided, Running
  <2>3. /\ registry'[TransactionOf(r)].status = status
        /\ \A t \in Transactions : t # TransactionOf(r) => registry'[t] = registry[t]
    BY <2>1, <2>2, AtStep, SetTransactionAt
  <2>4. QED
    BY <2>2, <2>3, OpenFrame
<1>7. CASE MarksKey(r)
  <2>1. PICK status \in {"COMPLETED", "FAILED"} : SetKey(r, status)
    BY <1>7 DEF MarksKey
  <2>2. UNCHANGED registry /\ (Pends(r) => Pends(r)')
    BY <1>7, AtStep DEF MarksKey, Pends, Holding
  <2>3. /\ keys'[KeyOf(r)].status = status
        /\ \A k \in Keys : k # KeyOf(r) => keys'[k] = keys[k]
    BY <2>1, AtStep, SetKeyAt
  <2>4. QED
    BY <2>2, <2>3, OpenFrame
<1>8. CASE GivesUp(r)
  <2>1. UNCHANGED <<keys, registry>> /\ Undecided(r)'
    BY <1>8 DEF GivesUp, AfterError, Undecided, Running
  <2>2. IsMovement(BodyOf(r)) /\ Pends(r) => Pends(r)'
    BY <1>8, AtStep DEF GivesUp, AfterError, Pends, Holding
  <2>3. QED
    BY <2>1, <2>2, OpenFrame
<1>9. QED
  BY <1>1, <1>2, <1>3, <1>4, <1>5, <1>6, <1>7, <1>8 DEF Kinds

LEMMA NextOpen == IInv /\ DoneOK /\ OpenOK /\ [Next]_vars => OpenOK'
<1> SUFFICES ASSUME IInv, DoneOK, OpenOK, [Next]_vars PROVE OpenOK'
  OBVIOUS
<1>1. CASE \E r \in Requests : UNCHANGED request /\ OthersStay(r) /\ Kinds(r)
  BY <1>1, KindsOpen
<1>2. CASE UNCHANGED vars
  BY <1>2 DEF vars, OpenOK, OpenKey, OpenTransaction, Undecided, Running, Pends, KeyOf,
              TransactionOf, BodyOf
<1>3. QED
  BY <1>1, <1>2, NextKinds DEF IInv

LEMMA InitOpen == Init => OpenOK
BY DEF Init, OpenOK, OpenKey, OpenTransaction

\* Who finds an open record finds it with somebody else at work, or lost.
LEMMA InProgressStep ==
    ASSUME IInv, DoneOK, OpenOK, NEW p \in Requests, UNCHANGED request, OthersStay(p), Kinds(p),
           NEW r \in Requests, err[r] # "inProgress"
    PROVE  /\ answer[r] # "inProgress" /\ answer'[r] = "inProgress" =>
                 \E q \in Requests \ {r} : KeyOf(q) = KeyOf(r) /\ Undecided(q)
           /\ err'[r] = "inProgress" =>
                 \E q \in Requests \ {r} : TransactionOf(q) = TransactionOf(r) /\ Undecided(q)
<1>1. ASSUME answer[r] # "inProgress", answer'[r] = "inProgress"
      PROVE  \E q \in Requests \ {r} : KeyOf(q) = KeyOf(r) /\ Undecided(q)
  <2>1. r = p
    BY <1>1 DEF OthersStay
  <2>2. AnsweredFromKey(r)
    BY <1>1, <2>1 DEF Kinds, OpensKey, OpensTransaction, AnsweredFromTransaction, RunsCommand,
                      MarksTransaction, MarksKey, GivesUp
  <2>3. keys[KeyOf(r)].status = "IN_PROGRESS"
    BY <1>1, <2>2 DEF AnsweredFromKey, KeyAnswer
  <2>4. PICK q \in Requests : KeyOf(q) = KeyOf(r) /\ Undecided(q)
    BY <2>3, AtStep DEF OpenOK, OpenKey
  <2>5. ~Undecided(r)
    BY <2>2, AtStep DEF AnsweredFromKey, Undecided, Running
  <2>6. QED
    BY <2>4, <2>5
<1>2. ASSUME err'[r] = "inProgress"
      PROVE  \E q \in Requests \ {r} : TransactionOf(q) = TransactionOf(r) /\ Undecided(q)
  <2>1. r = p
    BY <1>2 DEF OthersStay
  <2>2. AnsweredFromTransaction(r)
    BY <1>2, <2>1 DEF Kinds, OpensKey, AnsweredFromKey, OpensTransaction, RunsCommand,
                      MarksTransaction, MarksKey, GivesUp
  <2>3. registry[TransactionOf(r)].status = "PENDING" /\ TransactionOf(r) \in Transactions
    BY <1>2, <2>2, AtStep DEF AnsweredFromTransaction, TransactionAnswer, DoneOf
  <2>4. PICK q \in Requests : TransactionOf(q) = TransactionOf(r) /\ Pends(q)
    BY <2>3 DEF OpenOK, OpenTransaction
  <2>5. ~Pends(r)
    BY <2>2, AtStep DEF AnsweredFromTransaction, Pends, Holding, ErrorKnownOf
  <2>6. Undecided(q)
    BY <2>4 DEF Pends, Undecided, Running, Holding
  <2>7. QED
    BY <2>4, <2>5, <2>6
<1>3. QED
  BY <1>1, <1>2

\* "Request is already in progress" is told because of another request whose client
\* has no answer yet, or lost it: no request that ended leaves an open record behind.
THEOREM InProgressTold == Spec => InProgressIsTrue
<1>1. Spec => [](IInv /\ DoneOK /\ OpenOK)
  BY Invariant, InitDone, NextDone, InitOpen, NextOpen, PTL DEF Spec
<1>2. ASSUME IInv, DoneOK, OpenOK, [Next]_vars
      PROVE  [\A r \in Requests :
                 /\ answer[r] # "inProgress" /\ answer'[r] = "inProgress" /\ err[r] # "inProgress" =>
                       \E q \in Requests \ {r} : KeyOf(q) = KeyOf(r) /\ Undecided(q)
                 /\ err[r] # "inProgress" /\ err'[r] = "inProgress" =>
                       \E q \in Requests \ {r} :
                          TransactionOf(q) = TransactionOf(r) /\ Undecided(q)]_vars
  <2>1. CASE \E p \in Requests : UNCHANGED request /\ OthersStay(p) /\ Kinds(p)
    BY <1>2, <2>1, InProgressStep
  <2>2. CASE UNCHANGED vars
    BY <2>2
  <2>3. QED
    BY <1>2, <2>1, <2>2, NextKinds DEF IInv
<1>3. QED
  BY <1>1, <1>2, PTL DEF Spec, InProgressIsTrue
=============================================================================
