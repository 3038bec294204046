-------------------------- MODULE OutboxRelayProofs --------------------------
(***************************************************************************)
(* TLAPS proofs about OutboxRelay, for any number of publishers, streams,  *)
(* events, failing calls and crashes and any batch size.                   *)
(*                                                                         *)
(* A row stays claimed or published while a publisher has it in its batch  *)
(* (ClaimsOK), so the next claim cannot pick it; a row is marked published *)
(* only after its event was written to the topic (SentOK); and as long as  *)
(* no call fails, a row of a batch is in the topic only between being sent *)
(* and being marked (OnceOK).                                              *)
(***************************************************************************)
EXTENDS OutboxRelay, FiniteSetTheorems, TLAPS

-----------------------------------------------------------------------------
(* The inductive invariant *)

Sent == T!Contents(log)

SentOnce == \A i, j \in DOMAIN log : log[i] = log[j] => i = j

\* The outbox has a row for every committed event and for no other.
StoreOK ==
    /\ version \in [Streams -> Nat]
    /\ log \in Seq(T!Events)
    /\ IsFiniteSet(outbox)
    /\ \A e \in T!Events : e \in outbox <=> T!Committed(e)

ClaimsOK ==
    /\ ClaimExclusive
    /\ \A p \in Publishers : batch[p] \subseteq claimed \cup published

SentOK ==
    /\ published \subseteq Sent
    /\ \A p \in Publishers : pc[p] = "mark" => msg[p] \in Sent

OnceOK ==
    faults = 0 =>
        /\ SentOnce
        /\ Sent \subseteq published \cup claimed
        /\ \A p \in Publishers :
              /\ pc[p] # "fail"
              /\ \A e \in batch[p] : e \in Sent => pc[p] = "mark" /\ e = msg[p]

IInv == TypeOK /\ StoreOK /\ ClaimsOK /\ SentOK /\ OnceOK

-----------------------------------------------------------------------------
(* The store and the topic *)

LEMMA WriteLog ==
    ASSUME NEW e \in T!Events, log \in Seq(T!Events), Write(e)
    PROVE  /\ log' \in Seq(T!Events)
           /\ Sent' = Sent \cup {e}
           /\ SentOnce /\ e \notin Sent => SentOnce'
<1>1. log' = Append(log, e)
  BY DEF Write
<1>2. log' \in Seq(T!Events) /\ DOMAIN log' = 1..Len(log) + 1 /\ DOMAIN log = 1..Len(log)
  BY <1>1
<1>3. log'[Len(log) + 1] = e /\ \A i \in 1..Len(log) : log'[i] = log[i]
  BY <1>1
<1>4. Sent' = Sent \cup {e}
  BY <1>2, <1>3 DEF Sent, T!Contents
<1>5. ASSUME SentOnce, e \notin Sent PROVE SentOnce'
  BY <1>2, <1>3, <1>5 DEF SentOnce, Sent, T!Contents
<1>6. QED
  BY <1>2, <1>4, <1>5

LEMMA NoWrite ==
    ASSUME UNCHANGED log
    PROVE  Sent' = Sent /\ (SentOnce <=> SentOnce')
BY DEF Sent, SentOnce, T!Contents

\* A commit makes one more event committed, the next one of its stream.
LEMMA CommitStore ==
    ASSUME version \in [Streams -> Nat], NEW s \in Streams, T!Commit(s)
    PROVE  /\ version' \in [Streams -> Nat]
           /\ UNCHANGED log
           /\ NextEvent(s) \in T!Events
           /\ \A e \in T!Events : T!Committed(e)' <=> T!Committed(e) \/ e = NextEvent(s)
<1>1. Length[s] \in Nat /\ version[s] \in Nat /\ version[s] < Length[s]
  BY RelayAssumption DEF T!TopicAssumption, T!Commit
<1>2. version' = [version EXCEPT ![s] = @ + 1] /\ UNCHANGED log
  BY DEF T!Commit
<1>3. version[s] + 1 \in 1..Length[s]
  BY <1>1
<1>4. NextEvent(s) \in T!Events
  BY <1>3 DEF NextEvent, T!Events
<1>5. ASSUME NEW e \in T!Events
      PROVE  T!Committed(e)' <=> T!Committed(e) \/ e = NextEvent(s)
  <2>1. PICK u \in Streams : \E v \in 1..Length[u] : e = [stream |-> u, version |-> v]
    BY DEF T!Events
  <2>2. PICK v \in 1..Length[u] : e = [stream |-> u, version |-> v]
    BY <2>1
  <2>3. v \in Nat
    BY <2>2, RelayAssumption DEF T!TopicAssumption
  <2>4. e.stream = u /\ e.version = v
    BY <2>2
  <2>5. e = NextEvent(s) <=> u = s /\ v = version[s] + 1
    BY <2>2 DEF NextEvent
  <2>6. QED
    BY <1>1, <1>2, <2>3, <2>4, <2>5 DEF T!Committed
<1>6. QED
  BY <1>1, <1>2, <1>4, <1>5

-----------------------------------------------------------------------------
(* Steps *)

LEMMA AppendEventIInv ==
    ASSUME IInv, NEW s \in Streams, AppendEvent(s)
    PROVE  IInv'
<1>1. /\ version' \in [Streams -> Nat] /\ UNCHANGED log /\ NextEvent(s) \in T!Events
      /\ \A e \in T!Events : T!Committed(e)' <=> T!Committed(e) \/ e = NextEvent(s)
  BY CommitStore DEF IInv, StoreOK, AppendEvent
<1>2. /\ outbox' = outbox \cup {NextEvent(s)}
      /\ UNCHANGED <<published, claimed, pc, batch, msg, faults, crashes, abandoned>>
  BY DEF AppendEvent, loop
<1>3. Sent' = Sent /\ (SentOnce <=> SentOnce')
  BY <1>1, NoWrite
<1>4. TypeOK'
  BY <1>1, <1>2 DEF IInv, TypeOK
<1>5. StoreOK'
  <2>1. IsFiniteSet(outbox')
    BY <1>2, FS_AddElement DEF IInv, StoreOK
  <2>2. QED
    BY <1>1, <1>2, <2>1 DEF IInv, StoreOK
<1>6. ClaimsOK' /\ SentOK' /\ OnceOK'
  BY <1>2, <1>3 DEF IInv, ClaimsOK, ClaimExclusive, SentOK, OnceOK
<1>7. QED
  BY <1>4, <1>5, <1>6 DEF IInv

\* Everything but an append leaves the events alone; the topic may grow.
Relayed ==
    /\ UNCHANGED <<version, outbox>>
    /\ \/ UNCHANGED log
       \/ \E e \in outbox : Write(e)

LEMMA RelayedStore ==
    ASSUME TypeOK, StoreOK, Relayed
    PROVE  StoreOK' /\ Sent \subseteq Sent'
<1>1. \A e \in T!Events : T!Committed(e)' <=> T!Committed(e)
  BY DEF T!Committed, Relayed
<1>2. CASE UNCHANGED log
  BY <1>1, <1>2, NoWrite DEF StoreOK, Relayed
<1>3. CASE \E e \in outbox : Write(e)
  <2>1. PICK e \in outbox : Write(e)
    BY <1>3
  <2>2. log' \in Seq(T!Events) /\ Sent' = Sent \cup {e}
    BY <2>1, WriteLog DEF TypeOK, StoreOK
  <2>3. QED
    BY <1>1, <2>2 DEF StoreOK, Relayed
<1>4. QED
  BY <1>2, <1>3 DEF Relayed

LEMMA ClaimIInv ==
    ASSUME IInv, NEW p \in Publishers, Claim(p)
    PROVE  IInv'
<1>1. PICK sel \in SUBSET Claimable :
          Selected(sel) /\ claimed' = claimed \cup sel /\ batch' = [batch EXCEPT ![p] = sel]
  BY DEF Claim
<1>2. /\ pc' = [pc EXCEPT ![p] = "send"] /\ pc[p] = "idle" /\ batch[p] = {}
      /\ UNCHANGED <<version, store, log, outbox, published, msg, faults, crashes, abandoned>>
  BY DEF Claim, IInv, TypeOK
<1>3. sel # {}
  <2>1. Claimable # {} /\ Cardinality(sel) = Smaller(BatchSize, Cardinality(Claimable))
    BY <1>1 DEF Claim, Selected
  <2>2. IsFiniteSet(Claimable)
    BY FS_Subset DEF IInv, StoreOK, Claimable
  <2>3. Cardinality(Claimable) \in Nat /\ Cardinality(Claimable) # 0
    BY <2>1, <2>2, FS_CardinalityType, FS_EmptySet
  <2>4. Cardinality(sel) # 0
    BY <2>1, <2>3, RelayAssumption DEF Smaller
  <2>5. QED
    BY <2>4, FS_EmptySet
<1>4. StoreOK' /\ Sent' = Sent /\ (SentOnce <=> SentOnce')
  BY <1>2, NoWrite, RelayedStore DEF IInv, Relayed
<1>5. TypeOK'
  BY <1>1, <1>2, <1>3 DEF IInv, TypeOK, Claimable, PCs
<1>6. ClaimsOK'
  BY <1>1, <1>2 DEF IInv, TypeOK, ClaimsOK, ClaimExclusive, Claimable
<1>7. SentOK'
  BY <1>1, <1>2, <1>4 DEF IInv, TypeOK, SentOK
<1>8. OnceOK'
  BY <1>1, <1>2, <1>4 DEF IInv, TypeOK, OnceOK, Claimable
<1>9. QED
  BY <1>4, <1>5, <1>6, <1>7, <1>8 DEF IInv

\* The steps that leave the batches alone: the rows claimed in vain are not in them.
LEMMA ClaimReplyLostIInv ==
    ASSUME IInv, NEW p \in Publishers, ClaimReplyLost(p)
    PROVE  IInv'
<1>1. PICK sel \in SUBSET Claimable :
          claimed' = claimed \cup sel /\ abandoned' = abandoned \cup sel
  BY DEF ClaimReplyLost
<1>2. /\ faults' = faults + 1 /\ faults < MaxFaults
      /\ UNCHANGED <<version, store, log, outbox, published, pc, batch, msg, crashes>>
  BY DEF ClaimReplyLost, Fault, loop
<1>3. StoreOK' /\ Sent' = Sent
  BY <1>2, NoWrite, RelayedStore DEF IInv, Relayed
<1>4. TypeOK' /\ faults' # 0
  BY <1>1, <1>2, RelayAssumption DEF IInv, TypeOK, Claimable
<1>5. ClaimsOK' /\ SentOK' /\ OnceOK'
  BY <1>1, <1>2, <1>3, <1>4 DEF IInv, ClaimsOK, ClaimExclusive, SentOK, OnceOK
<1>6. QED
  BY <1>3, <1>4, <1>5 DEF IInv

LEMMA PublishIInv ==
    ASSUME IInv, NEW p \in Publishers, Publish(p)
    PROVE  IInv'
<1>1. PICK e \in batch[p] : Write(e) /\ msg' = [msg EXCEPT ![p] = e]
  BY DEF Publish
<1>2. /\ pc[p] = "send" /\ pc' = [pc EXCEPT ![p] = "mark"]
      /\ UNCHANGED <<version, outbox, published, claimed, batch, faults, crashes, abandoned>>
  BY <1>1 DEF Publish, Write, rows
<1>3. e \in outbox /\ e \in T!Events
  BY <1>1 DEF IInv, TypeOK
<1>4. StoreOK'
  BY <1>1, <1>2, <1>3, RelayedStore DEF IInv, Relayed
<1>5. Sent' = Sent \cup {e} /\ (SentOnce /\ e \notin Sent => SentOnce')
  BY <1>1, <1>3, WriteLog DEF IInv, StoreOK
<1>6. TypeOK'
  BY <1>1, <1>2, <1>3 DEF IInv, TypeOK, PCs
<1>7. ClaimsOK'
  BY <1>2 DEF IInv, ClaimsOK, ClaimExclusive
<1>8. SentOK'
  BY <1>1, <1>2, <1>5 DEF IInv, TypeOK, SentOK
<1>9. OnceOK'
  BY <1>1, <1>2, <1>5 DEF IInv, TypeOK, OnceOK, ClaimsOK, ClaimExclusive
<1>10. QED
  BY <1>4, <1>6, <1>7, <1>8, <1>9 DEF IInv

\* What a failing call leaves of the invariant: once a call has failed OnceOK is void.
LEMMA AfterFault ==
    ASSUME TypeOK, Fault
    PROVE  faults' \in 0..MaxFaults /\ OnceOK'
BY RelayAssumption DEF TypeOK, Fault, OnceOK

LEMMA PublishFailsIInv ==
    ASSUME IInv, NEW p \in Publishers, PublishFails(p)
    PROVE  IInv'
<1>1. PICK e \in batch[p] : (Write(e) \/ UNCHANGED <<version, store, log>>) /\ Catch(p, e)
  BY DEF PublishFails
<1>2. /\ pc' = [pc EXCEPT ![p] = "fail"] /\ msg' = [msg EXCEPT ![p] = e]
      /\ UNCHANGED <<version, outbox, published, claimed, batch, crashes, abandoned>>
  BY <1>1 DEF PublishFails, Catch, Write, rows
<1>3. e \in outbox /\ e \in T!Events
  BY <1>1 DEF IInv, TypeOK
<1>4. StoreOK' /\ Sent \subseteq Sent'
  BY <1>1, <1>2, <1>3, RelayedStore DEF IInv, Relayed
<1>5. faults' \in 0..MaxFaults /\ OnceOK'
  BY AfterFault DEF PublishFails, IInv
<1>6. TypeOK'
  BY <1>1, <1>2, <1>3, <1>5 DEF IInv, TypeOK, PCs
<1>7. ClaimsOK' /\ SentOK'
  BY <1>1, <1>2, <1>4 DEF IInv, TypeOK, ClaimsOK, ClaimExclusive, SentOK
<1>8. QED
  BY <1>4, <1>5, <1>6, <1>7 DEF IInv

LEMMA ProducerRetriesIInv ==
    ASSUME IInv, NEW p \in Publishers, ProducerRetries(p)
    PROVE  IInv'
<1>1. /\ Write(msg[p]) /\ Fault
      /\ UNCHANGED <<version, outbox, published, claimed, pc, batch, msg, crashes, abandoned>>
  BY DEF ProducerRetries, Write, rows, loop
<1>2. msg[p] \in outbox
  BY DEF ProducerRetries, IInv, TypeOK
<1>3. StoreOK' /\ Sent \subseteq Sent'
  BY <1>1, <1>2, RelayedStore DEF IInv, Relayed
<1>4. faults' \in 0..MaxFaults /\ OnceOK'
  BY <1>1, AfterFault DEF IInv
<1>5. TypeOK'
  BY <1>1, <1>4 DEF IInv, TypeOK
<1>6. ClaimsOK' /\ SentOK'
  BY <1>1, <1>3 DEF IInv, TypeOK, ClaimsOK, ClaimExclusive, SentOK
<1>7. QED
  BY <1>3, <1>4, <1>5, <1>6 DEF IInv

\* The message is done: it leaves the batch.
LEMMA ProceedType ==
    ASSUME TypeOK, NEW p \in Publishers, pc[p] \in {"mark", "fail"}, Proceed(p), UNCHANGED outbox
    PROVE  /\ pc' \in [Publishers -> PCs]
           /\ batch' \in [Publishers -> SUBSET outbox']
           /\ msg' \in [Publishers -> T!Events \cup {NoMessage}]
           /\ \A q \in Publishers :
                 /\ pc'[q] \in {"idle", "down"} => batch'[q] = {}
                 /\ pc'[q] = "send" => batch'[q] # {}
                 /\ pc'[q] \in {"mark", "fail"} => msg'[q] \in batch'[q]
BY DEF TypeOK, Proceed, PCs

LEMMA MarkPublishedIInv ==
    ASSUME IInv, NEW p \in Publishers, MarkPublished(p)
    PROVE  IInv'
<1>1. /\ published' = published \cup {msg[p]} /\ claimed' = claimed \ {msg[p]}
      /\ pc[p] = "mark" /\ Proceed(p)
      /\ UNCHANGED <<version, store, log, outbox, faults, crashes, abandoned>>
  BY DEF MarkPublished, SetPublished
<1>2. msg[p] \in batch[p] /\ msg[p] \in outbox
  BY <1>1 DEF IInv, TypeOK
<1>3. StoreOK' /\ Sent' = Sent /\ (SentOnce <=> SentOnce')
  BY <1>1, NoWrite, RelayedStore DEF IInv, Relayed
<1>4. TypeOK'
  BY <1>1, <1>2, ProceedType DEF IInv, TypeOK
<1>5. ClaimsOK'
  BY <1>1, <1>2 DEF IInv, TypeOK, ClaimsOK, ClaimExclusive, Proceed
<1>6. SentOK'
  BY <1>1, <1>2, <1>3 DEF IInv, TypeOK, SentOK, Proceed
<1>7. OnceOK'
  BY <1>1, <1>2, <1>3 DEF IInv, TypeOK, OnceOK, Proceed
<1>8. QED
  BY <1>3, <1>4, <1>5, <1>6, <1>7 DEF IInv

LEMMA MarkPublishedFailsIInv ==
    ASSUME IInv, NEW p \in Publishers, MarkPublishedFails(p)
    PROVE  IInv'
<1>1. /\ \/ published' = published \cup {msg[p]} /\ claimed' = claimed \ {msg[p]}
         \/ published' = published /\ claimed' = claimed
      /\ pc[p] = "mark" /\ Fault
      /\ pc' = [pc EXCEPT ![p] = "fail"] /\ msg' = [msg EXCEPT ![p] = msg[p]]
      /\ UNCHANGED <<version, store, log, outbox, batch, crashes, abandoned>>
  BY DEF MarkPublishedFails, SetPublished, Catch, rows
<1>2. msg[p] \in batch[p] /\ msg[p] \in outbox /\ msg[p] \in Sent
  BY <1>1 DEF IInv, TypeOK, SentOK
<1>3. StoreOK' /\ Sent' = Sent
  BY <1>1, NoWrite, RelayedStore DEF IInv, Relayed
<1>4. faults' \in 0..MaxFaults /\ OnceOK'
  BY <1>1, AfterFault DEF IInv
<1>5. TypeOK'
  BY <1>1, <1>2, <1>4 DEF IInv, TypeOK, PCs
<1>6. ClaimsOK' /\ SentOK'
  BY <1>1, <1>2, <1>3 DEF IInv, TypeOK, ClaimsOK, ClaimExclusive, SentOK
<1>7. QED
  BY <1>3, <1>4, <1>5, <1>6 DEF IInv

LEMMA MarkFailedIInv ==
    ASSUME IInv, NEW p \in Publishers, MarkFailed(p)
    PROVE  IInv'
<1>1. /\ published' = published /\ claimed' = claimed \ {msg[p]}
      /\ pc[p] = "fail" /\ Proceed(p)
      /\ UNCHANGED <<version, store, log, outbox, faults, crashes, abandoned>>
  BY DEF MarkFailed, SetFailed
<1>2. msg[p] \in batch[p] /\ msg[p] \in outbox
  BY <1>1 DEF IInv, TypeOK
<1>3. StoreOK' /\ Sent' = Sent
  BY <1>1, NoWrite, RelayedStore DEF IInv, Relayed
<1>4. faults # 0
  BY <1>1 DEF IInv, OnceOK
<1>5. TypeOK'
  BY <1>1, <1>2, ProceedType DEF IInv, TypeOK
<1>6. ClaimsOK'
  BY <1>1, <1>2 DEF IInv, TypeOK, ClaimsOK, ClaimExclusive, Proceed
<1>7. SentOK' /\ OnceOK'
  BY <1>1, <1>2, <1>3, <1>4 DEF IInv, TypeOK, SentOK, OnceOK, Proceed
<1>8. QED
  BY <1>3, <1>5, <1>6, <1>7 DEF IInv

\* Dropping a batch: what it held stays claimed.
LEMMA DropType ==
    ASSUME TypeOK, NEW p \in Publishers, NEW label \in {"idle", "down"},
           NEW lost \in SUBSET outbox, Drop(p, label, lost), UNCHANGED outbox
    PROVE  /\ abandoned' \subseteq outbox'
           /\ pc' \in [Publishers -> PCs]
           /\ batch' \in [Publishers -> SUBSET outbox']
           /\ msg' \in [Publishers -> T!Events \cup {NoMessage}]
           /\ \A q \in Publishers :
                 /\ pc'[q] \in {"idle", "down"} => batch'[q] = {}
                 /\ pc'[q] = "send" => batch'[q] # {}
                 /\ pc'[q] \in {"mark", "fail"} => msg'[q] \in batch'[q]
BY DEF TypeOK, Drop, PCs

LEMMA MarkFailedFailsIInv ==
    ASSUME IInv, NEW p \in Publishers, MarkFailedFails(p)
    PROVE  IInv'
<1>1. PICK lost \in {batch[p], batch[p] \ {msg[p]}} :
          /\ Drop(p, "idle", lost)
          /\ published' = published /\ claimed' \in {claimed, claimed \ {msg[p]}}
          /\ UNCHANGED outbox
  BY DEF MarkFailedFails, SetFailed, rows
<1>2. pc[p] = "fail" /\ Fault /\ UNCHANGED <<version, store, log, crashes>>
  BY DEF MarkFailedFails
<1>3. lost \in SUBSET outbox /\ msg[p] \in batch[p]
  BY <1>1, <1>2 DEF IInv, TypeOK
<1>4. StoreOK' /\ Sent' = Sent
  BY <1>1, <1>2, NoWrite, RelayedStore DEF IInv, Relayed
<1>5. faults' \in 0..MaxFaults /\ OnceOK'
  BY <1>2, AfterFault DEF IInv
<1>6. TypeOK'
  BY <1>1, <1>2, <1>3, <1>5, DropType DEF IInv, TypeOK
<1>7. ClaimsOK' /\ SentOK'
  BY <1>1, <1>2, <1>3, <1>4 DEF IInv, TypeOK, ClaimsOK, ClaimExclusive, SentOK, Drop
<1>8. QED
  BY <1>4, <1>5, <1>6, <1>7 DEF IInv

LEMMA CrashIInv ==
    ASSUME IInv, NEW p \in Publishers, Crash(p)
    PROVE  IInv'
<1>1. /\ Drop(p, "down", batch[p]) /\ crashes' = crashes + 1 /\ crashes < MaxCrashes
      /\ UNCHANGED <<version, store, log, outbox, published, claimed, faults>>
  BY DEF Crash, rows
<1>2. batch[p] \in SUBSET outbox
  BY DEF IInv, TypeOK
<1>3. StoreOK' /\ Sent' = Sent /\ (SentOnce <=> SentOnce')
  BY <1>1, NoWrite, RelayedStore DEF IInv, Relayed
<1>4. TypeOK'
  BY <1>1, <1>2, DropType, RelayAssumption DEF IInv, TypeOK
<1>5. ClaimsOK' /\ SentOK' /\ OnceOK'
  BY <1>1, <1>3 DEF IInv, TypeOK, ClaimsOK, ClaimExclusive, SentOK, OnceOK, Drop
<1>6. QED
  BY <1>3, <1>4, <1>5 DEF IInv

LEMMA RestartIInv ==
    ASSUME IInv, NEW p \in Publishers, Restart(p)
    PROVE  IInv'
<1>1. /\ pc[p] = "down" /\ pc' = [pc EXCEPT ![p] = "idle"]
      /\ UNCHANGED <<version, store, log, outbox, published, claimed, batch, msg, faults, crashes,
                     abandoned>>
  BY DEF Restart, rows
<1>2. StoreOK' /\ Sent' = Sent /\ (SentOnce <=> SentOnce')
  BY <1>1, NoWrite, RelayedStore DEF IInv, Relayed
<1>3. TypeOK'
  BY <1>1 DEF IInv, TypeOK, PCs
<1>4. ClaimsOK' /\ SentOK' /\ OnceOK'
  BY <1>1, <1>2 DEF IInv, TypeOK, ClaimsOK, ClaimExclusive, SentOK, OnceOK
<1>5. QED
  BY <1>2, <1>3, <1>4 DEF IInv

LEMMA StutterIInv ==
    ASSUME IInv, UNCHANGED vars
    PROVE  IInv'
<1>1. UNCHANGED <<version, store, log, outbox, published, claimed, pc, batch, msg, faults, crashes,
                 abandoned>>
  BY DEF vars, rows, loop
<1>2. StoreOK' /\ Sent' = Sent /\ (SentOnce <=> SentOnce')
  BY <1>1, NoWrite, RelayedStore DEF IInv, Relayed
<1>3. QED
  BY <1>1, <1>2 DEF IInv, TypeOK, ClaimsOK, ClaimExclusive, SentOK, OnceOK

-----------------------------------------------------------------------------
(* Theorems *)

LEMMA InitIInv == Init => IInv
<1>1. SUFFICES ASSUME Init PROVE IInv
  OBVIOUS
<1>2. /\ version = [s \in Streams |-> 0] /\ log = <<>>
      /\ outbox = {} /\ published = {} /\ claimed = {} /\ abandoned = {}
      /\ pc = [p \in Publishers |-> "idle"] /\ batch = [p \in Publishers |-> {}]
      /\ msg = [p \in Publishers |-> NoMessage] /\ faults = 0 /\ crashes = 0
  BY <1>1 DEF Init, T!Init
<1>3. TypeOK
  BY <1>2, RelayAssumption DEF TypeOK, PCs
<1>4. StoreOK
  <2>1. ASSUME NEW e \in T!Events PROVE ~T!Committed(e)
    <3>1. PICK u \in Streams : \E v \in 1..Length[u] : e = [stream |-> u, version |-> v]
      BY DEF T!Events
    <3>2. QED
      BY <1>2, <3>1, RelayAssumption DEF T!TopicAssumption, T!Committed
  <2>2. QED
    BY <1>2, <2>1, FS_EmptySet DEF StoreOK
<1>5. Sent = {} /\ SentOnce
  BY <1>2 DEF Sent, SentOnce, T!Contents
<1>6. ClaimsOK /\ SentOK /\ OnceOK
  BY <1>2, <1>5 DEF ClaimsOK, ClaimExclusive, SentOK, OnceOK
<1>7. QED
  BY <1>3, <1>4, <1>6 DEF IInv

LEMMA NextIInv == IInv /\ [Next]_vars => IInv'
<1> SUFFICES ASSUME IInv, [Next]_vars PROVE IInv'
  OBVIOUS
<1>1. ASSUME NEW s \in Streams, AppendEvent(s) PROVE IInv'
  BY <1>1, AppendEventIInv
<1>2. ASSUME NEW p \in Publishers, Step(p) PROVE IInv'
  BY <1>2, ClaimIInv, ClaimReplyLostIInv, PublishIInv, PublishFailsIInv, ProducerRetriesIInv,
     MarkPublishedIInv, MarkPublishedFailsIInv, MarkFailedIInv, MarkFailedFailsIInv
     DEF Step
<1>3. ASSUME NEW p \in Publishers, Poll(p) \/ Crash(p) \/ Restart(p) PROVE IInv'
  BY <1>3, CrashIInv, RestartIInv, StutterIInv DEF Poll
<1>4. QED
  BY <1>1, <1>2, <1>3, StutterIInv DEF Next

\* Claims, rows and topic agree in every state of the relay.
THEOREM Invariant == Spec => []IInv
BY InitIInv, NextIInv, PTL DEF Spec

\* The relay is well typed: in particular a publisher that is to send has a message left.
THEOREM TypeCorrect == Spec => []TypeOK
<1>1. IInv => TypeOK
  BY DEF IInv
<1>2. QED
  BY <1>1, Invariant, PTL

\* No row is ever worked by two publishers, whichever calls fail and whoever dies.
THEOREM ClaimedByOne == Spec => []ClaimExclusive
<1>1. IInv => ClaimExclusive
  BY DEF IInv, ClaimsOK
<1>2. QED
  BY <1>1, Invariant, PTL

\* Every committed event is in the topic or has a row that is still to be published.
THEOREM NeverLost == Spec => []NothingLost
<1>1. IInv => NothingLost
  BY DEF IInv, StoreOK, SentOK, NothingLost, Sent
<1>2. QED
  BY <1>1, Invariant, PTL

\* Without failing calls no event is sent twice, however many publishers there are and
\* whenever they die.
THEOREM SentOnceUnlessFaulty == Spec => []SentOnceWithoutFaults
<1>1. IInv => SentOnceWithoutFaults
  BY DEF IInv, OnceOK, SentOnce, SentOnceWithoutFaults
<1>2. QED
  BY <1>1, Invariant, PTL

LEMMA WriteIsSend ==
    ASSUME IInv, NEW e \in outbox, Write(e)
    PROVE  T!Next
<1>1. e \in T!Events /\ T!Committed(e)
  BY DEF IInv, TypeOK, StoreOK
<1>2. T!Send(e)
  BY <1>1 DEF Write, T!Send
<1>3. QED
  BY <1>1, <1>2 DEF T!Next

\* The relay implements the topic the projections rely on: whatever fails, it only ever
\* sends events that are committed.
THEOREM RelayIsTopic == Spec => ImplementsTopic
<1>1. Init => T!Init
  BY DEF Init
<1>2. ASSUME IInv, [Next]_vars PROVE [T!Next]_(T!vars)
  <2>1. CASE UNCHANGED vars
    BY <2>1 DEF vars, T!vars
  <2>2. ASSUME NEW s \in Streams, AppendEvent(s) PROVE T!Next
    BY <2>2 DEF AppendEvent, T!Next
  <2>3. ASSUME NEW p \in Publishers, Publish(p) \/ PublishFails(p) \/ ProducerRetries(p)
        PROVE  [T!Next]_(T!vars)
    <3>1. \A e \in batch[p] : e \in outbox
      BY <1>2 DEF IInv, TypeOK
    <3>2. pc[p] = "mark" => msg[p] \in outbox
      BY <1>2 DEF IInv, TypeOK
    <3>3. QED
      BY <1>2, <2>3, <3>1, <3>2, WriteIsSend DEF Publish, PublishFails, ProducerRetries, T!vars
  <2>4. ASSUME NEW p \in Publishers, Step(p), ~(Publish(p) \/ PublishFails(p) \/ ProducerRetries(p))
        PROVE  UNCHANGED T!vars
    BY <2>4 DEF Step, T!vars, Claim, ClaimReplyLost, MarkPublished, MarkPublishedFails, MarkFailed,
                MarkFailedFails
  <2>5. ASSUME NEW p \in Publishers, Poll(p) \/ Crash(p) \/ Restart(p) PROVE UNCHANGED T!vars
    BY <2>5 DEF Poll, Crash, Restart, vars, T!vars
  <2>6. QED
    BY <1>2, <2>1, <2>2, <2>3, <2>4, <2>5 DEF Next
<1>3. QED
  BY <1>1, <1>2, Invariant, PTL DEF Spec, ImplementsTopic, T!Spec
=============================================================================
