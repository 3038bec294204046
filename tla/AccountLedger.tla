---------------------------- MODULE AccountLedger ----------------------------
(***************************************************************************)
(* What the account write side promises: one current state per account,    *)
(* and commands that change it atomically, one at a time, each against the *)
(* state the previous one left.  A command takes effect at most once; it   *)
(* is answered "ok" only after it took effect and "rejected" or "conflict" *)
(* only if it did not.  "error" promises nothing either way.               *)
(***************************************************************************)
EXTENDS AccountAggregate

CONSTANTS
    CommandIds,     \* context.commandId, one per command
    Accounts,
    AccountOf,      \* the account a command is addressed to
    Incoming        \* the commands that may be sent under a command id

VARIABLES
    ledger,         \* current state of each account
    sent,           \* the command sent under each id
    applied,        \* ids of the commands that took effect
    answer          \* what the caller of each command was told so far

vars == <<ledger, sent, applied, answer>>

Answers == {"ok", "rejected", "conflict", "error"}

Init ==
    /\ ledger = [a \in Accounts |-> NewAccount]
    /\ sent \in [CommandIds -> UNION {Incoming[r] : r \in CommandIds}]
    /\ \A r \in CommandIds : sent[r] \in Incoming[r]
    /\ applied = {}
    /\ answer = [r \in CommandIds |-> "none"]

\* The command takes effect on the current state of its account.
Apply(r) ==
    LET a == AccountOf[r] IN
    /\ r \notin applied
    /\ answer[r] = "none"
    /\ DomainError(ledger[a], sent[r]) = "none"
    /\ ledger' = [ledger EXCEPT ![a] = When(@, MakeEvent(@, sent[r], r))]
    /\ applied' = applied \cup {r}
    /\ UNCHANGED <<sent, answer>>

\* The caller is told the outcome.
Answer(r) ==
    /\ answer[r] = "none"
    /\ \E x \in Answers :
          /\ x = "ok" => r \in applied
          /\ x \in {"rejected", "conflict"} => r \notin applied
          /\ answer' = [answer EXCEPT ![r] = x]
    /\ UNCHANGED <<ledger, sent, applied>>

Next == \E r \in CommandIds : Apply(r) \/ Answer(r)

Spec == Init /\ [][Next]_vars
=============================================================================
