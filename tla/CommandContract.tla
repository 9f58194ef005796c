--------------------------- MODULE CommandContract ---------------------------
(***************************************************************************)
(* What the Service promises a Teacher about one privileged command, with  *)
(* the queues, tokens, pipes and Workers left out: a command is decided    *)
(* once, it runs at most once and only after it was committed, a command   *)
(* that was withdrawn never runs, and a Worker's result is only reported   *)
(* of a command that ran.                                                  *)
(***************************************************************************)
CONSTANT Commands

VARIABLES
    fate,       \* whether a command is open, committed or withdrawn
    ran,        \* how often the command has run
    told        \* what the Teacher was told: nothing, refusal, outcome, result

vars == <<fate, ran, told>>

TypeOK ==
    /\ fate \in [Commands -> {"open", "committed", "withdrawn"}]
    /\ ran \in [Commands -> {0, 1}]
    /\ told \in [Commands -> {"nothing", "refusal", "outcome", "result"}]

Init ==
    /\ fate = [c \in Commands |-> "open"]
    /\ ran = [c \in Commands |-> 0]
    /\ told = [c \in Commands |-> "nothing"]

\* Committing a command may run it in the same step (a power action).
Commit(c) ==
    /\ fate[c] = "open"
    /\ fate' = [fate EXCEPT ![c] = "committed"]
    /\ \E n \in {0, 1} : ran' = [ran EXCEPT ![c] = n]
    /\ UNCHANGED told

\* The one who withdraws may tell the Teacher at once (a timeout, a full queue).
Withdraw(c) ==
    /\ fate[c] = "open"
    /\ fate' = [fate EXCEPT ![c] = "withdrawn"]
    /\ \E t \in {"nothing", "refusal"} : told' = [told EXCEPT ![c] = t]
    /\ UNCHANGED ran

Run(c) ==
    /\ fate[c] = "committed" /\ ran[c] = 0
    /\ ran' = [ran EXCEPT ![c] = 1]
    /\ UNCHANGED <<fate, told>>

Refuse(c) ==
    /\ fate[c] = "withdrawn" /\ told[c] = "nothing"
    /\ told' = [told EXCEPT ![c] = "refusal"]
    /\ UNCHANGED <<fate, ran>>

Report(c) ==
    /\ fate[c] = "committed" /\ told[c] = "nothing"
    /\ \E t \in {"outcome"} \cup (IF ran[c] = 1 THEN {"result"} ELSE {}) :
            told' = [told EXCEPT ![c] = t]
    /\ UNCHANGED <<fate, ran>>

Next == \E c \in Commands :
    Commit(c) \/ Withdraw(c) \/ Run(c) \/ Refuse(c) \/ Report(c)

Spec == Init /\ [][Next]_vars
=============================================================================
