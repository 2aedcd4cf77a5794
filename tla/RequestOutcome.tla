--------------------------- MODULE RequestOutcome ---------------------------
(***************************************************************************)
(* What the App Server promises to the thread that opens a request and to  *)
(* the clients that answer it: the first accepted answer is final, and the *)
(* thread gets that answer or learns that there is none to wait for.       *)
(* ServerRequests implements this.                                         *)
(***************************************************************************)
CONSTANTS Requests, Answers

VARIABLES
    outcome,    \* none, pending, answered or interrupted
    answer,     \* the accepted answer
    returned    \* what the waiting thread got

vars == <<outcome, answer, returned>>

Init ==
    /\ outcome = [r \in Requests |-> "none"]
    /\ answer = [r \in Requests |-> "none"]
    /\ returned = [r \in Requests |-> "no"]

Open(r) ==
    /\ outcome[r] = "none"
    /\ outcome' = [outcome EXCEPT ![r] = "pending"]
    /\ UNCHANGED <<answer, returned>>

Accept(r, a) ==
    /\ outcome[r] = "pending"
    /\ outcome' = [outcome EXCEPT ![r] = "answered"]
    /\ answer' = [answer EXCEPT ![r] = a]
    /\ UNCHANGED returned

Interrupt(S) ==
    /\ \A r \in S : outcome[r] = "pending"
    /\ outcome' = [r \in Requests |-> IF r \in S THEN "interrupted" ELSE outcome[r]]
    /\ UNCHANGED <<answer, returned>>

(* The thread gets the accepted answer. *)
ReturnAnswer(r) ==
    /\ returned[r] = "no" /\ outcome[r] = "answered"
    /\ returned' = [returned EXCEPT ![r] = answer[r]]
    /\ UNCHANGED <<outcome, answer>>

(* The thread gives up: its Turn was cancelled, or there is no answer.     *)
(* Nobody can answer afterwards.                                           *)
ReturnNothing(r) ==
    /\ returned[r] = "no" /\ outcome[r] # "none"
    /\ returned' = [returned EXCEPT ![r] = "nothing"]
    /\ outcome' = [outcome EXCEPT ![r] = IF @ = "pending" THEN "interrupted" ELSE @]
    /\ UNCHANGED answer

Next ==
    \/ \E r \in Requests : Open(r) \/ ReturnAnswer(r) \/ ReturnNothing(r)
    \/ \E r \in Requests, a \in Answers : Accept(r, a)
    \/ \E S \in SUBSET Requests : Interrupt(S)

Spec == Init /\ [][Next]_vars
=============================================================================
