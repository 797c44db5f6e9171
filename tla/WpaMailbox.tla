----------------------------- MODULE WpaMailbox -----------------------------
(***************************************************************************)
(* What the control channel of WifiControl promises to the code that uses  *)
(* it, whatever goes on between the socket and the supplicant: a list of   *)
(* requests that are completed one by one, in the order they were posted,  *)
(* and none of which is left in it. A caller gets the answer to its own    *)
(* command; only after some caller gave up on a command that was not       *)
(* answered an answer may be that to another command ("foreign").          *)
(*                                                                         *)
(* WpaChannel implements this with the mapping it states at its end.       *)
(***************************************************************************)
EXTENDS Naturals, SequencesExt

CONSTANTS
    Callers,    \* threads that post a request and wait for its outcome
    Internal    \* requests the mailbox posts for itself

VARIABLES
    box,        \* the posted requests, oldest first
    answering,  \* an answer is there for the oldest request
    outcome,    \* what a caller got for the request it posted last
    disturbed   \* some caller has given up waiting

vars == <<box, answering, outcome, disturbed>>

Init ==
    /\ box = <<>>
    /\ answering = FALSE
    /\ outcome = [c \in Callers |-> "no"]
    /\ disturbed = FALSE

\* Submit. A request of a caller starts without an outcome.
Post(r) ==
    /\ box' = Append(box, r)
    /\ outcome' = [c \in Callers |-> IF c = r THEN "no" ELSE outcome[c]]
    /\ UNCHANGED <<answering, disturbed>>

\* Wait has run out of time. What comes for this caller may now reach another.
GiveUp(c) ==
    /\ disturbed' = TRUE
    /\ UNCHANGED <<box, answering, outcome>>

\* Revoke: the request goes from wherever it is in the list. One that is still in
\* it belongs to a caller that has given up.
Withdraw(c) ==
    /\ \/ /\ \E i \in DOMAIN box : box[i] = c /\ box' = RemoveAt(box, i)
          /\ disturbed
       \/ /\ c \notin ToSet(box)
          /\ UNCHANGED box
    /\ outcome' = [outcome EXCEPT ![c] = "no"]
    /\ UNCHANGED <<answering, disturbed>>

\* The supplicant answers.
Answer ==
    /\ box # <<>>
    /\ ~answering
    /\ answering' = TRUE
    /\ UNCHANGED <<box, outcome, disturbed>>

\* The oldest request is completed. A caller has its outcome, a request of the
\* mailbox itself may post another one that is not pending.
Complete ==
    /\ box # <<>>
    /\ answering
    /\ answering' = FALSE
    /\ \/ /\ Head(box) \in Callers
          /\ box' = Tail(box)
          /\ \E o \in {"own"} \cup (IF disturbed THEN {"foreign"} ELSE {}) :
                outcome' = [outcome EXCEPT ![Head(box)] = o]
       \/ /\ Head(box) \in Internal
          /\ \/ box' = Tail(box)
             \/ \E n \in Internal \ ToSet(Tail(box)) : box' = Append(Tail(box), n)
          /\ UNCHANGED outcome
    /\ UNCHANGED disturbed

\* Abort: the mailbox is taken down, with what is in it.
Abort ==
    /\ box' = <<>>
    /\ answering' = FALSE
    /\ \/ UNCHANGED outcome
       \/ \E c \in Callers : outcome' = [outcome EXCEPT ![c] = "no"]
    /\ UNCHANGED disturbed

Next == \/ \E r \in Callers \cup Internal : Post(r)
        \/ \E c \in Callers : GiveUp(c) \/ Withdraw(c)
        \/ Answer
        \/ Complete
        \/ Abort

Spec == Init /\ [][Next]_vars /\ WF_vars(Answer) /\ WF_vars(Complete)
=============================================================================
