--------------------------- MODULE TicketContract ---------------------------
(***************************************************************************)
(* What a ticket promises its reporter and the SLA report, without the     *)
(* handlers: the status changes in one step, the start of the work is      *)
(* written once and never moves, and every time the ticket becomes resolved its    *)
(* customers are told at most once, and only while it is resolved.         *)
(***************************************************************************)
EXTENDS Naturals

CONSTANTS Tickets, MaxDay, None

VARIABLES
  state,      \* where the ticket stands
  responded,  \* when work on it first started
  dropped,    \* when it was last dropped
  answers,    \* replies the customers have had since the latest resolve
  clock

vars == <<state, responded, dropped, answers, clock>>

Init ==
  /\ state = [t \in Tickets |-> "new"]
  /\ responded = [t \in Tickets |-> None]
  /\ dropped = [t \in Tickets |-> None]
  /\ answers = [t \in Tickets |-> 0]
  /\ clock = 0

\* A ticket starts or goes back to being worked on.
Work(t) ==
  /\ state[t] # "in_progress"
  /\ state' = [state EXCEPT ![t] = "in_progress"]
  /\ \/ /\ responded[t] = None
        /\ \E d \in 0 .. clock : responded' = [responded EXCEPT ![t] = d]
     \/ /\ responded[t] # None
        /\ UNCHANGED responded
  /\ UNCHANGED <<dropped, answers, clock>>

\* A ticket becomes resolved; its customers have yet to be told.
Resolve(t) ==
  /\ state[t] # "resolved"
  /\ state' = [state EXCEPT ![t] = "resolved"]
  /\ answers' = [answers EXCEPT ![t] = 0]
  /\ UNCHANGED <<responded, dropped, clock>>

\* The customers are told.
Tell(t) ==
  /\ state[t] = "resolved"
  /\ answers[t] = 0
  /\ answers' = [answers EXCEPT ![t] = 1]
  /\ UNCHANGED <<state, responded, dropped, clock>>

\* A ticket is dropped.
Drop(t) ==
  /\ state[t] # "closed"
  /\ state' = [state EXCEPT ![t] = "closed"]
  /\ \E d \in 0 .. clock : dropped' = [dropped EXCEPT ![t] = d]
  /\ UNCHANGED <<responded, answers, clock>>

NextDay ==
  /\ clock < MaxDay
  /\ clock' = clock + 1
  /\ UNCHANGED <<state, responded, dropped, answers>>

Next ==
  \/ \E t \in Tickets : Work(t) \/ Resolve(t) \/ Tell(t) \/ Drop(t)
  \/ NextDay

Spec == Init /\ [][Next]_vars
=============================================================================
