------------------------------ MODULE CheckSpec ------------------------------
(***************************************************************************)
(* What the service promises about SOP quality checks to those who read    *)
(* the tables: a subject has at most one active check, a check runs at     *)
(* most once, it ends once and for good, and its event log tells exactly   *)
(* that story.  Requests, runners, locks and processes are not visible.    *)
(***************************************************************************)
EXTENDS Naturals, Sequences

CONSTANTS Checks, Subjects, None

VARIABLES status, subject, log

specVars == <<status, subject, log>>

IsActive(c) == status[c] \in {"pending", "running"}

Init ==
    /\ status  = [c \in Checks |-> "absent"]
    /\ subject = [c \in Checks |-> None]
    /\ log     = [c \in Checks |-> <<>>]

Create(c, s) ==
    /\ status[c] = "absent"
    /\ \A d \in Checks : IsActive(d) => subject[d] # s
    /\ status'  = [status EXCEPT ![c] = "pending"]
    /\ subject' = [subject EXCEPT ![c] = s]
    /\ log'     = [log EXCEPT ![c] = <<"created">>]

Start(c) ==
    /\ status[c] = "pending"
    /\ status' = [status EXCEPT ![c] = "running"]
    /\ log'    = [log EXCEPT ![c] = Append(@, "started")]
    /\ UNCHANGED subject

Checkpoint(c) ==
    /\ status[c] = "running"
    /\ log' = [log EXCEPT ![c] = Append(@, "checkpoint")]
    /\ UNCHANGED <<status, subject>>

Succeed(c) ==
    /\ status[c] = "running"
    /\ status' = [status EXCEPT ![c] = "succeeded"]
    /\ log'    = [log EXCEPT ![c] = Append(@, "completed")]
    /\ UNCHANGED subject

Fail(c) ==
    /\ IsActive(c)
    /\ status' = [status EXCEPT ![c] = "failed"]
    /\ log'    = [log EXCEPT ![c] = Append(@, "failed")]
    /\ UNCHANGED subject

\* A restart interrupts every active check at once.
InterruptAll ==
    /\ \E c \in Checks : IsActive(c)
    /\ status' = [c \in Checks |-> IF IsActive(c) THEN "interrupted" ELSE status[c]]
    /\ log'    = [c \in Checks |-> IF IsActive(c) THEN Append(log[c], "interrupted")
                                                  ELSE log[c]]
    /\ UNCHANGED subject

Next ==
    \/ \E c \in Checks : \/ \E s \in Subjects : Create(c, s)
                         \/ Start(c) \/ Checkpoint(c) \/ Succeed(c) \/ Fail(c)
    \/ InterruptAll

Spec == Init /\ [][Next]_specVars

=============================================================================
