--------------------------- MODULE SessionMailbox ---------------------------
(***************************************************************************)
(* What the inbound loop promises to the users of a session (the comment   *)
(* on RunInboundLoop, internal/agent/loop.go:27-29): its messages are      *)
(* handled serially and in order.  There is no bus here, no queue and no   *)
(* goroutine: a mailbox counts the messages it accepted and handles the    *)
(* next one.                                                               *)
(***************************************************************************)
EXTENDS Naturals

CONSTANT Sessions

VARIABLES
    accepted,   \* accepted[s]: how many messages session s was sent
    current,    \* current[s]: the one being handled, 0 if none
    done,       \* done[s]: the last one whose handling is over
    open        \* FALSE once the process is told to stop

vars == <<accepted, current, done, open>>

Init ==
    /\ accepted = [s \in Sessions |-> 0]
    /\ current = [s \in Sessions |-> 0]
    /\ done = [s \in Sessions |-> 0]
    /\ open = TRUE

Accept(s) ==
    /\ accepted' = [accepted EXCEPT ![s] = @ + 1]
    /\ UNCHANGED <<current, done, open>>

Begin(s) ==
    /\ current[s] = 0
    /\ done[s] < accepted[s]
    /\ current' = [current EXCEPT ![s] = done[s] + 1]
    /\ UNCHANGED <<accepted, done, open>>

Finish(s) ==
    /\ current[s] # 0
    /\ done' = [done EXCEPT ![s] = current[s]]
    /\ current' = [current EXCEPT ![s] = 0]
    /\ UNCHANGED <<accepted, open>>

Close ==
    /\ open
    /\ open' = FALSE
    /\ UNCHANGED <<accepted, current, done>>

Next == Close \/ \E s \in Sessions : Accept(s) \/ Begin(s) \/ Finish(s)

Spec == Init /\ [][Next]_vars

FairSpec ==
    /\ Spec
    /\ \A s \in Sessions : WF_vars(open /\ Begin(s)) /\ WF_vars(open /\ Finish(s))
=============================================================================
