---------------------------- MODULE MCInboundLoop ----------------------------
EXTENDS InboundLoop, TLC

CONSTANT Hung   \* sessions whose LLM call may never return

ASSUME HungSessions == Hung \subseteq Sessions

\* The sessions are interchangeable (safety runs only).
Symmetry == Permutations(Sessions)

\* As Fairness, for a process in which the turns of Hung need not end.
FairSpecHung ==
    /\ Spec
    /\ WF_vars(Alive(Dispatch))
    /\ WF_vars(Alive(Deliver))
    /\ \A s \in Sessions :
         /\ WF_vars(Alive(Take(s)))
         /\ SF_vars(Alive(Reply(s)))
         /\ s \notin Hung => WF_vars(Alive(TurnEnds(s)))

\* A caller that waits for the workers without a timeout, and turns that end.
FairSpecPatient ==
    /\ Init /\ [][Next /\ waited' # "timeout"]_vars
    /\ WF_vars(Alive(Dispatch))
    /\ WF_vars(Alive(CloseInbound)) /\ WF_vars(Alive(CloseOutbound))
    /\ WF_vars(Alive(WaitReturns))
    /\ \A s \in Sessions : WF_vars(Alive(Work(s)))

\* docs/message-bus-and-channels.md:126: sessions do not block one another.
\* The turns of one session may hang, those of the others are handled.
SessionsDoNotBlock ==
    \A s \in Sessions \ Hung : \A n \in 1..MaxPublished :
      (published[s] >= n) ~> (started[s] >= n \/ ctxDone)
=============================================================================
