---------------------------- MODULE Conversation ----------------------------
(***************************************************************************)
(* What a session promises to its user and to the next prompt              *)
(* (internal/session/manager.go:19-31, internal/agent/memory.go): one      *)
(* conversation, in which every question has its answer directly after it  *)
(* and turns come in order; a mark, up to which everything is in the       *)
(* long-term memory; and a /new that forgets the conversation only when    *)
(* all of it is in the memory.  There is no file here, no cache, no lock   *)
(* and no goroutine: every operation is one step.  All that the model      *)
(* answers in a turn counts as one answer.                                 *)
(***************************************************************************)
EXTENDS Naturals, Sequences

CONSTANT Turns

VARIABLES
    log,        \* the conversation
    mark,       \* how many of its messages are consolidated
    memory      \* messages in the long-term memory

vars == <<log, mark, memory>>

Question(t) == [turn |-> t, role |-> "user"]
Reply(t)    == [turn |-> t, role |-> "assistant"]

Said(q) == {q[i] : i \in DOMAIN q}

\* No question waits for its answer.
Whole == log = <<>> \/ log[Len(log)].role = "assistant"

Init == log = <<>> /\ mark = 0 /\ memory = {}

\* Turn t is later than all that was ever said.
Ask(t) ==
    /\ Whole
    /\ \A m \in Said(log) \cup memory : m.turn < t
    /\ log' = Append(log, Question(t))
    /\ UNCHANGED <<mark, memory>>

Answer(t) ==
    /\ log # <<>> /\ log[Len(log)] = Question(t)
    /\ log' = Append(log, Reply(t))
    /\ UNCHANGED <<mark, memory>>

\* The messages from the mark to b go to the memory.
Summarise(b) ==
    /\ Whole
    /\ mark < b
    /\ memory' = memory \cup Said(SubSeq(log, mark + 1, b))
    /\ mark' = b
    /\ UNCHANGED log

Clear ==
    /\ Whole
    /\ mark = Len(log)
    /\ log' = <<>> /\ mark' = 0
    /\ UNCHANGED memory

Next ==
    \/ \E t \in Turns : Ask(t) \/ Answer(t)
    \/ \E b \in 1 .. Len(log) : Summarise(b)
    \/ Clear

Spec == Init /\ [][Next]_vars
=============================================================================
