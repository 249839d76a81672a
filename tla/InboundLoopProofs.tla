-------------------------- MODULE InboundLoopProofs --------------------------
(***************************************************************************)
(* Proofs about InboundLoop, for every set of sessions, every capacity and *)
(* every bound on the messages: its types and its channels; the turns of a *)
(* session, the WaitGroup and what a worker leaves behind; the replies;    *)
(* and that the loop implements SessionMailbox.                            *)
(***************************************************************************)
EXTENDS InboundLoop, SequenceTheorems, FiniteSetTheorems, TLAPS

-----------------------------------------------------------------------------
(* Sequences: what Append and Tail do to a channel, and how they move the   *)
(* ends of a Run.                                                           *)

\* What Append gives: the old elements where they were, the new one last.
LEMMA AppendShape ==
    ASSUME NEW S, NEW q \in Seq(S), NEW e \in S
    PROVE  /\ Append(q, e) \in Seq(S)
           /\ Len(Append(q, e)) = Len(q) + 1
           /\ Len(q) \in Nat
           /\ \A i \in 1..Len(q) : Append(q, e)[i] = q[i]
           /\ Append(q, e)[Len(q) + 1] = e
           /\ \A i \in 1..Len(q) : q[i] \in S
  BY AppendProperties, LenProperties, ElementOfSeq

\* What Tail gives: the elements moved down by one.
LEMMA TailShape ==
    ASSUME NEW S, NEW q \in Seq(S), q # <<>>
    PROVE  /\ Tail(q) \in Seq(S)
           /\ Len(q) \in Nat \ {0}
           /\ Len(Tail(q)) = Len(q) - 1
           /\ \A i \in 1..(Len(q) - 1) : Tail(q)[i] = q[i + 1]
           /\ Head(q) = q[1] /\ Head(q) \in S
           /\ \A i \in 1..Len(q) : q[i] \in S
  BY HeadTailProperties, EmptySeq, LenProperties, ElementOfSeq

\* Two neighbours of a session along a run have consecutive numbers.
LEMMA RunNext ==
    ASSUME NEW ch \in Seq(Message), NEW s \in Sessions, NEW lo, NEW hi,
           Run(ch, s, lo, hi), NEW i \in 1..Len(ch), ch[i].sess = s,
           NEW j \in (i+1)..Len(ch), ch[j].sess = s,
           \A k \in (i+1)..(j-1) : ch[k].sess # s
    PROVE  ch[j].seq = ch[i].seq + 1
  BY DEF Run

\* Sending the next number of a session extends its run at the end.
LEMMA RunAppendSame ==
    ASSUME NEW ch \in Seq(Message), NEW s \in Sessions, NEW lo \in Nat,
           NEW hi \in Nat, Run(ch, s, lo, hi)
    PROVE  Run(Append(ch, [sess |-> s, seq |-> hi + 1]), s, lo, hi + 1)
<1> DEFINE m == [sess |-> s, seq |-> hi + 1]
           c == Append(ch, m)
           n == Len(ch)
<1>1. m \in Message /\ m.sess = s /\ m.seq = hi + 1
  BY DEF Message
<1> HIDE DEF m
<1>2. /\ Len(c) = n + 1 /\ n \in Nat /\ c[n + 1] = m
      /\ \A i \in 1..n : c[i] = ch[i] /\ ch[i] \in Message
  BY <1>1, AppendShape
<1> HIDE DEF c, n
<1>3. \A i \in 1..n : ch[i].seq \in Nat
  BY <1>2 DEF Message
<1> SUFFICES Run(c, s, lo, hi + 1)
  BY DEF c, m
<1>4. ~Absent(s, c)
  BY <1>1, <1>2 DEF Absent
<1> SUFFICES ASSUME NEW i \in 1..(n+1), c[i].sess = s
             PROVE  /\ (\A j \in 1..(i-1) : c[j].sess # s) => c[i].seq = lo + 1
                    /\ (\A j \in (i+1)..(n+1) : c[j].sess # s) => c[i].seq = hi + 1
                    /\ \A j \in (i+1)..(n+1) :
                         (/\ c[j].sess = s
                          /\ \A k \in (i+1)..(j-1) : c[k].sess # s)
                         => c[j].seq = c[i].seq + 1
  BY <1>2, <1>4 DEF Run
<1>5. CASE i = n + 1
  <2>1. (\A j \in 1..(i-1) : c[j].sess # s) => c[i].seq = lo + 1
    BY <1>1, <1>2, <1>5 DEF Run, Absent, n
  <2>2. QED
    BY <1>1, <1>2, <1>5, <2>1
<1>6. CASE i \in 1..n
  <2>1. (\A j \in 1..(i-1) : c[j].sess # s) => c[i].seq = lo + 1
    BY <1>2, <1>6 DEF Run, n
  <2>2. (\A j \in (i+1)..(n+1) : c[j].sess # s) => c[i].seq = hi + 1
    BY <1>1, <1>2, <1>6
  <2>3. ASSUME NEW j \in (i+1)..(n+1), c[j].sess = s,
               \A k \in (i+1)..(j-1) : c[k].sess # s
        PROVE  c[j].seq = c[i].seq + 1
    <3>1. CASE j = n + 1
      <4>1. \A k \in (i+1)..n : ch[k].sess # s
        BY <1>2, <1>6, <2>3, <3>1
      <4>2. ch[i].seq = hi
        BY <1>2, <1>6, <4>1 DEF Run, n
      <4> QED
        BY <1>1, <1>2, <1>6, <3>1, <4>2
    <3>2. CASE j \in 1..n
      <4>1. j \in (i+1)..n /\ c[i] = ch[i] /\ c[j] = ch[j]
        BY <1>2, <1>6, <3>2
      <4>2. \A k \in (i+1)..(j-1) : ch[k].sess # s
        BY <1>2, <1>6, <2>3, <4>1
      <4> QED
        BY <1>6, <2>3, <4>1, <4>2, RunNext DEF n
    <3> QED BY <3>1, <3>2, <1>2
  <2> QED BY <2>1, <2>2, <2>3
<1> QED BY <1>5, <1>6, <1>2

\* Sending a message of another session leaves a run as it is.
LEMMA RunAppendOther ==
    ASSUME NEW ch \in Seq(Message), NEW s \in Sessions, NEW lo, NEW hi,
           NEW m \in Message, m.sess # s, Run(ch, s, lo, hi)
    PROVE  Run(Append(ch, m), s, lo, hi)
<1> DEFINE c == Append(ch, m)
           n == Len(ch)
<1>2. /\ Len(c) = n + 1 /\ n \in Nat /\ c[n + 1] = m
      /\ \A i \in 1..n : c[i] = ch[i] /\ ch[i] \in Message
  BY AppendShape
<1> HIDE DEF c, n
<1> SUFFICES Run(c, s, lo, hi)
  BY DEF c
<1>3. Absent(s, c) => Absent(s, ch)
  BY <1>2 DEF Absent, n
<1>4. ASSUME NEW i \in 1..(n+1), c[i].sess = s
      PROVE  /\ (\A j \in 1..(i-1) : c[j].sess # s) => c[i].seq = lo + 1
             /\ (\A j \in (i+1)..(n+1) : c[j].sess # s) => c[i].seq = hi
             /\ \A j \in (i+1)..(n+1) :
                  (/\ c[j].sess = s
                   /\ \A k \in (i+1)..(j-1) : c[k].sess # s)
                  => c[j].seq = c[i].seq + 1
  <2>1. i \in 1..n
    BY <1>2, <1>4
  <2>2. (\A j \in 1..(i-1) : c[j].sess # s) => c[i].seq = lo + 1
    BY <1>2, <1>4, <2>1 DEF Run, n
  <2>3. (\A j \in (i+1)..(n+1) : c[j].sess # s) => c[i].seq = hi
    BY <1>2, <1>4, <2>1 DEF Run, n
  <2>4. ASSUME NEW j \in (i+1)..(n+1), c[j].sess = s,
               \A k \in (i+1)..(j-1) : c[k].sess # s
        PROVE  c[j].seq = c[i].seq + 1
    <3>1. j \in (i+1)..n /\ c[i] = ch[i] /\ c[j] = ch[j]
      BY <1>2, <2>1, <2>4
    <3>2. \A k \in (i+1)..(j-1) : ch[k].sess # s
      BY <1>2, <2>1, <2>4, <3>1
    <3> QED
      BY <1>4, <2>1, <2>4, <3>1, <3>2, RunNext DEF n
  <2> QED BY <2>2, <2>3, <2>4
<1> QED BY <1>2, <1>3, <1>4 DEF Run

\* Receiving a message of the session takes the first number of its run.
LEMMA RunTailSame ==
    ASSUME NEW ch \in Seq(Message), ch # <<>>, NEW s \in Sessions,
           NEW lo \in Nat, NEW hi \in Nat, Head(ch).sess = s,
           Run(ch, s, lo, hi)
    PROVE  Head(ch).seq = lo + 1 /\ Run(Tail(ch), s, lo + 1, hi)
<1> DEFINE c == Tail(ch)
           n == Len(ch)
<1>1. /\ Len(c) = n - 1 /\ n \in Nat \ {0} /\ Head(ch) = ch[1]
      /\ \A i \in 1..(n-1) : c[i] = ch[i+1]
  BY TailShape
<1> HIDE DEF c, n
<1>2. Head(ch).seq = lo + 1
  BY <1>1 DEF Run, n
<1>3. ASSUME Absent(s, c) PROVE lo + 1 = hi
  <2>1. \A k \in (1+1)..n : ch[k].sess # s
    <3> TAKE k \in (1+1)..n
    <3>1. k-1 \in 1..(n-1) /\ c[k-1] = ch[(k-1)+1]
      BY <1>1
    <3> QED BY <1>1, <1>3, <3>1 DEF Absent
  <2> QED BY <1>1, <1>2, <2>1 DEF Run, n
<1>4. ASSUME NEW i \in 1..(n-1), c[i].sess = s
      PROVE  /\ (\A j \in 1..(i-1) : c[j].sess # s) => c[i].seq = lo + 1 + 1
             /\ (\A j \in (i+1)..(n-1) : c[j].sess # s) => c[i].seq = hi
             /\ \A j \in (i+1)..(n-1) :
                  (/\ c[j].sess = s
                   /\ \A k \in (i+1)..(j-1) : c[k].sess # s)
                  => c[j].seq = c[i].seq + 1
  <2>1. i+1 \in 2..n /\ c[i] = ch[i+1]
    BY <1>1, <1>4
  <2>2. ASSUME \A j \in 1..(i-1) : c[j].sess # s PROVE c[i].seq = lo + 1 + 1
    <3>1. \A k \in (1+1)..((i+1)-1) : ch[k].sess # s
      <4> TAKE k \in (1+1)..((i+1)-1)
      <4>1. k-1 \in 1..(i-1) /\ c[k-1] = ch[(k-1)+1]
        BY <1>1, <2>1
      <4> QED BY <4>1, <2>2
    <3> QED BY <1>1, <1>2, <1>4, <2>1, <3>1 DEF Run, n
  <2>3. ASSUME \A j \in (i+1)..(n-1) : c[j].sess # s PROVE c[i].seq = hi
    <3>1. \A k \in ((i+1)+1)..n : ch[k].sess # s
      <4> TAKE k \in ((i+1)+1)..n
      <4>1. k-1 \in (i+1)..(n-1) /\ c[k-1] = ch[(k-1)+1]
        BY <1>1, <2>1
      <4> QED BY <4>1, <2>3
    <3> QED BY <1>1, <1>4, <2>1, <3>1 DEF Run, n
  <2>4. ASSUME NEW j \in (i+1)..(n-1), c[j].sess = s,
               \A k \in (i+1)..(j-1) : c[k].sess # s
        PROVE  c[j].seq = c[i].seq + 1
    <3>1. \A k \in ((i+1)+1)..((j+1)-1) : ch[k].sess # s
      <4> TAKE k \in ((i+1)+1)..((j+1)-1)
      <4>1. k-1 \in (i+1)..(j-1) /\ c[k-1] = ch[(k-1)+1]
        BY <1>1, <2>1
      <4> QED BY <4>1, <2>4
    <3>2. j+1 \in ((i+1)+1)..n /\ c[j] = ch[j+1]
      BY <1>1, <2>1
    <3> QED BY <1>4, <2>1, <2>4, <3>1, <3>2, RunNext DEF n
  <2> QED BY <2>2, <2>3, <2>4
<1>5. Run(c, s, lo + 1, hi)
  BY <1>1, <1>3, <1>4 DEF Run
<1> QED BY <1>2, <1>5 DEF c

\* Receiving a message of another session leaves a run as it is.
LEMMA RunTailOther ==
    ASSUME NEW ch \in Seq(Message), ch # <<>>, NEW s \in Sessions,
           NEW lo, NEW hi, Head(ch).sess # s, Run(ch, s, lo, hi)
    PROVE  Run(Tail(ch), s, lo, hi)
<1> DEFINE c == Tail(ch)
           n == Len(ch)
<1>1. /\ Len(c) = n - 1 /\ n \in Nat \ {0} /\ Head(ch) = ch[1]
      /\ \A i \in 1..(n-1) : c[i] = ch[i+1]
  BY TailShape
<1> HIDE DEF c, n
<1>3. Absent(s, c) => Absent(s, ch)
  <2> SUFFICES ASSUME Absent(s, c), NEW k \in 1..n PROVE ch[k].sess # s
    BY DEF Absent, n
  <2>1. CASE k = 1
    BY <1>1, <2>1
  <2>2. CASE k \in 2..n
    <3>1. k-1 \in 1..(n-1) /\ c[k-1] = ch[(k-1)+1]
      BY <1>1, <2>2
    <3> QED BY <1>1, <2>2, <3>1 DEF Absent
  <2> QED BY <1>1, <2>1, <2>2
<1>4. ASSUME NEW i \in 1..(n-1), c[i].sess = s
      PROVE  /\ (\A j \in 1..(i-1) : c[j].sess # s) => c[i].seq = lo + 1
             /\ (\A j \in (i+1)..(n-1) : c[j].sess # s) => c[i].seq = hi
             /\ \A j \in (i+1)..(n-1) :
                  (/\ c[j].sess = s
                   /\ \A k \in (i+1)..(j-1) : c[k].sess # s)
                  => c[j].seq = c[i].seq + 1
  <2>1. i+1 \in 2..n /\ c[i] = ch[i+1]
    BY <1>1, <1>4
  <2>2. ASSUME \A j \in 1..(i-1) : c[j].sess # s PROVE c[i].seq = lo + 1
    <3>1. \A k \in 1..((i+1)-1) : ch[k].sess # s
      <4> TAKE k \in 1..((i+1)-1)
      <4>1. CASE k = 1
        BY <4>1, <1>1
      <4>2. CASE k # 1
        <5>1. k-1 \in 1..(i-1) /\ c[k-1] = ch[(k-1)+1]
          BY <1>1, <2>1, <4>2
        <5> QED BY <5>1, <2>2
      <4> QED BY <4>1, <4>2
    <3> QED BY <1>1, <1>4, <2>1, <3>1 DEF Run, n
  <2>3. ASSUME \A j \in (i+1)..(n-1) : c[j].sess # s PROVE c[i].seq = hi
    <3>1. \A k \in ((i+1)+1)..n : ch[k].sess # s
      <4> TAKE k \in ((i+1)+1)..n
      <4>1. k-1 \in (i+1)..(n-1) /\ c[k-1] = ch[(k-1)+1]
        BY <1>1, <2>1
      <4> QED BY <4>1, <2>3
    <3> QED BY <1>1, <1>4, <2>1, <3>1 DEF Run, n
  <2>4. ASSUME NEW j \in (i+1)..(n-1), c[j].sess = s,
               \A k \in (i+1)..(j-1) : c[k].sess # s
        PROVE  c[j].seq = c[i].seq + 1
    <3>1. \A k \in ((i+1)+1)..((j+1)-1) : ch[k].sess # s
      <4> TAKE k \in ((i+1)+1)..((j+1)-1)
      <4>1. k-1 \in (i+1)..(j-1) /\ c[k-1] = ch[(k-1)+1]
        BY <1>1, <2>1
      <4> QED BY <4>1, <2>4
    <3>2. j+1 \in ((i+1)+1)..n /\ c[j] = ch[j+1]
      BY <1>1, <2>1
    <3> QED BY <1>4, <2>1, <2>4, <3>1, <3>2, RunNext DEF n
  <2> QED BY <2>2, <2>3, <2>4
<1>5. Run(c, s, lo, hi)
  BY <1>1, <1>3, <1>4 DEF Run
<1> QED BY <1>5 DEF c

\* A run of no messages has nothing left to send.
LEMMA RunEmpty ==
    ASSUME NEW s, NEW lo, NEW hi, Run(<<>>, s, lo, hi)
    PROVE  lo = hi
  BY EmptySeq DEF Run, Absent

\* A sequence of at most one message is empty or holds just that message.
LEMMA AtMostOne ==
    ASSUME NEW S, NEW q \in Seq(S), Len(q) <= 1, q # <<>>
    PROVE  Len(q) = 1 /\ q[1] \in S
<1>1. Len(q) \in Nat \ {0}
  BY EmptySeq
<1>2. Len(q) = 1
  BY <1>1
<1>3. QED
  BY <1>2, ElementOfSeq

\* The fields of a message.
LEMMA MessageFields ==
    \A m \in Message : m.sess \in Sessions /\ m.seq \in Nat
  BY DEF Message

-----------------------------------------------------------------------------
(* Types and the backlog                                                    *)

\* TypeOK holds at the start.
LEMMA InitTypes == ASSUME Init PROVE TypeOK
<1>1. <<>> \in Seq(Message) /\ <<>> \in Seq(Nat) /\ Len(<<>>) = 0
  BY EmptySeq
<1>2. /\ queue \in [Sessions -> Seq(Nat)]
      /\ \A s \in Sessions : Len(queue[s]) <= QueueCap
  BY <1>1, CapsPositive DEF Init
<1>3. /\ inbound \in Seq(Message) /\ Len(inbound) <= InboundCap
      /\ outbound \in Seq(Message) /\ Len(outbound) <= OutboundCap
      /\ held \in Seq(Message) /\ Len(held) <= 1
  BY <1>1, CapsPositive DEF Init
<1>4. /\ inboundClosed \in BOOLEAN /\ outboundClosed \in BOOLEAN
      /\ ctxDone \in BOOLEAN /\ queueClosed \in [Sessions -> BOOLEAN]
  BY DEF Init
<1>5. /\ worker \in [Sessions -> WorkerStates] /\ cur \in [Sessions -> Nat]
      /\ started \in [Sessions -> Nat]
  BY DEF Init, WorkerStates
<1>6. /\ published \in [Sessions -> Nat] /\ delivered \in [Sessions -> Nat]
  BY DEF Init
<1>7. /\ dispatcher \in {"running", "drained", "abandoned"} /\ wg \in Int
      /\ consumer \in {"running", "stopped"} /\ phase \in Phases
      /\ waited \in {"no", "done", "timeout"}
  BY DEF Init, Phases
<1>8. QED
  BY <1>2, <1>3, <1>4, <1>5, <1>6, <1>7 DEF TypeOK

\* Every step keeps TypeOK.
LEMMA NextTypes == ASSUME TypeOK, [Next]_vars PROVE TypeOK'
<1>1. ASSUME NEW s \in Sessions, Publish(s) PROVE TypeOK'
  <2>1. [sess |-> s, seq |-> published[s] + 1] \in Message
    BY DEF TypeOK, Message
  <2>2. inbound' \in Seq(Message) /\ Len(inbound') <= InboundCap
    BY <1>1, <2>1, CapsPositive, AppendShape DEF Publish, TypeOK
  <2>3. QED
    BY <1>1, <2>2 DEF Publish, TypeOK, loopVars, workerVars, shutdownVars
<1>2. CASE Receive
  <2>0. /\ inbound \in Seq(Message) /\ inbound # <<>>
        /\ inbound' = Tail(inbound) /\ held' = <<Head(inbound)>>
    BY <1>2 DEF Receive, TypeOK
  <2>1. Head(inbound) \in Message /\ Head(inbound).sess \in Sessions
    BY <2>0, TailShape, MessageFields
  <2>2. inbound' \in Seq(Message) /\ Len(inbound') <= InboundCap
    <3>1. Len(inbound) \in Nat /\ Len(Tail(inbound)) = Len(inbound) - 1
          /\ Tail(inbound) \in Seq(Message)
      BY <2>0, TailShape
    <3>2. QED
      BY <2>0, <3>1, CapsPositive DEF TypeOK
  <2>3. held' \in Seq(Message) /\ Len(held') <= 1
    BY <2>0, <2>1
  <2>4. worker' \in [Sessions -> WorkerStates] /\ wg' \in Int
    <3> DEFINE d == Head(inbound).sess
    <3>1. \/ worker' = [worker EXCEPT ![d] = "idle"] /\ wg' = wg + 1
          \/ UNCHANGED <<worker, wg>>
      BY <1>2 DEF Receive
    <3>2. d \in Sessions
      BY <2>1
    <3> HIDE DEF d
    <3>3. worker \in [Sessions -> WorkerStates] /\ wg \in Int
      BY DEF TypeOK
    <3>4. CASE worker' = [worker EXCEPT ![d] = "idle"] /\ wg' = wg + 1
      BY <3>2, <3>3, <3>4 DEF WorkerStates
    <3>5. CASE UNCHANGED <<worker, wg>>
      BY <3>3, <3>5
    <3>6. QED
      BY <3>1, <3>4, <3>5
  <2>5. QED
    BY <1>2, <2>2, <2>3, <2>4 DEF Receive, TypeOK, shutdownVars
<1>3. CASE Enqueue
  <2>0. held[1] \in Message
    BY <1>3, AtMostOne DEF Enqueue, TypeOK
  <2>1. held[1].sess \in Sessions /\ held[1].seq \in Nat
    BY <2>0, MessageFields
  <2> DEFINE d == held[1].sess
  <2>2. /\ Append(queue[d], held[1].seq) \in Seq(Nat)
        /\ Len(Append(queue[d], held[1].seq)) <= QueueCap
    <3>1. queue[d] \in Seq(Nat) /\ Len(queue[d]) < QueueCap
      BY <1>3, <2>1 DEF Enqueue, TypeOK
    <3>2. QED
      BY <2>1, <3>1, CapsPositive, AppendShape
  <2>3. /\ queue' \in [Sessions -> Seq(Nat)]
        /\ \A s \in Sessions : Len(queue'[s]) <= QueueCap
    BY <1>3, <2>1, <2>2 DEF Enqueue, TypeOK
  <2>4. held' \in Seq(Message) /\ Len(held') <= 1
    BY <1>3, EmptySeq DEF Enqueue
  <2>5. QED
    BY <1>3, <2>3, <2>4
       DEF Enqueue, TypeOK, busVars, workerVars, shutdownVars
<1>4. CASE Abandon
  <2>1. held' \in Seq(Message) /\ Len(held') <= 1
    BY <1>4, EmptySeq DEF Abandon
  <2>2. QED
    BY <1>4, <2>1 DEF Abandon, TypeOK, busVars, workerVars, shutdownVars
<1>5. CASE CloseQueues
  <2>1. queueClosed' \in [Sessions -> BOOLEAN]
    BY <1>5 DEF CloseQueues
  <2>2. QED
    BY <1>5, <2>1 DEF CloseQueues, TypeOK, busVars, workerVars, shutdownVars
<1>6. ASSUME NEW s \in Sessions, Take(s) PROVE TypeOK'
  <2>1. Head(queue[s]) \in Nat /\ Tail(queue[s]) \in Seq(Nat)
        /\ Len(Tail(queue[s])) <= QueueCap
    BY <1>6, CapsPositive, TailShape DEF Take, TypeOK
  <2>2. /\ queue' \in [Sessions -> Seq(Nat)]
        /\ \A t \in Sessions : Len(queue'[t]) <= QueueCap
    BY <1>6, <2>1 DEF Take, TypeOK
  <2>3. QED
    BY <1>6, <2>1, <2>2 DEF Take, TypeOK, WorkerStates, busVars, shutdownVars
<1>7. ASSUME NEW s \in Sessions, TurnRetries(s) \/ TurnEnds(s) PROVE TypeOK'
  BY <1>7 DEF TurnRetries, TurnEnds, TypeOK, WorkerStates, busVars, loopVars,
     shutdownVars
<1>8. ASSUME NEW s \in Sessions, Reply(s) PROVE TypeOK'
  <2>1. [sess |-> s, seq |-> cur[s]] \in Message
    BY DEF TypeOK, Message
  <2>2. outbound' \in Seq(Message) /\ Len(outbound') <= OutboundCap
    BY <1>8, <2>1, CapsPositive, AppendShape DEF Reply, TypeOK
  <2>3. QED
    BY <1>8, <2>2 DEF Reply, TypeOK, WorkerStates, loopVars, shutdownVars
<1>9. ASSUME NEW s \in Sessions, DropReply(s) PROVE TypeOK'
  BY <1>9 DEF DropReply, TypeOK, WorkerStates, busVars, loopVars, shutdownVars
<1>10. ASSUME NEW s \in Sessions, WorkerExits(s) PROVE TypeOK'
  BY <1>10 DEF WorkerExits, TypeOK, WorkerStates, busVars, shutdownVars
<1>11. CASE Deliver
  <2>1. Head(outbound) \in Message /\ Head(outbound).sess \in Sessions
        /\ Head(outbound).seq \in Nat
    BY <1>11, TailShape, MessageFields DEF Deliver, TypeOK
  <2>2. outbound' \in Seq(Message) /\ Len(outbound') <= OutboundCap
    BY <1>11, CapsPositive, TailShape DEF Deliver, TypeOK
  <2>3. QED
    BY <1>11, <2>1, <2>2
       DEF Deliver, TypeOK, loopVars, workerVars, shutdownVars
<1>12. CASE ConsumerStops
  BY <1>12 DEF ConsumerStops, TypeOK, busVars, loopVars, workerVars,
     shutdownVars
<1>13. CASE Signal \/ Shutdown
  BY <1>13 DEF Signal, Shutdown, CloseInbound, CloseOutbound, WaitReturns,
     WaitTimesOut, StopComponents, TypeOK, Phases, busVars, loopVars, workerVars
<1>14. CASE UNCHANGED vars
  BY <1>14 DEF TypeOK, vars, busVars, loopVars, workerVars, shutdownVars
<1>15. QED
  BY <1>1, <1>2, <1>3, <1>4, <1>5, <1>6, <1>7, <1>8, <1>9, <1>10, <1>11,
     <1>12, <1>13, <1>14 DEF Next, Work, Dispatch, Consume

\* The variables keep their types and no channel or queue exceeds its
\* capacity.
THEOREM TypeCorrect == Spec => []TypeOK
  BY InitTypes, NextTypes, PTL DEF Spec

-----------------------------------------------------------------------------
(* The backlog of a session.                                               *)

\* The steps that touch the backlog, and all the others.
LEMMA BacklogSteps ==
    ASSUME [Next]_vars
    PROVE  \/ \E s \in Sessions : Publish(s) \/ Take(s)
           \/ Receive \/ Enqueue \/ Abandon \/ CloseQueues
           \/ UNCHANGED <<inbound, held, queue, dispatcher, started, published>>
  BY DEF Next, Work, TurnRetries, TurnEnds, Reply, DropReply, WorkerExits,
     Dispatch, Consume, Deliver, ConsumerStops, Signal, Shutdown, CloseInbound,
     CloseOutbound, WaitReturns, WaitTimesOut, StopComponents, vars, busVars,
     loopVars, workerVars, shutdownVars

\* Dispatched counts what left the bus.
LEMMA DispatchedNat ==
    ASSUME TypeOK, NEW s \in Sessions
    PROVE  /\ started[s] \in Nat /\ Len(queue[s]) \in Nat
           /\ queue[s] \in Seq(Nat)
           /\ published[s] \in Nat
           /\ Dispatched(s) \in Nat
           /\ held = <<>> => Dispatched(s) = started[s] + Len(queue[s])
<1>1. started[s] \in Nat /\ queue[s] \in Seq(Nat) /\ published[s] \in Nat
  BY DEF TypeOK
<1>2. Len(queue[s]) \in Nat
  BY <1>1, LenProperties
<1>3. QED
  BY <1>1, <1>2 DEF Dispatched

\* Every step keeps the backlog gapless.
LEMMA NextGapless ==
    ASSUME TypeOK, TypeOK', GaplessBacklog, [Next]_vars
    PROVE  GaplessBacklog'
<1>1. ASSUME NEW s \in Sessions, Publish(s) PROVE GaplessBacklog'
  <2>1. /\ UNCHANGED <<held, queue, dispatcher, started>>
        /\ inbound' = Append(inbound, [sess |-> s, seq |-> published[s] + 1])
        /\ published' = [published EXCEPT ![s] = @ + 1]
    BY <1>1 DEF Publish, loopVars, workerVars
  <2>2. QueueInOrder' /\ HeldIsNext'
    BY <2>1 DEF GaplessBacklog, QueueInOrder, HeldIsNext
  <2>3. ASSUME dispatcher # "abandoned", NEW t \in Sessions
        PROVE  Run(inbound', t, Dispatched(t)', published'[t])
    <3>1. Dispatched(t)' = Dispatched(t)
      BY <2>1 DEF Dispatched
    <3>2. Run(inbound, t, Dispatched(t), published[t])
      BY <2>3 DEF GaplessBacklog, InboundInOrder
    <3>3. inbound \in Seq(Message) /\ published \in [Sessions -> Nat]
      BY DEF TypeOK
    <3>4. CASE t = s
      BY <2>1, <3>1, <3>2, <3>3, <3>4, DispatchedNat, RunAppendSame
    <3>5. CASE t # s
      <4>1. published'[t] = published[t]
        BY <2>1, <3>3, <3>5
      <4>2. [sess |-> s, seq |-> published[s] + 1] \in Message
        BY <3>3 DEF Message
      <4>3. QED
        BY <2>1, <3>1, <3>2, <3>3, <3>5, <4>1, <4>2, RunAppendOther
    <3>6. QED
      BY <3>4, <3>5
  <2>4. QED
    BY <2>1, <2>2, <2>3 DEF GaplessBacklog, InboundInOrder
<1>2. CASE Receive
  <2>1. /\ UNCHANGED <<queue, dispatcher, started, published>>
        /\ dispatcher = "running" /\ held = <<>>
        /\ inbound # <<>> /\ inbound \in Seq(Message)
        /\ inbound' = Tail(inbound) /\ held' = <<Head(inbound)>>
    BY <1>2 DEF Receive, TypeOK
  <2>2. PICK d \in Sessions : d = Head(inbound).sess
    BY <2>1, TailShape, MessageFields
  <2>3. \A t \in Sessions : Run(inbound, t, Dispatched(t), published[t])
    BY <2>1 DEF GaplessBacklog, InboundInOrder
  <2>4. /\ Head(inbound).seq = Dispatched(d) + 1
        /\ Run(inbound', d, Dispatched(d) + 1, published[d])
    BY <2>1, <2>2, <2>3, DispatchedNat, RunTailSame
  <2>5. Dispatched(d)' = Dispatched(d) + 1
    <3>1. held' # <<>> /\ held'[1].sess = d
      BY <2>1, <2>2
    <3>2. Dispatched(d)' = started[d] + Len(queue[d]) + 1
      BY <2>1, <3>1 DEF Dispatched
    <3>3. Dispatched(d) = started[d] + Len(queue[d])
      BY <2>1, <2>2, DispatchedNat
    <3>4. QED
      BY <3>2, <3>3
  <2>6. ASSUME NEW t \in Sessions, t # d
        PROVE  Run(inbound', t, Dispatched(t)', published[t])
    <3>1. Dispatched(t)' = Dispatched(t)
      <4>1. held' # <<>> /\ held'[1].sess # t
        BY <2>1, <2>2, <2>6
      <4>2. QED
        BY <2>1, <4>1 DEF Dispatched
    <3>2. QED
      BY <2>1, <2>2, <2>3, <2>6, <3>1, RunTailOther
  <2>7. HeldIsNext'
    <3>1. held'[1] = Head(inbound)
      BY <2>1
    <3>2. Head(inbound).seq = started[d] + Len(queue[d]) + 1
      BY <2>1, <2>2, <2>4, DispatchedNat
    <3>3. QED
      BY <2>1, <2>2, <3>1, <3>2 DEF HeldIsNext
  <2>8. QueueInOrder'
    BY <2>1 DEF GaplessBacklog, QueueInOrder
  <2>9. InboundInOrder'
    <3> SUFFICES ASSUME NEW t \in Sessions
                 PROVE  Run(inbound', t, Dispatched(t)', published[t])
      BY <2>1 DEF InboundInOrder
    <3>1. CASE t = d
      BY <2>4, <2>5, <3>1
    <3>2. CASE t # d
      BY <2>6, <3>2
    <3>3. QED
      BY <3>1, <3>2
  <2>10. QED
    BY <2>7, <2>8, <2>9 DEF GaplessBacklog
<1>3. CASE Enqueue
  <2>1. /\ UNCHANGED <<inbound, dispatcher, started, published>>
        /\ held # <<>> /\ held' = <<>>
        /\ queue' = [queue EXCEPT ![held[1].sess] = Append(@, held[1].seq)]
    BY <1>3 DEF Enqueue, busVars, workerVars
  <2>2. PICK d \in Sessions, n \in Nat : d = held[1].sess /\ n = held[1].seq
    <3>1. held \in Seq(Message) /\ Len(held) <= 1
      BY DEF TypeOK
    <3>2. QED
      BY <2>1, <3>1, AtMostOne, MessageFields
  <2>3. queue \in [Sessions -> Seq(Nat)]
    BY DEF TypeOK
  <2>4. n = started[d] + Len(queue[d]) + 1
    BY <2>1, <2>2 DEF GaplessBacklog, HeldIsNext
  <2>5. /\ queue'[d] = Append(queue[d], n)
        /\ \A t \in Sessions \ {d} : queue'[t] = queue[t]
    BY <2>1, <2>2, <2>3
  <2>6. /\ Len(queue'[d]) = Len(queue[d]) + 1
        /\ \A i \in 1..Len(queue[d]) : queue'[d][i] = queue[d][i]
        /\ queue'[d][Len(queue[d]) + 1] = n
    BY <2>2, <2>3, <2>5, AppendShape
  <2>7. QueueInOrder'
    <3> SUFFICES ASSUME NEW t \in Sessions, NEW i \in 1..Len(queue'[t])
                 PROVE  queue'[t][i] = started[t] + i
      BY <2>1 DEF QueueInOrder
    <3>1. \A j \in 1..Len(queue[t]) : queue[t][j] = started[t] + j
      BY DEF GaplessBacklog, QueueInOrder
    <3>2. CASE t # d
      BY <2>5, <3>1, <3>2
    <3>3. CASE t = d /\ i = Len(queue[d]) + 1
      <4>1. started[d] \in Nat /\ Len(queue[d]) \in Nat
        BY DispatchedNat
      <4>2. n = started[d] + i
        BY <2>4, <3>3, <4>1
      <4>3. queue'[t][i] = n
        BY <2>6, <3>3
      <4>4. QED
        BY <3>3, <4>2, <4>3
    <3>4. CASE t = d /\ i \in 1..Len(queue[d])
      BY <2>6, <3>1, <3>4
    <3>5. t = d => i \in 1..(Len(queue[d]) + 1) /\ Len(queue[d]) \in Nat
      BY <2>6, DispatchedNat
    <3>6. QED
      BY <3>2, <3>3, <3>4, <3>5
  <2>8. ASSUME NEW t \in Sessions PROVE Dispatched(t)' = Dispatched(t)
    <3>1. CASE t = d
      <4>1. Dispatched(d) = started[d] + Len(queue[d]) + 1
        BY <2>1, <2>2 DEF Dispatched
      <4>2. Dispatched(d)' = started[d] + Len(queue'[d])
        <5>1. started[d] \in Nat /\ Len(queue'[d]) \in Nat
          BY <2>2, <2>6, DispatchedNat
        <5>2. Dispatched(d)' = started[d] + Len(queue'[d]) + 0
          BY <2>1 DEF Dispatched
        <5>3. QED
          BY <5>1, <5>2
      <4>3. started[d] \in Nat /\ Len(queue[d]) \in Nat
        BY <2>2, DispatchedNat
      <4>4. Dispatched(d)' = Dispatched(d)
        BY <2>6, <4>1, <4>2, <4>3
      <4>5. QED
        BY <3>1, <4>4
    <3>2. CASE t # d
      BY <2>1, <2>2, <2>5, <3>2, DispatchedNat DEF Dispatched
    <3>3. QED
      BY <3>1, <3>2
  <2>9. InboundInOrder'
    BY <2>1, <2>8 DEF GaplessBacklog, InboundInOrder
  <2>10. QED
    BY <2>1, <2>7, <2>9 DEF GaplessBacklog, HeldIsNext
<1>4. CASE Abandon
  BY <1>4 DEF Abandon, GaplessBacklog, QueueInOrder, HeldIsNext,
     InboundInOrder, busVars, workerVars
<1>5. CASE CloseQueues
  <2>1. UNCHANGED <<inbound, held, queue, started, published>>
        /\ dispatcher = "running" /\ dispatcher' = "drained"
    BY <1>5 DEF CloseQueues, busVars, workerVars
  <2>2. QED
    BY <2>1 DEF GaplessBacklog, QueueInOrder, HeldIsNext, InboundInOrder,
       Dispatched
<1>6. ASSUME NEW s \in Sessions, Take(s) PROVE GaplessBacklog'
  <2>1. /\ UNCHANGED <<inbound, held, dispatcher, published>>
        /\ queue[s] # <<>>
        /\ queue' = [queue EXCEPT ![s] = Tail(@)]
        /\ started' = [started EXCEPT ![s] = Head(queue[s])]
    BY <1>6 DEF Take, busVars
  <2>2. queue \in [Sessions -> Seq(Nat)] /\ started \in [Sessions -> Nat]
    BY DEF TypeOK
  <2>3. \A t \in Sessions : \A j \in 1..Len(queue[t]) :
          queue[t][j] = started[t] + j
    BY DEF GaplessBacklog, QueueInOrder
  <2>4. /\ Len(Tail(queue[s])) = Len(queue[s]) - 1
        /\ Len(queue[s]) \in Nat \ {0}
        /\ \A i \in 1..(Len(queue[s]) - 1) : Tail(queue[s])[i] = queue[s][i+1]
        /\ Head(queue[s]) = queue[s][1]
    BY <2>1, <2>2, TailShape
  <2>5. /\ queue'[s] = Tail(queue[s])
        /\ started'[s] = started[s] + 1
        /\ \A t \in Sessions \ {s} :
             queue'[t] = queue[t] /\ started'[t] = started[t]
    BY <2>1, <2>2, <2>3, <2>4
  <2>6. QueueInOrder'
    <3> SUFFICES ASSUME NEW t \in Sessions, NEW i \in 1..Len(queue'[t])
                 PROVE  queue'[t][i] = started'[t] + i
      BY DEF QueueInOrder
    <3>1. CASE t # s
      BY <2>3, <2>5, <3>1
    <3>2. CASE t = s
      <4>1. Len(queue'[s]) = Len(queue[s]) - 1 /\ i \in 1..Len(queue'[s])
        BY <2>4, <2>5, <3>2
      <4>2. i \in 1..(Len(queue[s]) - 1) /\ i + 1 \in 1..Len(queue[s])
        BY <2>4, <4>1
      <4>3. queue[s][i + 1] = started[s] + (i + 1)
        BY <2>3, <4>2
      <4>4. queue'[s][i] = started[s] + (i + 1)
        BY <2>4, <2>5, <4>2, <4>3
      <4>5. started[s] \in Nat
        BY <2>2
      <4>6. queue'[s][i] = started'[s] + i
        BY <2>5, <4>2, <4>4, <4>5
      <4>7. QED
        BY <3>2, <4>6
    <3>3. QED
      BY <3>1, <3>2
  <2>7. \A t \in Sessions : started'[t] + Len(queue'[t])
                               = started[t] + Len(queue[t])
    <3> TAKE t \in Sessions
    <3>1. CASE t = s
      <4>1. started[s] \in Nat
        BY <2>2
      <4>2. Len(queue'[s]) = Len(queue[s]) - 1
        BY <2>4, <2>5
      <4>3. started'[s] + Len(queue'[s]) = started[s] + Len(queue[s])
        BY <2>4, <2>5, <4>1, <4>2
      <4>4. QED
        BY <3>1, <4>3
    <3>2. CASE t # s
      BY <2>5, <3>2
    <3>3. QED
      BY <3>1, <3>2
  <2>8. \A t \in Sessions : Dispatched(t)' = Dispatched(t)
    BY <2>1, <2>7 DEF Dispatched
  <2>9. HeldIsNext'
    <3> SUFFICES ASSUME held # <<>>
                 PROVE  held[1].seq = started'[held[1].sess]
                                        + Len(queue'[held[1].sess]) + 1
      BY <2>1 DEF HeldIsNext
    <3>1. held \in Seq(Message) /\ Len(held) <= 1
      BY DEF TypeOK
    <3>2. held[1].sess \in Sessions
      BY <3>1, AtMostOne, MessageFields
    <3>3. QED
      BY <2>7, <3>2 DEF GaplessBacklog, HeldIsNext
  <2>10. QED
    BY <2>1, <2>6, <2>8, <2>9 DEF GaplessBacklog, InboundInOrder
<1>7. CASE UNCHANGED <<inbound, held, queue, dispatcher, started, published>>
  BY <1>7 DEF GaplessBacklog, QueueInOrder, HeldIsNext, InboundInOrder,
     Dispatched
<1>8. QED
  BY <1>1, <1>2, <1>3, <1>4, <1>5, <1>6, <1>7, BacklogSteps

\* No backlog at the start.
LEMMA InitGapless == ASSUME Init PROVE GaplessBacklog
  BY EmptySeq DEF Init, GaplessBacklog, QueueInOrder, HeldIsNext,
     InboundInOrder, Run, Absent, Dispatched

\* Whatever the capacities, the messages of a session wait in bus order,
\* without gap or duplicate.
THEOREM BacklogIsGapless == Spec => []GaplessBacklog
<1>1. TypeOK /\ TypeOK' /\ GaplessBacklog /\ [Next]_vars => GaplessBacklog'
  BY NextGapless
<1>2. QED
  BY <1>1, InitGapless, TypeCorrect, PTL DEF Spec

-----------------------------------------------------------------------------
(* The turns of a session in order, the counts of the WaitGroup, and what a *)
(* worker leaves behind when it returns.                                    *)

\* The message of a busy worker is the one it began last.
CurMatches ==
    \A s \in Sessions :
      IF Busy(s) THEN cur[s] = started[s] /\ cur[s] # 0 ELSE cur[s] = 0

\* The steps that change what a worker does, and all the others.
LEMMA WorkerSteps ==
    ASSUME [Next]_vars
    PROVE  \/ \E s \in Sessions : Take(s) \/ TurnRetries(s) \/ TurnEnds(s)
                                  \/ Reply(s) \/ DropReply(s) \/ WorkerExits(s)
           \/ Receive
           \/ UNCHANGED <<worker, cur, started>>
  BY DEF Next, Work, Publish, Dispatch, Enqueue, Abandon, CloseQueues, Consume,
     Deliver, ConsumerStops, Signal, Shutdown, CloseInbound, CloseOutbound,
     WaitReturns, WaitTimesOut, StopComponents, vars, workerVars

\* A worker takes the number after the one it began before.
LEMMA TakeNext ==
    ASSUME TypeOK, GaplessBacklog, NEW s \in Sessions, Take(s)
    PROVE  /\ started' = [started EXCEPT ![s] = started[s] + 1]
           /\ cur' = [cur EXCEPT ![s] = started[s] + 1]
           /\ worker' = [worker EXCEPT ![s] = "turn"]
           /\ worker[s] = "idle"
           /\ started[s] \in Nat
<1>1. queue[s] \in Seq(Nat) /\ queue[s] # <<>> /\ started[s] \in Nat
  BY DEF Take, TypeOK
<1>2. Len(queue[s]) \in Nat \ {0} /\ Head(queue[s]) = queue[s][1]
  BY <1>1, TailShape
<1>3. queue[s][1] = started[s] + 1
  BY <1>2 DEF GaplessBacklog, QueueInOrder
<1>4. QED
  BY <1>1, <1>2, <1>3 DEF Take

\* Receiving only ever turns a worker that is not there into an idle one.
LEMMA ReceiveWorkers ==
    ASSUME TypeOK, Receive
    PROVE  /\ UNCHANGED <<cur, started>>
           /\ worker' \in [Sessions -> WorkerStates]
           /\ \A s \in Sessions :
                \/ worker'[s] = worker[s]
                \/ worker[s] = "none" /\ worker'[s] = "idle"
<1>1. inbound \in Seq(Message) /\ inbound # <<>>
  BY DEF Receive, TypeOK
<1>2. PICK d \in Sessions : d = Head(inbound).sess
  BY <1>1, TailShape, MessageFields
<1>3. worker \in [Sessions -> WorkerStates]
  BY DEF TypeOK
<1>4. \/ worker[d] = "none" /\ worker' = [worker EXCEPT ![d] = "idle"]
      \/ worker' = worker
  BY <1>2 DEF Receive
<1>5. UNCHANGED <<cur, started>>
  BY DEF Receive
<1>6. QED
  BY <1>3, <1>4, <1>5 DEF WorkerStates

\* Every step keeps CurMatches.
LEMMA NextCur ==
    ASSUME TypeOK, GaplessBacklog, CurMatches, [Next]_vars
    PROVE  CurMatches'
<1>0. /\ worker \in [Sessions -> WorkerStates]
      /\ cur \in [Sessions -> Nat] /\ started \in [Sessions -> Nat]
  BY DEF TypeOK
<1>1. ASSUME NEW s \in Sessions, Take(s) PROVE CurMatches'
  BY <1>0, <1>1, TakeNext DEF CurMatches, Busy
<1>2. ASSUME NEW s \in Sessions, TurnRetries(s) \/ TurnEnds(s)
      PROVE  CurMatches'
  BY <1>0, <1>2 DEF TurnRetries, TurnEnds, CurMatches, Busy
<1>3. ASSUME NEW s \in Sessions, Reply(s) \/ DropReply(s)
      PROVE  CurMatches'
  BY <1>0, <1>3 DEF Reply, DropReply, CurMatches, Busy
<1>4. ASSUME NEW s \in Sessions, WorkerExits(s) PROVE CurMatches'
  BY <1>0, <1>4 DEF WorkerExits, CurMatches, Busy
<1>5. CASE Receive
  BY <1>0, <1>5, ReceiveWorkers DEF CurMatches, Busy
<1>6. CASE UNCHANGED <<worker, cur, started>>
  BY <1>6 DEF CurMatches, Busy
<1>7. QED
  BY <1>1, <1>2, <1>3, <1>4, <1>5, <1>6, WorkerSteps

\* CurMatches holds always.
LEMMA CurInvariant == Spec => []CurMatches
<1>1. Init => CurMatches
  BY DEF Init, CurMatches, Busy
<1>2. TypeOK /\ GaplessBacklog /\ CurMatches /\ [Next]_vars => CurMatches'
  BY NextCur
<1>3. QED
  BY <1>1, <1>2, TypeCorrect, BacklogIsGapless, PTL DEF Spec

-----------------------------------------------------------------------------
\* A session's turns begin in bus order, none is skipped, none begins while
\* another one runs.
THEOREM TurnsInOrder == Spec => TurnsFollowBusOrder
<1>1. ASSUME TypeOK, GaplessBacklog, [Next]_vars,
             NEW s \in Sessions, started'[s] # started[s]
      PROVE  started'[s] = started[s] + 1 /\ ~Busy(s)
  <2>1. \A t \in Sessions : ~Take(t) => started'[t] = started[t] \/ \E u \in Sessions : Take(u)
    BY <1>1, WorkerSteps, ReceiveWorkers
       DEF TurnRetries, TurnEnds, Reply, DropReply, WorkerExits
  <2>2. PICK t \in Sessions : Take(t)
    BY <1>1, <2>1
  <2>3. started \in [Sessions -> Nat]
    BY <1>1 DEF TypeOK
  <2>4. QED
    BY <1>1, <2>2, <2>3, TakeNext DEF Busy
<1>2. TypeOK /\ GaplessBacklog /\ [Next]_vars =>
        [\A s \in Sessions : started'[s] # started[s] =>
           /\ started'[s] = started[s] + 1
           /\ ~Busy(s)]_vars
  BY <1>1
<1>3. QED
  BY <1>2, TypeCorrect, BacklogIsGapless, PTL DEF Spec, TurnsFollowBusOrder
-----------------------------------------------------------------------------
(* The WaitGroup.                                                          *)

\* The sets of running workers and how they change.
LiveSet == {s \in Sessions : Live(s)}

\* Adding an element that is new, and removing one that is there.
LEMMA CountOneMore ==
    ASSUME NEW A \in SUBSET Sessions, NEW s \in Sessions, s \notin A
    PROVE  /\ Cardinality(A) \in Nat
           /\ Cardinality(A \cup {s}) = Cardinality(A) + 1
<1>1. IsFiniteSet(A)
  BY SessionsFinite, FS_Subset
<1>2. QED
  BY <1>1, FS_AddElement, FS_CardinalityType

\* Every step keeps the count.
LEMMA NextCount ==
    ASSUME TypeOK, WaitGroupCountsWorkers, [Next]_vars
    PROVE  WaitGroupCountsWorkers'
<1>0. wg = Cardinality(LiveSet) /\ worker \in [Sessions -> WorkerStates]
  BY DEF WaitGroupCountsWorkers, LiveSet, TypeOK
<1> SUFFICES wg' = Cardinality(LiveSet')
  BY DEF WaitGroupCountsWorkers, LiveSet
<1>1. CASE Receive
  <2>1. inbound \in Seq(Message) /\ inbound # <<>>
    BY <1>1 DEF Receive, TypeOK
  <2>2. PICK d \in Sessions : d = Head(inbound).sess
    BY <2>1, TailShape, MessageFields
  <2>3. CASE /\ worker[d] = "none" /\ wg' = wg + 1
             /\ worker' = [worker EXCEPT ![d] = "idle"]
    <3>1. LiveSet' = LiveSet \cup {d} /\ d \notin LiveSet
      BY <1>0, <2>3 DEF LiveSet, Live
    <3>2. LiveSet \in SUBSET Sessions
      BY DEF LiveSet
    <3>3. QED
      BY <1>0, <2>3, <3>1, <3>2, CountOneMore
  <2>4. CASE UNCHANGED <<worker, wg>>
    BY <1>0, <2>4 DEF LiveSet, Live
  <2>5. QED
    BY <1>1, <2>2, <2>3, <2>4 DEF Receive
<1>2. ASSUME NEW s \in Sessions, WorkerExits(s)
      PROVE  wg' = Cardinality(LiveSet')
  <2>1. /\ LiveSet = LiveSet' \cup {s} /\ s \notin LiveSet'
        /\ LiveSet' \in SUBSET Sessions
    BY <1>0, <1>2 DEF WorkerExits, LiveSet, Live
  <2>2. /\ Cardinality(LiveSet') \in Nat
        /\ Cardinality(LiveSet) = Cardinality(LiveSet') + 1
    BY <2>1, CountOneMore
  <2>3. wg' = wg - 1
    BY <1>2 DEF WorkerExits
  <2>4. QED
    BY <1>0, <2>2, <2>3
<1>3. ASSUME NEW s \in Sessions,
             Take(s) \/ TurnRetries(s) \/ TurnEnds(s) \/ Reply(s) \/ DropReply(s)
      PROVE  wg' = Cardinality(LiveSet')
  <2>1. wg' = wg /\ LiveSet' = LiveSet
    BY <1>0, <1>3 DEF Take, TurnRetries, TurnEnds, Reply, DropReply, loopVars,
       LiveSet, Live
  <2>2. QED
    BY <1>0, <2>1
<1>4. CASE UNCHANGED <<worker, wg>>
  BY <1>0, <1>4 DEF LiveSet, Live
<1>5. \/ Receive \/ UNCHANGED <<worker, wg>>
      \/ \E s \in Sessions : Take(s) \/ TurnRetries(s) \/ TurnEnds(s)
                             \/ Reply(s) \/ DropReply(s) \/ WorkerExits(s)
  BY DEF Next, Work, Publish, Dispatch, Enqueue, Abandon, CloseQueues, Consume,
     Deliver, ConsumerStops, Signal, Shutdown, CloseInbound, CloseOutbound,
     WaitReturns, WaitTimesOut, StopComponents, vars, workerVars, loopVars
<1>6. QED
  BY <1>1, <1>2, <1>3, <1>4, <1>5

\* The WaitGroup counts the running workers, however many sessions there are.
THEOREM WaitGroupCounts == Spec => []WaitGroupCountsWorkers
<1>1. Init => WaitGroupCountsWorkers
  <2> SUFFICES ASSUME Init PROVE wg = Cardinality(LiveSet)
    BY DEF WaitGroupCountsWorkers, LiveSet
  <2>1. LiveSet = {} /\ wg = 0
    BY DEF Init, LiveSet, Live
  <2>2. QED
    BY <2>1, FS_EmptySet
<1>2. TypeOK /\ WaitGroupCountsWorkers /\ [Next]_vars => WaitGroupCountsWorkers'
  BY NextCount
<1>3. QED
  BY <1>1, <1>2, TypeCorrect, PTL DEF Spec

-----------------------------------------------------------------------------
(* What a worker leaves behind.                                            *)

\* Queues are closed only once nothing is on its way to them, and a worker
\* returns only from a queue that is closed and empty.
Drained ==
    /\ dispatcher = "drained" =>
         inbound = <<>> /\ inboundClosed /\ held = <<>>
    /\ \A s \in Sessions : queueClosed[s] => dispatcher = "drained"
    /\ \A s \in Sessions : worker[s] = "exited" =>
                             queueClosed[s] /\ queue[s] = <<>>

\* Every step keeps Drained.
LEMMA NextDrained ==
    ASSUME TypeOK, Drained, [Next]_vars
    PROVE  Drained'
<1>0. /\ worker \in [Sessions -> WorkerStates]
      /\ queue \in [Sessions -> Seq(Nat)]
      /\ queueClosed \in [Sessions -> BOOLEAN]
  BY DEF TypeOK
<1>1. ASSUME NEW s \in Sessions, Publish(s) PROVE Drained'
  BY <1>1 DEF Publish, Drained, loopVars, workerVars
<1>2. CASE Receive
  <2>1. /\ UNCHANGED <<dispatcher, queue, queueClosed>>
        /\ dispatcher = "running"
    BY <1>2 DEF Receive
  <2>2. \A s \in Sessions : worker'[s] = "exited" => worker[s] = "exited"
    BY <1>2, ReceiveWorkers
  <2>3. QED
    BY <2>1, <2>2 DEF Drained
<1>3. CASE Enqueue
  <2>1. dispatcher # "drained" /\ UNCHANGED <<dispatcher, worker, queueClosed>>
    BY <1>3 DEF Enqueue, Drained, workerVars
  <2>2. QED
    BY <2>1 DEF Drained
<1>4. CASE Abandon
  BY <1>4 DEF Abandon, Drained, busVars, workerVars
<1>5. CASE CloseQueues
  BY <1>0, <1>5 DEF CloseQueues, Drained, busVars, workerVars
<1>6. ASSUME NEW s \in Sessions, Take(s) PROVE Drained'
  BY <1>0, <1>6 DEF Take, Drained, busVars
<1>7. ASSUME NEW s \in Sessions,
             TurnRetries(s) \/ TurnEnds(s) \/ Reply(s) \/ DropReply(s)
      PROVE  Drained'
  BY <1>0, <1>7
     DEF TurnRetries, TurnEnds, Reply, DropReply, Drained, busVars, loopVars
<1>8. ASSUME NEW s \in Sessions, WorkerExits(s) PROVE Drained'
  BY <1>0, <1>8 DEF WorkerExits, Drained, busVars
<1>9. CASE Consume \/ Signal \/ Shutdown \/ UNCHANGED vars
  BY <1>9 DEF Consume, Deliver, ConsumerStops, Signal, Shutdown, CloseInbound,
     CloseOutbound, WaitReturns, WaitTimesOut, StopComponents, Drained, vars,
     busVars, loopVars, workerVars
<1>10. QED
  BY <1>1, <1>2, <1>3, <1>4, <1>5, <1>6, <1>7, <1>8, <1>9
     DEF Next, Work, Dispatch

\* Drained holds always.
LEMMA DrainedInvariant == Spec => []Drained
<1>1. Init => Drained
  BY DEF Init, Drained
<1>2. TypeOK /\ Drained /\ [Next]_vars => Drained'
  BY NextDrained
<1>3. QED
  BY <1>1, <1>2, TypeCorrect, PTL DEF Spec

\* A worker that returned has handled every message of its session that the
\* bus accepted.
THEOREM ExitedLeftNothing == Spec => []ExitedWorkerLeftNothing
<1>1. ASSUME TypeOK, GaplessBacklog, CurMatches, Drained
      PROVE  ExitedWorkerLeftNothing
  <2> SUFFICES ASSUME NEW s \in Sessions, worker[s] = "exited"
               PROVE  /\ queue[s] = <<>> /\ cur[s] = 0
                      /\ Absent(s, inbound) /\ Absent(s, held)
                      /\ started[s] = published[s]
    BY DEF ExitedWorkerLeftNothing
  <2>1. /\ queue[s] = <<>> /\ inbound = <<>> /\ held = <<>>
        /\ dispatcher = "drained"
    BY <1>1 DEF Drained
  <2>2. cur[s] = 0
    BY <1>1 DEF CurMatches, Busy
  <2>3. Absent(s, inbound) /\ Absent(s, held)
    BY <2>1, EmptySeq DEF Absent
  <2>4. Run(<<>>, s, Dispatched(s), published[s])
    BY <1>1, <2>1 DEF GaplessBacklog, InboundInOrder
  <2>5. Dispatched(s) = started[s]
    BY <1>1, <2>1, DispatchedNat, EmptySeq
  <2>6. QED
    BY <2>1, <2>2, <2>3, <2>4, <2>5, RunEmpty
<1>2. QED
  BY <1>1, TypeCorrect, BacklogIsGapless, CurInvariant, DrainedInvariant, PTL

-----------------------------------------------------------------------------
(* The replies: complete and in the order of the turns.                     *)

\* The outbound channel closes only after the context is done.
CtxFirst ==
    /\ phase # "running" => ctxDone
    /\ outboundClosed => ctxDone

\* CtxFirst holds always.
LEMMA CtxInvariant == Spec => []CtxFirst
<1>1. Init => CtxFirst
  BY DEF Init, CtxFirst
<1>2. CtxFirst /\ [Next]_vars => CtxFirst'
  <2> SUFFICES ASSUME CtxFirst, [Next]_vars PROVE CtxFirst'
    OBVIOUS
  <2>1. CASE Signal \/ Shutdown
    BY <2>1 DEF Signal, Shutdown, CloseInbound, CloseOutbound, WaitReturns,
       WaitTimesOut, StopComponents, CtxFirst, busVars
  <2>2. CASE UNCHANGED <<phase, ctxDone, outboundClosed>>
    BY <2>2 DEF CtxFirst
  <2>3. QED
    BY <2>1, <2>2 DEF Next, Work, Publish, Dispatch, Receive, Enqueue, Abandon,
       CloseQueues, Take, TurnRetries, TurnEnds, Reply, DropReply, WorkerExits,
       Consume, Deliver, ConsumerStops, vars, busVars, shutdownVars
<1>3. QED
  BY <1>1, <1>2, PTL DEF Spec

\* The number of the last message whose turn is over, step by step.
LEMMA FinishedSteps ==
    ASSUME TypeOK, GaplessBacklog, CurMatches, [Next]_vars
    PROVE  \A t \in Sessions :
             /\ Finished(t) \in Nat
             /\ (Reply(t) \/ DropReply(t)) =>
                  cur[t] = Finished(t) + 1 /\ Finished(t)' = Finished(t) + 1
             /\ ~(Reply(t) \/ DropReply(t)) => Finished(t)' = Finished(t)
<1>0. /\ worker \in [Sessions -> WorkerStates]
      /\ cur \in [Sessions -> Nat] /\ started \in [Sessions -> Nat]
  BY DEF TypeOK
<1> TAKE t \in Sessions
<1>1. Finished(t) \in Nat
  BY <1>0 DEF Finished, CurMatches
<1>2. ASSUME Reply(t) \/ DropReply(t)
      PROVE  cur[t] = Finished(t) + 1 /\ Finished(t)' = Finished(t) + 1
  <2>1. cur[t] = started[t] /\ cur[t] # 0
    BY <1>2 DEF Reply, DropReply, CurMatches, Busy
  <2>2. started' = started /\ cur'[t] = 0
    BY <1>0, <1>2 DEF Reply, DropReply
  <2>3. QED
    BY <1>0, <2>1, <2>2 DEF Finished
<1>3. ASSUME ~(Reply(t) \/ DropReply(t)) PROVE Finished(t)' = Finished(t)
  <2>1. ASSUME NEW s \in Sessions, Take(s) PROVE Finished(t)' = Finished(t)
    <3>1. cur[s] = 0
      BY <2>1, TakeNext DEF CurMatches, Busy
    <3>2. CASE t = s
      <4>1. started'[t] = started[t] + 1 /\ cur'[t] # 0 /\ started[t] \in Nat
        BY <1>0, <2>1, <3>2, TakeNext
      <4>2. QED
        BY <3>1, <3>2, <4>1 DEF Finished
    <3>3. CASE t # s
      <4>1. started'[t] = started[t] /\ cur'[t] = cur[t]
        BY <1>0, <2>1, <3>3, TakeNext
      <4>2. QED
        BY <4>1 DEF Finished
    <3>4. QED
      BY <3>2, <3>3
  <2>2. ASSUME NEW s \in Sessions, TurnRetries(s) \/ TurnEnds(s) \/ WorkerExits(s)
        PROVE  Finished(t)' = Finished(t)
    BY <2>2 DEF TurnRetries, TurnEnds, WorkerExits, Finished
  <2>3. ASSUME NEW s \in Sessions, Reply(s) \/ DropReply(s)
        PROVE  Finished(t)' = Finished(t)
    <3>1. s # t
      BY <1>3, <2>3
    <3>2. started' = started /\ cur'[t] = cur[t]
      BY <1>0, <2>3, <3>1 DEF Reply, DropReply
    <3>3. QED
      BY <3>2 DEF Finished
  <2>4. CASE Receive
    BY <2>4, ReceiveWorkers DEF Finished
  <2>5. CASE UNCHANGED <<worker, cur, started>>
    BY <2>5 DEF Finished
  <2>6. QED
    BY <2>1, <2>2, <2>3, <2>4, <2>5, WorkerSteps
<1>4. QED
  BY <1>1, <1>2, <1>3

\* The steps that touch the outbound channel, and all the others.
LEMMA ReplySteps ==
    ASSUME [Next]_vars
    PROVE  \/ \E s \in Sessions : Reply(s)
           \/ Deliver
           \/ UNCHANGED <<outbound, delivered>>
  BY DEF Next, Work, Publish, Dispatch, Receive, Enqueue, Abandon, CloseQueues,
     Take, TurnRetries, TurnEnds, DropReply, WorkerExits, Consume,
     ConsumerStops, Signal, Shutdown, CloseInbound, CloseOutbound, WaitReturns,
     WaitTimesOut, StopComponents, vars, busVars

\* Before the shutdown no reply is dropped and none is sent twice.
LEMMA NextReplies ==
    ASSUME TypeOK, GaplessBacklog, CurMatches, CtxFirst, OneReplyInOrder,
           [Next]_vars
    PROVE  OneReplyInOrder'
<1> SUFFICES ASSUME ~ctxDone', NEW t \in Sessions
             PROVE  Run(outbound', t, delivered'[t], Finished(t)')
  BY DEF OneReplyInOrder
<1>1. ~ctxDone
  BY DEF Next, Work, Publish, Dispatch, Receive, Enqueue, Abandon, CloseQueues,
     Take, TurnRetries, TurnEnds, Reply, DropReply, WorkerExits, Consume,
     Deliver, ConsumerStops, Signal, Shutdown, CloseInbound, CloseOutbound,
     WaitReturns, WaitTimesOut, StopComponents, vars, busVars
<1>2. Run(outbound, t, delivered[t], Finished(t))
  BY <1>1 DEF OneReplyInOrder
<1>3. /\ outbound \in Seq(Message) /\ delivered \in [Sessions -> Nat]
      /\ cur \in [Sessions -> Nat]
  BY DEF TypeOK
<1>4. ~DropReply(t)
  BY <1>1 DEF DropReply, CtxFirst
<1>5. ASSUME NEW s \in Sessions, Reply(s)
      PROVE  Run(outbound', t, delivered'[t], Finished(t)')
  <2>1. /\ outbound' = Append(outbound, [sess |-> s, seq |-> cur[s]])
        /\ delivered' = delivered
    BY <1>5 DEF Reply
  <2>2. CASE s = t
    <3>1. /\ Finished(t) \in Nat /\ cur[s] = Finished(t) + 1
          /\ Finished(t)' = Finished(t) + 1
      BY <1>5, <2>2, FinishedSteps
    <3>2. Run(Append(outbound, [sess |-> t, seq |-> Finished(t) + 1]), t,
              delivered[t], Finished(t) + 1)
      BY <1>2, <1>3, <3>1, RunAppendSame
    <3>3. QED
      BY <2>1, <2>2, <3>1, <3>2
  <2>3. CASE s # t
    <3>1. ~Reply(t)
      <4>1. ASSUME Reply(t) PROVE FALSE
        <5>1. Append(outbound, [sess |-> s, seq |-> cur[s]])
                = Append(outbound, [sess |-> t, seq |-> cur[t]])
          BY <2>1, <4>1 DEF Reply
        <5>2. /\ [sess |-> s, seq |-> cur[s]] \in Message
              /\ [sess |-> t, seq |-> cur[t]] \in Message
          BY <1>3 DEF Message
        <5>3. [sess |-> s, seq |-> cur[s]] = [sess |-> t, seq |-> cur[t]]
          BY <1>3, <5>1, <5>2, AppendShape
        <5>4. QED
          BY <2>3, <5>3
      <4>2. QED
        BY <4>1
    <3>2. Finished(t)' = Finished(t)
      BY <1>4, <3>1, FinishedSteps
    <3>3. [sess |-> s, seq |-> cur[s]] \in Message
      BY <1>3 DEF Message
    <3>4. QED
      BY <1>2, <1>3, <2>1, <2>3, <3>2, <3>3, RunAppendOther
  <2>4. QED
    BY <2>2, <2>3
<1>6. CASE Deliver
  <2>1. /\ outbound # <<>> /\ outbound' = Tail(outbound)
        /\ delivered' = [delivered EXCEPT ![Head(outbound).sess]
                           = Head(outbound).seq]
        /\ cur' = cur /\ started' = started
    BY <1>6 DEF Deliver, workerVars
  <2>2. Finished(t)' = Finished(t) /\ Finished(t) \in Nat
    BY <2>1, FinishedSteps DEF Finished
  <2>3. CASE Head(outbound).sess = t
    <3>1. /\ Head(outbound).seq = delivered[t] + 1
          /\ Run(Tail(outbound), t, delivered[t] + 1, Finished(t))
      BY <1>2, <1>3, <2>1, <2>2, <2>3, RunTailSame
    <3>2. delivered'[t] = Head(outbound).seq
      BY <1>3, <2>1, <2>3
    <3>3. QED
      BY <2>1, <2>2, <3>1, <3>2
  <2>4. CASE Head(outbound).sess # t
    <3>1. delivered'[t] = delivered[t]
      BY <1>3, <2>1, <2>4
    <3>2. QED
      BY <1>2, <1>3, <2>1, <2>2, <2>4, <3>1, RunTailOther
  <2>5. QED
    BY <2>3, <2>4
<1>7. ASSUME \A s \in Sessions : ~Reply(s), ~Deliver
      PROVE  Run(outbound', t, delivered'[t], Finished(t)')
  <2>1. UNCHANGED <<outbound, delivered>>
    BY <1>7, ReplySteps
  <2>2. Finished(t)' = Finished(t)
    BY <1>4, <1>7, FinishedSteps
  <2>3. QED
    BY <1>2, <2>1, <2>2
<1>8. QED
  BY <1>5, <1>6, <1>7

\* Until the shutdown begins every message whose turn is over has exactly one
\* reply, in order, whatever the capacity of the outbound channel.
THEOREM RepliesComplete == Spec => []OneReplyInOrder
<1>1. Init => OneReplyInOrder
  BY EmptySeq DEF Init, OneReplyInOrder, Run, Absent, Finished
<1>2. TypeOK /\ GaplessBacklog /\ CurMatches /\ CtxFirst /\ OneReplyInOrder
        /\ [Next]_vars => OneReplyInOrder'
  BY NextReplies
<1>3. QED
  BY <1>1, <1>2, TypeCorrect, BacklogIsGapless, CurInvariant, CtxInvariant, PTL
     DEF Spec

-----------------------------------------------------------------------------
(* The shutdown may drop replies, it never mixes them up.                  *)

\* No reply that was delivered is ahead of the turns.
DeliveredIsOver == \A s \in Sessions : delivered[s] <= Finished(s)

\* Turns are only ever finished.
LEMMA FinishedGrows ==
    ASSUME TypeOK, GaplessBacklog, CurMatches, [Next]_vars, NEW t \in Sessions
    PROVE  /\ Finished(t) \in Nat /\ Finished(t)' \in Nat
           /\ Finished(t) <= Finished(t)'
           /\ Reply(t) => cur[t] = Finished(t) + 1 /\ Finished(t)' = cur[t]
  BY FinishedSteps

\* Every step keeps the replies of a session apart and in order.
LEMMA NextOvertake ==
    ASSUME TypeOK, TypeOK', GaplessBacklog, CurMatches,
           RepliesNeverOvertake, DeliveredIsOver, [Next]_vars
    PROVE  RepliesNeverOvertake' /\ DeliveredIsOver'
<1>0. outbound \in Seq(Message) /\ delivered \in [Sessions -> Nat]
      /\ cur \in [Sessions -> Nat]
  BY DEF TypeOK
<1>1. \A i \in 1..Len(outbound) :
        outbound[i].sess \in Sessions /\ outbound[i].seq \in Nat
  BY <1>0, ElementOfSeq, MessageFields
<1>2. \A i \in 1..Len(outbound) :
        /\ delivered[outbound[i].sess] < outbound[i].seq
        /\ outbound[i].seq <= Finished(outbound[i].sess)
        /\ \A j \in 1..(i-1) : outbound[j].sess = outbound[i].sess =>
                                 outbound[j].seq < outbound[i].seq
  BY DEF RepliesNeverOvertake
<1>g. PICK G \in [Sessions -> Nat] :
        \A u \in Sessions : G[u] = IF cur'[u] = 0 THEN started'[u]
                                                  ELSE started'[u] - 1
  <2> DEFINE F == [u \in Sessions |-> IF cur'[u] = 0 THEN started'[u]
                                                      ELSE started'[u] - 1]
  <2>1. \A u \in Sessions : F[u] = Finished(u)'
    BY DEF Finished
  <2>2. F \in [Sessions -> Nat]
    BY <2>1, FinishedGrows
  <2>3. QED
    BY <2>2
<1>f. \A u \in Sessions : Finished(u)' = G[u]
  BY <1>g DEF Finished
<1>r. ASSUME \A i \in 1..Len(outbound') :
               /\ delivered'[outbound'[i].sess] < outbound'[i].seq
               /\ outbound'[i].seq <= G[outbound'[i].sess]
               /\ \A j \in 1..(i-1) : outbound'[j].sess = outbound'[i].sess =>
                                        outbound'[j].seq < outbound'[i].seq
      PROVE  RepliesNeverOvertake'
  <2>1. \A i \in 1..Len(outbound') : outbound'[i].sess \in Sessions
    <3>1. outbound' \in Seq(Message)
      BY DEF TypeOK
    <3>2. QED
      BY <3>1, ElementOfSeq, MessageFields
  <2>2. QED
    BY <1>g, <1>r, <2>1 DEF RepliesNeverOvertake, Finished
<1>d. ASSUME \A u \in Sessions : delivered'[u] <= G[u] PROVE DeliveredIsOver'
  BY <1>f, <1>d DEF DeliveredIsOver
<1>3. \A i \in 1..Len(outbound) : outbound[i].seq <= G[outbound[i].sess]
  <2> TAKE i \in 1..Len(outbound)
  <2>1. outbound[i].sess \in Sessions /\ outbound[i].seq \in Nat
        /\ outbound[i].seq <= Finished(outbound[i].sess)
    BY <1>1, <1>2
  <2>2. PICK u \in Sessions : u = outbound[i].sess
    BY <2>1
  <2>3. Finished(u) \in Nat /\ G[u] \in Nat /\ Finished(u) <= G[u]
    BY <1>f, FinishedGrows
  <2>4. QED
    BY <2>1, <2>2, <2>3
<1>4. ASSUME NEW s \in Sessions, Reply(s)
      PROVE  RepliesNeverOvertake' /\ DeliveredIsOver'
  <2> DEFINE m == [sess |-> s, seq |-> cur[s]]
             n == Len(outbound)
  <2>1. /\ outbound' = Append(outbound, m) /\ delivered' = delivered
        /\ m \in Message /\ m.sess = s /\ m.seq = cur[s]
    BY <1>0, <1>4 DEF Reply, Message
  <2> HIDE DEF m
  <2>2. /\ Len(outbound') = n + 1 /\ n \in Nat /\ outbound'[n + 1] = m
        /\ \A i \in 1..n : outbound'[i] = outbound[i]
    BY <1>0, <2>1, AppendShape
  <2> HIDE DEF n
  <2>3. /\ Finished(s) \in Nat /\ cur[s] = Finished(s) + 1
        /\ G[s] = cur[s] /\ delivered[s] <= Finished(s)
        /\ delivered[s] \in Nat /\ cur[s] \in Nat
    BY <1>0, <1>4, <1>f, FinishedGrows DEF DeliveredIsOver
  <2>4. \A i \in 1..n : outbound[i].sess = s => outbound[i].seq < cur[s]
    BY <1>1, <1>2, <2>3 DEF n
  <2>5. DeliveredIsOver'
    <3> SUFFICES ASSUME NEW u \in Sessions PROVE delivered[u] <= G[u]
      BY <1>d, <2>1
    <3>1. delivered[u] \in Nat /\ delivered[u] <= Finished(u)
          /\ Finished(u) \in Nat /\ G[u] \in Nat
          /\ Finished(u) <= G[u]
      BY <1>0, <1>f, FinishedGrows DEF DeliveredIsOver
    <3>2. QED
      BY <3>1
  <2>6. ASSUME NEW i \in 1..(n + 1)
        PROVE  /\ delivered[outbound'[i].sess] < outbound'[i].seq
               /\ outbound'[i].seq <= G[outbound'[i].sess]
               /\ \A j \in 1..(i-1) : outbound'[j].sess = outbound'[i].sess =>
                                        outbound'[j].seq < outbound'[i].seq
    <3>1. CASE i = n + 1
      <4>1. outbound'[i].sess = s /\ outbound'[i].seq = cur[s]
        BY <2>1, <2>2, <3>1
      <4>2. delivered[s] < cur[s] /\ cur[s] <= G[s]
        BY <2>3
      <4>3. \A j \in 1..(i-1) : outbound'[j].sess = s => outbound'[j].seq < cur[s]
        BY <2>2, <2>4, <3>1
      <4>4. QED
        BY <4>1, <4>2, <4>3
    <3>2. CASE i \in 1..n
      <4>1. outbound'[i] = outbound[i] /\ \A j \in 1..(i-1) : outbound'[j] = outbound[j]
        BY <2>2, <3>2
      <4>2. QED
        BY <1>2, <1>3, <3>2, <4>1 DEF n
    <3>3. QED
      BY <2>2, <3>1, <3>2
  <2>7. QED
    BY <1>r, <2>1, <2>2, <2>5, <2>6
<1>5. CASE Deliver
  <2> DEFINE n == Len(outbound)
  <2>1. /\ outbound # <<>> /\ outbound' = Tail(outbound)
        /\ delivered' = [delivered EXCEPT ![Head(outbound).sess]
                           = Head(outbound).seq]
    BY <1>5 DEF Deliver
  <2>2. /\ n \in Nat \ {0} /\ Len(outbound') = n - 1 /\ Head(outbound) = outbound[1]
        /\ \A i \in 1..(n - 1) : outbound'[i] = outbound[i + 1]
    BY <1>0, <2>1, TailShape
  <2> HIDE DEF n
  <2>3. PICK h \in Sessions : h = outbound[1].sess
    BY <1>1, <2>2 DEF n
  <2>4. /\ delivered'[h] = outbound[1].seq
        /\ \A u \in Sessions \ {h} : delivered'[u] = delivered[u]
    BY <1>0, <2>1, <2>2, <2>3
  <2>5. DeliveredIsOver'
    <3> SUFFICES ASSUME NEW u \in Sessions PROVE delivered'[u] <= G[u]
      BY <1>d
    <3>1. delivered[u] \in Nat /\ delivered[u] <= Finished(u)
          /\ Finished(u) \in Nat /\ G[u] \in Nat
          /\ Finished(u) <= G[u]
      BY <1>0, <1>f, FinishedGrows DEF DeliveredIsOver
    <3>2. CASE u = h
      BY <1>3, <2>2, <2>3, <2>4, <3>2 DEF n
    <3>3. CASE u # h
      BY <2>4, <3>1, <3>3
    <3>4. QED
      BY <3>2, <3>3
  <2>6. ASSUME NEW i \in 1..(n - 1)
        PROVE  /\ delivered'[outbound'[i].sess] < outbound'[i].seq
               /\ outbound'[i].seq <= G[outbound'[i].sess]
               /\ \A j \in 1..(i-1) : outbound'[j].sess = outbound'[i].sess =>
                                        outbound'[j].seq < outbound'[i].seq
    <3>1. /\ i + 1 \in 1..n /\ outbound'[i] = outbound[i + 1]
          /\ outbound[i + 1].sess \in Sessions
      BY <1>1, <2>2 DEF n
    <3>2. delivered'[outbound[i + 1].sess] < outbound[i + 1].seq
      <4>1. CASE outbound[i + 1].sess = h
        <5>1. 1 \in 1..((i + 1) - 1)
          BY <2>2
        <5>2. outbound[1].seq < outbound[i + 1].seq
          BY <1>2, <2>3, <3>1, <4>1, <5>1 DEF n
        <5>3. QED
          BY <2>4, <4>1, <5>2
      <4>2. CASE outbound[i + 1].sess # h
        BY <1>2, <2>4, <3>1, <4>2 DEF n
      <4>3. QED
        BY <4>1, <4>2
    <3>3. ASSUME NEW j \in 1..(i - 1), outbound'[j].sess = outbound'[i].sess
          PROVE  outbound'[j].seq < outbound'[i].seq
      <4>1. j + 1 \in 1..((i + 1) - 1) /\ outbound'[j] = outbound[j + 1]
        BY <2>2
      <4>2. QED
        BY <1>2, <3>1, <3>3, <4>1 DEF n
    <3>4. QED
      BY <1>3, <3>1, <3>2, <3>3 DEF n
  <2>7. QED
    BY <1>r, <2>2, <2>5, <2>6
<1>6. CASE UNCHANGED <<outbound, delivered>>
  <2>1. DeliveredIsOver'
    <3> SUFFICES ASSUME NEW u \in Sessions PROVE delivered[u] <= G[u]
      BY <1>d, <1>6
    <3>1. delivered[u] \in Nat /\ delivered[u] <= Finished(u)
          /\ Finished(u) \in Nat /\ G[u] \in Nat
          /\ Finished(u) <= G[u]
      BY <1>0, <1>f, FinishedGrows DEF DeliveredIsOver
    <3>2. QED
      BY <3>1
  <2>2. QED
    BY <1>2, <1>3, <1>6, <1>r, <2>1
<1>7. QED
  BY <1>4, <1>5, <1>6, ReplySteps

\* Replies of one session never overtake one another and none is delivered
\* before its turn is over, in every phase of the shutdown.
THEOREM RepliesInOrder == Spec => []RepliesNeverOvertake
<1>1. Init => RepliesNeverOvertake /\ DeliveredIsOver
  BY EmptySeq DEF Init, RepliesNeverOvertake, DeliveredIsOver, Finished
<1>2. TypeOK /\ TypeOK' /\ GaplessBacklog /\ CurMatches
        /\ RepliesNeverOvertake /\ DeliveredIsOver /\ [Next]_vars
        => RepliesNeverOvertake' /\ DeliveredIsOver'
  BY NextOvertake
<1>3. QED
  BY <1>1, <1>2, TypeCorrect, BacklogIsGapless, CurInvariant, PTL DEF Spec

-----------------------------------------------------------------------------
(* The loop implements the mailboxes of SessionMailbox: the safety part of  *)
(* ImplementsMailbox.                                                       *)

\* What is under way was accepted by the bus.
WasAccepted ==
    /\ \A i \in 1..Len(inbound) : inbound[i].seq <= published[inbound[i].sess]
    /\ held # <<>> => held[1].seq <= published[held[1].sess]
    /\ \A s \in Sessions : \A i \in 1..Len(queue[s]) :
         queue[s][i] <= published[s]

\* Every step keeps WasAccepted.
LEMMA NextAccepted ==
    ASSUME TypeOK, WasAccepted, [Next]_vars
    PROVE  WasAccepted'
<1>0. /\ inbound \in Seq(Message) /\ published \in [Sessions -> Nat]
      /\ queue \in [Sessions -> Seq(Nat)]
  BY DEF TypeOK
<1>1. \A i \in 1..Len(inbound) :
        /\ inbound[i].sess \in Sessions /\ inbound[i].seq \in Nat
        /\ inbound[i].seq <= published[inbound[i].sess]
  BY <1>0, ElementOfSeq, MessageFields DEF WasAccepted
<1>2. held # <<>> => /\ held[1].sess \in Sessions /\ held[1].seq \in Nat
                     /\ held[1].seq <= published[held[1].sess]
  BY AtMostOne, MessageFields DEF WasAccepted, TypeOK
<1>3. \A s \in Sessions : \A i \in 1..Len(queue[s]) :
        queue[s][i] \in Nat /\ queue[s][i] <= published[s]
  BY <1>0, ElementOfSeq DEF WasAccepted
<1>4. ASSUME NEW s \in Sessions, Publish(s) PROVE WasAccepted'
  <2> DEFINE m == [sess |-> s, seq |-> published[s] + 1]
  <2>1. /\ UNCHANGED <<held, queue>>
        /\ inbound' = Append(inbound, m)
        /\ published' = [published EXCEPT ![s] = @ + 1]
        /\ m \in Message /\ m.sess = s /\ m.seq = published[s] + 1
    BY <1>0, <1>4 DEF Publish, loopVars, Message
  <2> HIDE DEF m
  <2>2. \A t \in Sessions : published'[t] \in Nat /\ published[t] \in Nat
                            /\ published[t] <= published'[t]
    BY <1>0, <2>1
  <2>3. /\ Len(inbound') = Len(inbound) + 1 /\ Len(inbound) \in Nat
        /\ inbound'[Len(inbound) + 1] = m
        /\ \A i \in 1..Len(inbound) : inbound'[i] = inbound[i]
    BY <1>0, <2>1, AppendShape
  <2>4. \A i \in 1..Len(inbound') :
          inbound'[i].seq <= published'[inbound'[i].sess]
    <3> TAKE i \in 1..Len(inbound')
    <3>1. CASE i = Len(inbound) + 1
      BY <1>0, <2>1, <2>3, <3>1
    <3>2. CASE i \in 1..Len(inbound)
      BY <1>1, <2>2, <2>3, <3>2
    <3>3. QED
      BY <2>3, <3>1, <3>2
  <2>5. held' # <<>> => held'[1].seq <= published'[held'[1].sess]
    BY <1>2, <2>1, <2>2
  <2>6. \A t \in Sessions : \A i \in 1..Len(queue'[t]) :
          queue'[t][i] <= published'[t]
    BY <1>3, <2>1, <2>2
  <2>7. QED
    BY <2>4, <2>5, <2>6 DEF WasAccepted
<1>5. CASE Receive
  <2>1. /\ UNCHANGED <<queue, published>> /\ inbound # <<>>
        /\ inbound' = Tail(inbound) /\ held' = <<Head(inbound)>>
    BY <1>5 DEF Receive
  <2>2. /\ Len(inbound) \in Nat \ {0} /\ Len(inbound') = Len(inbound) - 1
        /\ Head(inbound) = inbound[1]
        /\ \A i \in 1..(Len(inbound) - 1) : inbound'[i] = inbound[i + 1]
    BY <1>0, <2>1, TailShape
  <2>3. \A i \in 1..Len(inbound') :
          inbound'[i].seq <= published[inbound'[i].sess]
    <3> TAKE i \in 1..Len(inbound')
    <3>1. i + 1 \in 1..Len(inbound) /\ inbound'[i] = inbound[i + 1]
      BY <2>2
    <3>2. QED
      BY <1>1, <3>1
  <2>4. held'[1].seq <= published[held'[1].sess]
    BY <1>1, <2>1, <2>2
  <2>5. QED
    BY <2>1, <2>3, <2>4 DEF WasAccepted
<1>6. CASE Enqueue
  <2>1. /\ UNCHANGED <<inbound, published>> /\ held # <<>> /\ held' = <<>>
        /\ queue' = [queue EXCEPT ![held[1].sess] = Append(@, held[1].seq)]
    BY <1>6 DEF Enqueue, busVars
  <2>2. ASSUME NEW t \in Sessions, NEW i \in 1..Len(queue'[t])
        PROVE  queue'[t][i] <= published[t]
    <3>1. CASE t # held[1].sess
      BY <1>0, <1>3, <2>1, <2>2, <3>1
    <3>2. CASE t = held[1].sess
      <4>1. queue'[t] = Append(queue[t], held[1].seq)
        BY <1>0, <2>1, <3>2
      <4>2. /\ Len(queue'[t]) = Len(queue[t]) + 1 /\ Len(queue[t]) \in Nat
            /\ queue'[t][Len(queue[t]) + 1] = held[1].seq
            /\ \A j \in 1..Len(queue[t]) : queue'[t][j] = queue[t][j]
        BY <1>0, <1>2, <2>1, <4>1, AppendShape
      <4>3. QED
        BY <1>2, <1>3, <2>1, <2>2, <3>2, <4>2
    <3>3. QED
      BY <3>1, <3>2
  <2>3. QED
    BY <1>1, <2>1, <2>2 DEF WasAccepted
<1>7. ASSUME NEW s \in Sessions, Take(s) PROVE WasAccepted'
  <2>1. /\ UNCHANGED <<inbound, held, published>> /\ queue[s] # <<>>
        /\ queue' = [queue EXCEPT ![s] = Tail(@)]
    BY <1>7 DEF Take, busVars
  <2>2. ASSUME NEW t \in Sessions, NEW i \in 1..Len(queue'[t])
        PROVE  queue'[t][i] <= published[t]
    <3>1. CASE t # s
      BY <1>0, <1>3, <2>1, <2>2, <3>1
    <3>2. CASE t = s
      <4>1. /\ Len(queue'[t]) = Len(queue[t]) - 1 /\ Len(queue[t]) \in Nat
            /\ \A j \in 1..(Len(queue[t]) - 1) : queue'[t][j] = queue[t][j + 1]
        BY <1>0, <2>1, <3>2, TailShape
      <4>2. i + 1 \in 1..Len(queue[t]) /\ queue'[t][i] = queue[t][i + 1]
        BY <4>1, <2>2
      <4>3. QED
        BY <1>3, <4>2
    <3>3. QED
      BY <3>1, <3>2
  <2>3. QED
    BY <1>1, <1>2, <2>1, <2>2 DEF WasAccepted
<1>8. CASE Abandon
  BY <1>1, <1>3, <1>8 DEF Abandon, WasAccepted, busVars
<1>9. CASE CloseQueues
  BY <1>9 DEF CloseQueues, WasAccepted, busVars
<1>10. CASE UNCHANGED <<inbound, held, queue, published>>
  BY <1>10 DEF WasAccepted
<1>11. QED
  BY <1>4, <1>5, <1>6, <1>7, <1>8, <1>9, <1>10, BacklogSteps

\* WasAccepted holds always.
LEMMA AcceptedInvariant == Spec => []WasAccepted
<1>1. Init => WasAccepted
  BY EmptySeq DEF Init, WasAccepted
<1>2. TypeOK /\ WasAccepted /\ [Next]_vars => WasAccepted'
  BY NextAccepted
<1>3. QED
  BY <1>1, <1>2, TypeCorrect, PTL DEF Spec

-----------------------------------------------------------------------------
\* The steps that the mailboxes see, and all the others.
LEMMA VisibleSteps ==
    ASSUME [Next]_vars
    PROVE  \/ \E s \in Sessions : Publish(s) \/ Take(s) \/ Reply(s) \/ DropReply(s)
           \/ Signal
           \/ UNCHANGED <<published, cur, started, ctxDone>>
  BY DEF Next, Work, TurnRetries, TurnEnds, WorkerExits, Dispatch, Receive,
     Enqueue, Abandon, CloseQueues, Consume, Deliver, ConsumerStops, Shutdown,
     CloseInbound, CloseOutbound, WaitReturns, WaitTimesOut, StopComponents,
     vars, busVars, workerVars, shutdownVars

\* A step of the loop is a step of the mailboxes or changes nothing they see.
LEMMA StepRefines ==
    ASSUME TypeOK, GaplessBacklog, CurMatches, WasAccepted, [Next]_vars
    PROVE  [Mailbox!Next]_(Mailbox!vars)
<1> DEFINE Done == [s \in Sessions |-> Finished(s)]
<1>0. /\ published \in [Sessions -> Nat] /\ cur \in [Sessions -> Nat]
      /\ started \in [Sessions -> Nat] /\ queue \in [Sessions -> Seq(Nat)]
  BY DEF TypeOK
<1>1. \A t \in Sessions :
        /\ Finished(t) \in Nat
        /\ (Reply(t) \/ DropReply(t)) =>
             cur[t] = Finished(t) + 1 /\ Finished(t)' = Finished(t) + 1
        /\ ~(Reply(t) \/ DropReply(t)) => Finished(t)' = Finished(t)
  BY FinishedSteps
<1>2. ASSUME NEW s \in Sessions, Publish(s) PROVE Mailbox!Accept(s)
  <2>1. UNCHANGED <<cur, started, ctxDone>>
        /\ published' = [published EXCEPT ![s] = @ + 1]
    BY <1>2 DEF Publish, workerVars
  <2>2. Done' = Done
    BY <2>1 DEF Finished
  <2>3. QED
    BY <2>1, <2>2 DEF Mailbox!Accept
<1>3. ASSUME NEW s \in Sessions, Take(s) PROVE Mailbox!Begin(s)
  <2>1. /\ UNCHANGED <<published, ctxDone>>
        /\ queue[s] # <<>> /\ queue[s] \in Seq(Nat)
    BY <1>0, <1>3 DEF Take, busVars
  <2>2. /\ started' = [started EXCEPT ![s] = started[s] + 1]
        /\ cur' = [cur EXCEPT ![s] = started[s] + 1]
        /\ cur[s] = 0
    BY <1>3, TakeNext DEF CurMatches, Busy
  <2>3. started[s] + 1 <= published[s]
    <3>1. 1 \in 1..Len(queue[s])
      BY <2>1, TailShape
    <3>2. queue[s][1] = started[s] + 1 /\ queue[s][1] <= published[s]
      BY <3>1 DEF WasAccepted, GaplessBacklog, QueueInOrder
    <3>3. QED
      BY <3>2
  <2>4. Done[s] = started[s] /\ Done[s] < published[s]
    BY <1>0, <2>2, <2>3 DEF Finished
  <2>5. ASSUME NEW t \in Sessions PROVE Finished(t)' = Finished(t)
    <3>1. CASE t = s
      <4>1. started'[t] = started[t] + 1 /\ cur'[t] # 0 /\ started[t] \in Nat
            /\ cur[t] = 0
        BY <1>0, <2>2, <3>1
      <4>2. QED
        BY <4>1 DEF Finished
    <3>2. CASE t # s
      <4>1. started'[t] = started[t] /\ cur'[t] = cur[t]
        BY <1>0, <2>2, <3>2
      <4>2. QED
        BY <4>1 DEF Finished
    <3>3. QED
      BY <3>1, <3>2
  <2>6. Done' = Done
    BY <2>5
  <2>7. QED
    BY <2>1, <2>2, <2>4, <2>6 DEF Mailbox!Begin
<1>4. ASSUME NEW s \in Sessions, Reply(s) \/ DropReply(s)
      PROVE  Mailbox!Finish(s)
  <2>1. /\ UNCHANGED <<published, ctxDone, started>>
        /\ cur' = [cur EXCEPT ![s] = 0] /\ cur[s] # 0
    BY <1>4 DEF Reply, DropReply, busVars, CurMatches, Busy
  <2>2. \A t \in Sessions : Finished(t)' = IF t = s THEN cur[s] ELSE Finished(t)
    <3> TAKE t \in Sessions
    <3>1. CASE t = s
      BY <1>1, <1>4, <3>1
    <3>2. CASE t # s
      <4>1. cur'[t] = cur[t] /\ started'[t] = started[t]
        BY <1>0, <2>1, <3>2
      <4>2. QED
        BY <3>2, <4>1 DEF Finished
    <3>3. QED
      BY <3>1, <3>2
  <2>3. Done' = [Done EXCEPT ![s] = cur[s]]
    BY <2>2
  <2>4. QED
    BY <2>1, <2>3 DEF Mailbox!Finish
<1>5. CASE Signal
  <2>1. UNCHANGED <<published, cur, started>> /\ ctxDone' = TRUE
    BY <1>5 DEF Signal, workerVars
  <2>2. Done' = Done
    BY <2>1 DEF Finished
  <2>3. CASE ctxDone
    BY <2>1, <2>2, <2>3 DEF Mailbox!vars
  <2>4. CASE ~ctxDone
    BY <2>1, <2>2, <2>4 DEF Mailbox!Next, Mailbox!Close
  <2>5. QED
    BY <2>3, <2>4
<1>6. CASE UNCHANGED <<published, cur, started, ctxDone>>
  <2>1. Done' = Done
    BY <1>6 DEF Finished
  <2>2. QED
    BY <1>6, <2>1 DEF Mailbox!vars
<1>7. QED
  BY <1>2, <1>3, <1>4, <1>5, <1>6, VisibleSteps DEF Mailbox!Next

\* To a user of a session the loop is a mailbox: its messages are handled one
\* at a time, in order and exactly once, in every phase of the shutdown.
THEOREM LoopIsMailboxes == Spec => Mailbox!Spec
<1>1. Init => Mailbox!Init
  <2> SUFFICES ASSUME Init PROVE Mailbox!Init
    OBVIOUS
  <2>1. [s \in Sessions |-> Finished(s)] = [s \in Sessions |-> 0]
    BY DEF Init, Finished
  <2>2. QED
    BY <2>1 DEF Init, Mailbox!Init
<1>2. TypeOK /\ GaplessBacklog /\ CurMatches /\ WasAccepted /\ [Next]_vars
        => [Mailbox!Next]_(Mailbox!vars)
  BY StepRefines
<1>3. QED
  BY <1>1, <1>2, TypeCorrect, BacklogIsGapless, CurInvariant,
     AcceptedInvariant, PTL DEF Spec, Mailbox!Spec

==============================================================================
