---------------------------- MODULE InboundLoop ----------------------------
(***************************************************************************)
(* The gateway's message path: the bus with its two bounded Go channels    *)
(* (internal/bus), the dispatcher that hands every inbound message to the  *)
(* worker goroutine of its session (internal/agent/loop.go), the channel   *)
(* goroutine that takes replies off the bus (internal/channel/feishu.go)   *)
(* and the phased shutdown (internal/app/shutdown.go, wired in             *)
(* cmd/nanobot/gateway.go).                                                *)
(*                                                                         *)
(* What a turn computes is left out (module ChatTurns has it): here a turn *)
(* is a state of the worker.  A message is its session and its number in   *)
(* the session, counted as the bus accepts it, so that "the next message   *)
(* of the session" can be said.                                            *)
(***************************************************************************)
EXTENDS Integers, Sequences, FiniteSets

CONSTANTS
    Sessions,       \* session keys (InboundMessage.SessionKey)
    InboundCap,     \* capacity of the inbound channel: 100 in the code
    OutboundCap,    \* capacity of the outbound channel: 100 in the code
    QueueCap,       \* capacity of a session's queue: 32 in the code
    MaxPublished    \* bound of the model: messages accepted per session

ASSUME SessionsFinite == IsFiniteSet(Sessions)
ASSUME CapsPositive == {InboundCap, OutboundCap, QueueCap} \subseteq Nat \ {0}
ASSUME BoundNat == MaxPublished \in Nat

VARIABLES
    inbound,        \* MessageBus.inbound, a sequence of messages
    inboundClosed,
    outbound,       \* MessageBus.outbound, a sequence of replies
    outboundClosed,
    ctxDone,        \* the root context is cancelled
    dispatcher,     \* "running"; "drained": left the range loop, queues
                    \* closed; "abandoned": returned at <-ctx.Done()
    held,           \* <<m>> while the dispatcher sends m to its queue
    queue,          \* queue[s]: numbers of the messages in q.ch
    queueClosed,
    worker,         \* worker[s]: where the goroutine of session s is
    cur,            \* cur[s]: the message processMessage works on, 0 if none
    wg,             \* the WaitGroup's counter
    consumer,       \* the channel's consumeOutbound goroutine
    phase,          \* of StartGracefulShutdown
    waited,         \* how phase 4 ended: "no", "done" or "timeout"
    published,      \* published[s]: messages of s the bus accepted
    started,        \* started[s]: the last message whose turn began
    delivered       \* delivered[s]: the last reply handed to the channel

busVars      == <<inbound, inboundClosed, outbound, outboundClosed, ctxDone>>
loopVars     == <<dispatcher, held, queue, queueClosed, wg>>
workerVars   == <<worker, cur, started>>
shutdownVars == <<phase, waited>>
vars == <<busVars, loopVars, workerVars, consumer, shutdownVars,
          published, delivered>>

Message == [sess : Sessions, seq : Nat]

WorkerStates == {"none", "idle", "turn", "retry", "reply", "exited"}
Phases == {"running", "cancelled", "closing", "waiting", "stopping", "exited"}

Busy(s) == worker[s] \in {"turn", "retry", "reply"}
Live(s) == worker[s] \notin {"none", "exited"}

\* The last message whose processMessage returned.
Finished(s) == IF cur[s] = 0 THEN started[s] ELSE started[s] - 1

TypeOK ==
    /\ inbound \in Seq(Message) /\ Len(inbound) <= InboundCap
    /\ outbound \in Seq(Message) /\ Len(outbound) <= OutboundCap
    /\ inboundClosed \in BOOLEAN /\ outboundClosed \in BOOLEAN
    /\ ctxDone \in BOOLEAN
    /\ dispatcher \in {"running", "drained", "abandoned"}
    /\ held \in Seq(Message) /\ Len(held) <= 1
    /\ queue \in [Sessions -> Seq(Nat)]
    /\ \A s \in Sessions : Len(queue[s]) <= QueueCap
    /\ queueClosed \in [Sessions -> BOOLEAN]
    /\ worker \in [Sessions -> WorkerStates]
    /\ cur \in [Sessions -> Nat]
    /\ wg \in Int
    /\ consumer \in {"running", "stopped"}
    /\ phase \in Phases
    /\ waited \in {"no", "done", "timeout"}
    /\ published \in [Sessions -> Nat]
    /\ started \in [Sessions -> Nat]
    /\ delivered \in [Sessions -> Nat]

Init ==
    /\ inbound = <<>> /\ inboundClosed = FALSE
    /\ outbound = <<>> /\ outboundClosed = FALSE
    /\ ctxDone = FALSE
    /\ dispatcher = "running" /\ held = <<>>
    /\ queue = [s \in Sessions |-> <<>>]
    /\ queueClosed = [s \in Sessions |-> FALSE]
    /\ worker = [s \in Sessions |-> "none"]
    /\ cur = [s \in Sessions |-> 0]
    /\ wg = 0
    /\ consumer = "running"
    /\ phase = "running" /\ waited = "no"
    /\ published = [s \in Sessions |-> 0]
    /\ started = [s \in Sessions |-> 0]
    /\ delivered = [s \in Sessions |-> 0]

-----------------------------------------------------------------------------
(* The bus: publishing an inbound message.                                 *)

Publish_Unbounded(s) ==
    /\ ~inboundClosed
    /\ published[s] < MaxPublished
    /\ inbound' = Append(inbound, [sess |-> s, seq |-> published[s] + 1])
    /\ published' = [published EXCEPT ![s] = @ + 1]
    /\ UNCHANGED <<inboundClosed, outbound, outboundClosed, ctxDone, loopVars,
                   workerVars, consumer, shutdownVars, delivered>>

\* PublishInbound sends when there is room.  A publisher that meets a full
\* channel waits (the action is disabled); one that meets a closed channel or
\* a cancelled context returns and changes nothing (a stuttering step).
Publish(s) ==
    /\ ~inboundClosed
    /\ Len(inbound) < InboundCap
    /\ published[s] < MaxPublished
    /\ inbound' = Append(inbound, [sess |-> s, seq |-> published[s] + 1])
    /\ published' = [published EXCEPT ![s] = @ + 1]
    /\ UNCHANGED <<inboundClosed, outbound, outboundClosed, ctxDone, loopVars,
                   workerVars, consumer, shutdownVars, delivered>>

-----------------------------------------------------------------------------
(* The dispatcher.                                                         *)

Receive_AddAlways ==
    /\ dispatcher = "running" /\ held = <<>>
    /\ inbound # <<>>
    /\ held' = <<Head(inbound)>>
    /\ inbound' = Tail(inbound)
    /\ worker' = [worker EXCEPT ![Head(inbound).sess] =
                    IF @ = "none" THEN "idle" ELSE @]
    /\ wg' = wg + 1
    /\ UNCHANGED <<inboundClosed, outbound, outboundClosed, ctxDone,
                   dispatcher, queue, queueClosed, cur, started, consumer,
                   shutdownVars, published, delivered>>

\* The range loop takes the next message.  The first message of a session
\* creates its queue, counts the worker in the WaitGroup and starts it.  A
\* closed channel is read until it is empty.
Receive ==
    /\ dispatcher = "running" /\ held = <<>>
    /\ inbound # <<>>
    /\ held' = <<Head(inbound)>>
    /\ inbound' = Tail(inbound)
    /\ LET s == Head(inbound).sess IN
         \/ /\ worker[s] = "none"
            /\ worker' = [worker EXCEPT ![s] = "idle"]
            /\ wg' = wg + 1
         \/ /\ worker[s] # "none"
            /\ UNCHANGED <<worker, wg>>
    /\ UNCHANGED <<inboundClosed, outbound, outboundClosed, ctxDone,
                   dispatcher, queue, queueClosed, cur, started, consumer,
                   shutdownVars, published, delivered>>

Enqueue_DropWhenFull ==
    /\ held # <<>>
    /\ LET m == held[1] IN
         queue' = IF Len(queue[m.sess]) < QueueCap
                    THEN [queue EXCEPT ![m.sess] = Append(@, m.seq)]
                    ELSE queue
    /\ held' = <<>>
    /\ UNCHANGED <<busVars, dispatcher, queueClosed, wg, workerVars, consumer,
                   shutdownVars, published, delivered>>

\* q.ch <- msg, which waits while the session's queue is full.
Enqueue ==
    /\ held # <<>>
    /\ LET m == held[1] IN
         /\ Len(queue[m.sess]) < QueueCap
         /\ queue' = [queue EXCEPT ![m.sess] = Append(@, m.seq)]
    /\ held' = <<>>
    /\ UNCHANGED <<busVars, dispatcher, queueClosed, wg, workerVars, consumer,
                   shutdownVars, published, delivered>>

\* <-ctx.Done() wins the select: the loop returns with the message it holds,
\* and the queues stay open.
Abandon ==
    /\ held # <<>>
    /\ ctxDone
    /\ held' = <<>>
    /\ dispatcher' = "abandoned"
    /\ UNCHANGED <<busVars, queue, queueClosed, wg, workerVars, consumer,
                   shutdownVars, published, delivered>>

\* The inbound channel is closed and empty: every session's queue is closed.
CloseQueues ==
    /\ dispatcher = "running" /\ held = <<>>
    /\ inbound = <<>> /\ inboundClosed
    /\ queueClosed' = [s \in Sessions |-> worker[s] # "none"]
    /\ dispatcher' = "drained"
    /\ UNCHANGED <<busVars, held, queue, wg, workerVars, consumer,
                   shutdownVars, published, delivered>>

-----------------------------------------------------------------------------
(* The worker of a session: range q.ch and processMessage.                 *)

\* Take the next message and call ChatStream.
Take(s) ==
    /\ worker[s] = "idle"
    /\ queue[s] # <<>>
    /\ worker' = [worker EXCEPT ![s] = "turn"]
    /\ cur' = [cur EXCEPT ![s] = Head(queue[s])]
    /\ started' = [started EXCEPT ![s] = Head(queue[s])]
    /\ queue' = [queue EXCEPT ![s] = Tail(@)]
    /\ UNCHANGED <<busVars, dispatcher, held, queueClosed, wg, consumer,
                   shutdownVars, published, delivered>>

\* ChatStream failed with a retryable error: sleep, then call it once more.
TurnRetries(s) ==
    /\ worker[s] = "turn"
    /\ worker' = [worker EXCEPT ![s] = "retry"]
    /\ UNCHANGED <<busVars, loopVars, cur, started, consumer, shutdownVars,
                   published, delivered>>

\* The turn is over: an error to report, a text, or an empty stream (which
\* the loop reports as a failure, end of stream included).  Each of the three
\* publishes one message.  The reply is never suppressed (loop.go:123, 132-134):
\* nothing calls SetMessageSent.
TurnEnds(s) ==
    /\ worker[s] \in {"turn", "retry"}
    /\ worker' = [worker EXCEPT ![s] = "reply"]
    /\ UNCHANGED <<busVars, loopVars, cur, started, consumer, shutdownVars,
                   published, delivered>>

Reply_NoReturn(s) ==
    /\ worker[s] = "reply"
    /\ ~outboundClosed
    /\ Len(outbound) < OutboundCap
    /\ outbound' = Append(outbound, [sess |-> s, seq |-> cur[s]])
    /\ \/ /\ worker' = [worker EXCEPT ![s] = "idle"]
          /\ cur' = [cur EXCEPT ![s] = 0]
       \/ UNCHANGED <<worker, cur>>
    /\ UNCHANGED <<inbound, inboundClosed, outboundClosed, ctxDone, loopVars,
                   started, consumer, shutdownVars, published, delivered>>

\* PublishOutbound sends the reply when there is room.
Reply(s) ==
    /\ worker[s] = "reply"
    /\ ~outboundClosed
    /\ Len(outbound) < OutboundCap
    /\ outbound' = Append(outbound, [sess |-> s, seq |-> cur[s]])
    /\ worker' = [worker EXCEPT ![s] = "idle"]
    /\ cur' = [cur EXCEPT ![s] = 0]
    /\ UNCHANGED <<inbound, inboundClosed, outboundClosed, ctxDone, loopVars,
                   started, consumer, shutdownVars, published, delivered>>

DropReply_WhenFull(s) ==
    /\ worker[s] = "reply"
    /\ ctxDone \/ outboundClosed \/ Len(outbound) = OutboundCap
    /\ worker' = [worker EXCEPT ![s] = "idle"]
    /\ cur' = [cur EXCEPT ![s] = 0]
    /\ UNCHANGED <<busVars, loopVars, started, consumer, shutdownVars,
                   published, delivered>>

\* PublishOutbound gives up: the context is done, or the send on the closed
\* channel panicked and was recovered.
DropReply(s) ==
    /\ worker[s] = "reply"
    /\ ctxDone \/ outboundClosed
    /\ worker' = [worker EXCEPT ![s] = "idle"]
    /\ cur' = [cur EXCEPT ![s] = 0]
    /\ UNCHANGED <<busVars, loopVars, started, consumer, shutdownVars,
                   published, delivered>>

WorkerExits_Early(s) ==
    /\ worker[s] = "idle"
    /\ queueClosed[s]
    /\ worker' = [worker EXCEPT ![s] = "exited"]
    /\ wg' = wg - 1
    /\ UNCHANGED <<busVars, dispatcher, held, queue, queueClosed, cur, started,
                   consumer, shutdownVars, published, delivered>>

\* The queue is closed and empty: the worker returns and calls wg.Done.
WorkerExits(s) ==
    /\ worker[s] = "idle"
    /\ queue[s] = <<>> /\ queueClosed[s]
    /\ worker' = [worker EXCEPT ![s] = "exited"]
    /\ wg' = wg - 1
    /\ UNCHANGED <<busVars, dispatcher, held, queue, queueClosed, cur, started,
                   consumer, shutdownVars, published, delivered>>

-----------------------------------------------------------------------------
(* The channel's consumer.                                                 *)

\* consumeOutbound takes the next reply and sends it to the chat service.
Deliver ==
    /\ consumer = "running"
    /\ outbound # <<>>
    /\ delivered' = [delivered EXCEPT ![Head(outbound).sess] =
                       Head(outbound).seq]
    /\ outbound' = Tail(outbound)
    /\ UNCHANGED <<inbound, inboundClosed, outboundClosed, ctxDone, loopVars,
                   workerVars, consumer, shutdownVars, published>>

\* The context is done, or the channel is closed and empty.
ConsumerStops ==
    /\ consumer = "running"
    /\ ctxDone \/ (outboundClosed /\ outbound = <<>>)
    /\ consumer' = "stopped"
    /\ UNCHANGED <<busVars, loopVars, workerVars, shutdownVars, published,
                   delivered>>

-----------------------------------------------------------------------------
(* The shutdown goroutine.                                                 *)

\* The signal arrives: CancelRoot.  (CancelAll cancels contexts derived from
\* the root one, which are done already.)
Signal ==
    /\ phase = "running"
    /\ phase' = "cancelled"
    /\ ctxDone' = TRUE
    /\ UNCHANGED <<inbound, inboundClosed, outbound, outboundClosed, loopVars,
                   workerVars, consumer, waited, published, delivered>>

\* closeMessageBus, first half: the inbound channel.
CloseInbound ==
    /\ phase = "cancelled"
    /\ phase' = "closing"
    /\ inboundClosed' = TRUE
    /\ UNCHANGED <<inbound, outbound, outboundClosed, ctxDone, loopVars,
                   workerVars, consumer, waited, published, delivered>>

\* closeMessageBus, second half: the outbound channel, at once.
CloseOutbound ==
    /\ phase = "closing"
    /\ phase' = "waiting"
    /\ outboundClosed' = TRUE
    /\ UNCHANGED <<inbound, inboundClosed, outbound, ctxDone, loopVars,
                   workerVars, consumer, waited, published, delivered>>

\* WaitGroup.Wait returns.
WaitReturns ==
    /\ phase = "waiting"
    /\ wg = 0
    /\ phase' = "stopping" /\ waited' = "done"
    /\ UNCHANGED <<busVars, loopVars, workerVars, consumer, published,
                   delivered>>

WaitTimesOut_Never == FALSE /\ UNCHANGED vars

\* ShutdownTimeout passes first.
WaitTimesOut ==
    /\ phase = "waiting"
    /\ phase' = "stopping" /\ waited' = "timeout"
    /\ UNCHANGED <<busVars, loopVars, workerVars, consumer, published,
                   delivered>>

\* stopComponents, then the process exits and every goroutine with it.
StopComponents ==
    /\ phase = "stopping"
    /\ phase' = "exited"
    /\ UNCHANGED <<busVars, loopVars, workerVars, consumer, waited, published,
                   delivered>>

-----------------------------------------------------------------------------
Dispatch == Receive \/ Enqueue \/ Abandon \/ CloseQueues

Work(s) ==
    \/ Take(s) \/ TurnRetries(s) \/ TurnEnds(s)
    \/ Reply(s) \/ DropReply(s) \/ WorkerExits(s)

Consume == Deliver \/ ConsumerStops

Shutdown == CloseInbound \/ CloseOutbound \/ WaitReturns \/ WaitTimesOut
            \/ StopComponents

Next ==
    /\ phase # "exited"
    /\ \/ \E s \in Sessions : Publish(s) \/ Work(s)
       \/ Dispatch
       \/ Consume
       \/ Signal
       \/ Shutdown

Spec == Init /\ [][Next]_vars

\* A step of a goroutine of a process that has not exited.
Alive(A) == phase # "exited" /\ A

\* The Go scheduler runs every goroutine that can run; the LLM call of a turn
\* ends; the chat service accepts or refuses a reply.  A channel serves its
\* blocked senders in turn, so a reply that can be sent again and again is
\* sent.  Nothing makes a publisher publish or a signal arrive.
Fairness ==
    /\ WF_vars(Alive(Dispatch))
    /\ \A s \in Sessions : WF_vars(Alive(Work(s))) /\ SF_vars(Alive(Reply(s)))
    /\ WF_vars(Alive(Deliver))
    /\ WF_vars(Alive(Shutdown))

FairSpec == Spec /\ Fairness

-----------------------------------------------------------------------------
(* Safety.                                                                 *)

\* Messages of s that the dispatcher took off the bus.
Dispatched(s) ==
    started[s] + Len(queue[s])
      + (IF held # <<>> /\ held[1].sess = s THEN 1 ELSE 0)

Absent(s, ch) == \A i \in 1..Len(ch) : ch[i].sess # s

\* Along channel ch the messages of session s are lo+1, lo+2, ..., hi, in
\* this order and each once.
Run(ch, s, lo, hi) ==
    /\ Absent(s, ch) => lo = hi
    /\ \A i \in 1..Len(ch) : ch[i].sess = s =>
         /\ (\A j \in 1..(i-1) : ch[j].sess # s) => ch[i].seq = lo + 1
         /\ (\A j \in (i+1)..Len(ch) : ch[j].sess # s) => ch[i].seq = hi
         /\ \A j \in (i+1)..Len(ch) :
              (/\ ch[j].sess = s
               /\ \A k \in (i+1)..(j-1) : ch[k].sess # s)
              => ch[j].seq = ch[i].seq + 1

QueueInOrder ==
    \A s \in Sessions : \A i \in 1..Len(queue[s]) :
      queue[s][i] = started[s] + i

HeldIsNext ==
    held # <<>> =>
      held[1].seq = started[held[1].sess] + Len(queue[held[1].sess]) + 1

InboundInOrder ==
    dispatcher # "abandoned" =>
      \A s \in Sessions : Run(inbound, s, Dispatched(s), published[s])

\* The messages of a session wait in the order in which the bus accepted
\* them, without gap or duplicate: first the session's queue, then the one
\* the dispatcher holds, then the inbound channel.  Only the dispatcher that
\* returns at <-ctx.Done() (loop.go:58-59) loses one.
GaplessBacklog == QueueInOrder /\ HeldIsNext /\ InboundInOrder

\* Until shutdown begins, every message whose turn is over has exactly one
\* reply, and the replies of a session wait in the order of its messages: none
\* is dropped because the outbound channel is full (bus.go:62-72), none is
\* sent twice by processMessage.
OneReplyInOrder ==
    ~ctxDone => \A s \in Sessions :
                  Run(outbound, s, delivered[s], Finished(s))

\* Even while the process shuts down, replies of one session never overtake
\* one another and none is delivered before its turn is over.
RepliesNeverOvertake ==
    \A i \in 1..Len(outbound) :
      LET m == outbound[i] IN
      /\ delivered[m.sess] < m.seq
      /\ m.seq <= Finished(m.sess)
      /\ \A j \in 1..(i-1) : outbound[j].sess = m.sess =>
                               outbound[j].seq < m.seq

\* wg.Wait of the shutdown counts exactly the workers that run: one Add per
\* session however many messages it has, one Done per worker that returns.
WaitGroupCountsWorkers == wg = Cardinality({s \in Sessions : Live(s)})

\* A worker returns only when nothing of its session is left anywhere on the
\* way to it: closing the queues cuts no accepted message off.
ExitedWorkerLeftNothing ==
    \A s \in Sessions : worker[s] = "exited" =>
      /\ queue[s] = <<>> /\ cur[s] = 0
      /\ Absent(s, inbound) /\ Absent(s, held)
      /\ started[s] = published[s]

-----------------------------------------------------------------------------
(* Action and liveness properties.                                         *)

\* A worker begins the message that follows the one it began before: same
\* order as on the bus, no message skipped, none handled twice.
TurnsFollowBusOrder ==
    [][\A s \in Sessions : started'[s] # started[s] =>
         /\ started'[s] = started[s] + 1
         /\ ~Busy(s)]_vars

\* Every accepted message is answered, unless the process is told to stop,
\* however the queues fill up.
EveryMessageAnswered ==
    \A s \in Sessions : \A n \in 1..MaxPublished :
      (published[s] >= n) ~> (delivered[s] >= n \/ ctxDone)

\* Once the signal has arrived the shutdown runs to its end, also when workers
\* hang or were left waiting on open queues.
ShutdownCompletes == ctxDone ~> (phase = "exited")

-----------------------------------------------------------------------------
(* What the documentation says and the code does not do.                   *)

\* docs/message-bus-and-channels.md:93: close inbound, wait for every worker,
\* only then close outbound.
OutboundOutlivesWorkers ==
    outboundClosed => \A s \in Sessions : ~Live(s)

\* loop.go:29: wg.Wait blocks until all workers have finished.
WaitCoversWorkers ==
    waited = "done" => \A s \in Sessions : ~Live(s)

\* loop.go:29 again: once the inbound channel is closed the workers finish and
\* wg.Wait returns.  (Checked for a caller that waits without a timeout.)
WorkersFinish == inboundClosed ~> (\A s \in Sessions : ~Live(s))

-----------------------------------------------------------------------------
(* Refinement: to a user the loop is one mailbox per session.              *)

Mailbox == INSTANCE SessionMailbox WITH
    accepted <- published,
    current  <- cur,
    done     <- [s \in Sessions |-> Finished(s)],
    open     <- ~ctxDone

\* The loop behaves as the mailboxes do: messages of a session are handled one
\* at a time, in order and exactly once, sessions are independent, and while
\* no shutdown has begun every accepted message is handled.
ImplementsMailbox == Mailbox!FairSpec

=============================================================================
