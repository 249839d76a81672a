---------------------------- MODULE FeishuChannel ----------------------------
(***************************************************************************)
(* The channel of internal/channel/feishu.go: events that the server may   *)
(* deliver again and again, the websocket goroutine with Start and Stop,   *)
(* and the consumer that converts a reply to cards, cuts it into chunks    *)
(* and sends them with a fallback from threaded reply to new messages.     *)
(*                                                                         *)
(* The Feishu server is the environment: a request succeeds or fails, and  *)
(* one that fails may have been carried out; the connection ends, events   *)
(* are repeated.  Text is a sequence of words; a card holds ChunkSize of   *)
(* its lines (code: 3000 runes).                                           *)
(***************************************************************************)
EXTENDS Naturals, SequencesExt

CONSTANTS
    Events,         \* [message ids -> event]: see Accepted
    AllowFrom,      \* senders of the configuration's allow_from; "*" admits all
    GroupPolicy,    \* "open" or "mention"
    MaxDeliveries,  \* deliveries of one event
    Outbox,         \* Seq(message): what the outbound channel holds, in order
    ChunkSize,
    MaxStarts,      \* Starts that get past "already started"
    Stoppers        \* goroutines that call Stop once

VARIABLES
    seen,        \* keys of processedMsgs
    handling,    \* [Events' ids -> deliveries past the filters, not yet published]
    published,   \* [Events' ids -> messages accepted by the inbound channel]
    starts,      \* Starts so far; each has a context, a wsDone channel and two goroutines
    stopWS,      \* the start whose cancel function the channel holds, or None
    wsDone,      \* the start whose wsDone channel it holds, or None
    socket,      \* [starts -> [phase, closes]]: the websocket goroutines
    cancelledWS, \* starts whose context is cancelled
    closed,      \* starts whose wsDone channel is closed
    stopper,     \* [Stoppers -> [phase, of]]
    panicked,    \* the process died of a panic
    consumer,    \* [starts -> [phase, msg, next]]: the consumeOutbound goroutines
    taken,       \* messages taken from Outbox
    chat,        \* Seq(<<message, chunk>>): what the chat shows
    sent,        \* [messages -> what Send returned]
    ended        \* the parent context is cancelled

intakeVars == <<seen, handling, published>>
lifeVars == <<starts, stopWS, wsDone, socket, cancelledWS, closed, stopper, panicked>>
sendVars == <<consumer, taken, chat, sent>>
feishuVars == <<intakeVars, lifeVars, sendVars, ended>>

Ids == DOMAIN Events
Starts == 1 .. MaxStarts
Messages == DOMAIN Outbox
None == 0

-----------------------------------------------------------------------------
(* Text                                                                     *)

Line(kind, words) == [kind |-> kind, words |-> words, head |-> <<>>]

\* The rows of a table become one line each, "header: cell", of which the first row gives
\* the headers; a table without a second row leaves nothing.
Items(rows) == [i \in 1 .. Len(rows) - 1 |->
                  [kind |-> "item", words |-> rows[i + 1], head |-> rows[1]]]
Flush(acc) == [lines |-> acc.lines \o (IF acc.rows = <<>> THEN <<>> ELSE Items(acc.rows)),
               rows |-> <<>>]

\* One line of markdown: separators go, rows are collected, empty cells dropped;
\* headings turn bold and quotes italic.
Cells(words) == SelectSeq(words, LAMBDA w : w # "")
Collect(acc, l) ==
    CASE l.kind = "rule" -> acc
      [] l.kind = "row"  -> [acc EXCEPT !.rows = Append(@, Cells(l.words))]
      [] OTHER -> [Flush(acc) EXCEPT !.lines = Append(@,
                     [l EXCEPT !.kind = CASE @ = "heading" -> "bold"
                                          [] @ = "quote"   -> "italic"
                                          [] OTHER         -> @])]

Convert(content) == Flush(FoldLeft(Collect, [lines |-> <<>>, rows |-> <<>>], content)).lines

SplitByRunes(lines) ==
    [i \in 1 .. (Len(lines) + ChunkSize - 1) \div ChunkSize |->
        SubSeq(lines, (i - 1) * ChunkSize + 1,
               IF i * ChunkSize > Len(lines) THEN Len(lines) ELSE i * ChunkSize)]

\* buildCardChunks.  No chunks for empty content; a tool hint is wrapped in a code block.
BuildCardChunks(content) == IF content = <<>> THEN <<>> ELSE SplitByRunes(Convert(content))
Chunks(m) ==
    LET fence == <<Line("text", <<"fence">>)>>
        c == Outbox[m].content
    IN  BuildCardChunks(IF Outbox[m].hint /\ c # <<>> THEN fence \o c \o fence ELSE c)

\* The text of a post is its first locale that has any; an interactive card is its title,
\* its header and the text of its elements, nested ones in order.  Content that is not
\* JSON is taken as it is; other types give a placeholder.
Texts(ev) == FlattenSeq(ev.parts)
Content(ev) ==
    CASE ~ev.json \/ ev.type = "text" -> Texts(ev)
      [] ev.type = "post"             -> IF Texts(ev) = <<>> THEN <<"[post]">> ELSE Texts(ev)
      [] ev.type = "interactive"      -> Texts(ev)
      [] OTHER                        -> <<"[other]">>

Accepted(id) ==
    LET ev == Events[id] IN
    /\ AllowFrom \cap {"*", ev.sender} # {}
    /\ Content(ev) # <<>>
    /\ ev.group => GroupPolicy = "open" \/ "@_user_" \in ToSet(Content(ev))

-----------------------------------------------------------------------------

FeishuTypeOK ==
    /\ seen \subseteq Ids
    /\ handling \in [Ids -> 0 .. MaxDeliveries] /\ published \in [Ids -> 0 .. MaxDeliveries]
    /\ starts \in 0 .. MaxStarts /\ {stopWS, wsDone} \subseteq 0 .. starts
    /\ socket \in [Starts -> [phase : {"none", "starting", "serving", "over"},
                              closes : 0 .. MaxStarts]]
    /\ cancelledWS \subseteq Starts /\ closed \subseteq Starts
    /\ stopper \in [Stoppers -> [phase : {"idle", "waiting", "returned", "gave up"},
                                 of : 0 .. MaxStarts]]
    /\ panicked \in BOOLEAN /\ ended \in BOOLEAN
    /\ consumer \in [Starts -> [phase : {"none", "idle", "reply", "first", "rest", "new",
                                         "over"},
                                msg : 0 .. Len(Outbox), next : Nat]]
    /\ taken \in 0 .. Len(Outbox)
    /\ sent \in [Messages -> {"no", "ok", "error"}]

FeishuInit ==
    /\ seen = {} /\ handling = [e \in Ids |-> 0] /\ published = [e \in Ids |-> 0]
    /\ starts = 0 /\ stopWS = None /\ wsDone = None
    /\ socket = [g \in Starts |-> [phase |-> "none", closes |-> None]]
    /\ cancelledWS = {} /\ closed = {} /\ panicked = FALSE /\ ended = FALSE
    /\ stopper = [k \in Stoppers |-> [phase |-> "idle", of |-> None]]
    /\ consumer = [g \in Starts |-> [phase |-> "none", msg |-> None, next |-> 0]]
    /\ taken = 0 /\ chat = <<>> /\ sent = [m \in Messages |-> "no"]

Serving == \E g \in Starts : socket[g].phase = "serving"

-----------------------------------------------------------------------------
(* Events                                                                   *)

Receive_MarksAccepted(e) ==
    /\ Serving /\ e \notin seen /\ published[e] + handling[e] < MaxDeliveries
    /\ seen' = IF Accepted(e) THEN seen ELSE seen \cup {e}
    /\ handling' = [handling EXCEPT ![e] = IF Accepted(e) THEN @ + 1 ELSE @]
    /\ UNCHANGED <<published, lifeVars, sendVars, ended>>

\* The server delivers the event, for the first time or again.  LoadOrStore marks it
\* before any of the filters.
Receive(e) ==
    /\ Serving /\ e \notin seen
    /\ seen' = seen \cup {e}
    /\ handling' = [handling EXCEPT ![e] = IF Accepted(e) THEN @ + 1 ELSE @]
    /\ UNCHANGED <<published, lifeVars, sendVars, ended>>

\* PublishInbound: accepted, or dropped because the context is done or the channel closed.
PublishEvent(e) ==
    /\ handling[e] > 0
    /\ handling' = [handling EXCEPT ![e] = @ - 1]
    /\ published' \in {published, [published EXCEPT ![e] = @ + 1]}
    /\ UNCHANGED <<seen, lifeVars, sendVars, ended>>

-----------------------------------------------------------------------------
(* Start and Stop                                                           *)

\* Start when it finds no stopWS; otherwise it returns at once.
Start ==
    /\ stopWS = None /\ starts < MaxStarts
    /\ starts' = starts + 1
    /\ stopWS' = starts + 1 /\ wsDone' = starts + 1
    /\ socket' = [socket EXCEPT ![starts + 1].phase = "starting"]
    /\ consumer' = [consumer EXCEPT ![starts + 1].phase = "idle"]
    /\ UNCHANGED <<cancelledWS, closed, stopper, panicked, taken, chat, sent, intakeVars, ended>>

SocketBegins_Closes(g) ==
    /\ socket[g].phase = "starting"
    /\ socket' = [socket EXCEPT ![g] = [phase |-> "serving", closes |-> wsDone]]
    /\ closed' = closed \cup ({wsDone} \ {None})
    /\ UNCHANGED <<starts, stopWS, wsDone, cancelledWS, stopper, panicked,
                   intakeVars, sendVars, ended>>

\* The deferred close evaluates c.wsDone, without the lock, when the goroutine begins.
SocketBegins(g) ==
    /\ socket[g].phase = "starting"
    /\ socket' = [socket EXCEPT ![g] = [phase |-> "serving", closes |-> wsDone]]
    /\ UNCHANGED <<starts, stopWS, wsDone, cancelledWS, closed, stopper, panicked,
                   intakeVars, sendVars, ended>>

\* wsClient.Start returns, with an error or because its context is cancelled.  Closing a
\* nil channel, or one that is closed, panics.
SocketEnds(g) ==
    /\ socket[g].phase = "serving"
    /\ socket' = [socket EXCEPT ![g].phase = "over"]
    /\ panicked' = (socket[g].closes \in closed \cup {None})
    /\ closed' = closed \cup ({socket[g].closes} \ {None})
    /\ UNCHANGED <<starts, stopWS, wsDone, cancelledWS, stopper, intakeVars, sendVars, ended>>

\* Stop takes both fields under the lock and cancels; it has nothing to do without one.
StopBegins(k) ==
    /\ stopper[k].phase = "idle" /\ stopWS # None
    /\ stopper' = [stopper EXCEPT ![k] = [phase |-> "waiting", of |-> wsDone]]
    /\ cancelledWS' = cancelledWS \cup {stopWS}
    /\ stopWS' = None /\ wsDone' = None
    /\ UNCHANGED <<starts, socket, closed, panicked, intakeVars, sendVars, ended>>

StopEnds(k) ==
    /\ stopper[k].phase = "waiting"
    /\ \/ stopper[k].of \in closed /\ stopper' = [stopper EXCEPT ![k].phase = "returned"]
       \/ stopper' = [stopper EXCEPT ![k].phase = "gave up"]
    /\ UNCHANGED <<starts, stopWS, wsDone, socket, cancelledWS, closed, panicked,
                   intakeVars, sendVars, ended>>

-----------------------------------------------------------------------------
(* consumeOutbound and Send                                                 *)

Becomes(g, phase, next) ==
    consumer' = [consumer EXCEPT ![g].phase = phase, ![g].next = next]
SendReturns(g, result) ==
    /\ Becomes(g, "idle", 0)
    /\ sent' = [sent EXCEPT ![consumer[g].msg] = result]
Shown(g, i) == chat' = Append(chat, <<consumer[g].msg, i>>)
Failed(g, i) == UNCHANGED chat \/ Shown(g, i)

\* Messages of other channels, progress messages and empty ones are skipped.
TakeOutbound(g) ==
    LET m == taken + 1 IN
    /\ consumer[g].phase = "idle" /\ taken < Len(Outbox)
    /\ taken' = m
    /\ IF Outbox[m].channel = "feishu" /\ ~Outbox[m].progress /\ Chunks(m) # <<>>
       THEN consumer' = [consumer EXCEPT ![g] =
              [phase |-> IF Outbox[m].replyTo THEN "reply" ELSE "new", msg |-> m, next |-> 1]]
       ELSE UNCHANGED consumer
    /\ UNCHANGED <<chat, sent, intakeVars, lifeVars, ended>>

\* The select of the consumer; with a message waiting it may take that first.
ConsumerReturns(g) ==
    /\ consumer[g].phase = "idle" /\ ended
    /\ consumer' = [consumer EXCEPT ![g].phase = "over"]
    /\ UNCHANGED <<taken, chat, sent, intakeVars, lifeVars, ended>>

\* The first chunk as a threaded reply; if that fails it is created instead.
ReplyFirst(g) ==
    /\ consumer[g].phase = "reply"
    /\ \/ Becomes(g, "first", 1) /\ Failed(g, 1) /\ UNCHANGED sent
       \/ /\ ~ended /\ Shown(g, 1)
          /\ IF Len(Chunks(consumer[g].msg)) = 1 THEN SendReturns(g, "ok")
             ELSE Becomes(g, "rest", 2) /\ UNCHANGED sent
    /\ UNCHANGED <<taken, intakeVars, lifeVars, ended>>

\* replyWithFallback returns what that sendCard returns: nil ends Send.
CreateFirst(g) ==
    /\ consumer[g].phase = "first"
    /\ \/ Becomes(g, "new", 1) /\ Failed(g, 1) /\ UNCHANGED sent
       \/ ~ended /\ Shown(g, 1) /\ SendReturns(g, "ok")
    /\ UNCHANGED <<taken, intakeVars, lifeVars, ended>>

SendNext_Continues(g) ==
    LET i == consumer[g].next IN
    /\ consumer[g].phase \in {"rest", "new"}
    /\ Failed(g, i) \/ (~ended /\ Shown(g, i))
    /\ IF i = Len(Chunks(consumer[g].msg)) THEN SendReturns(g, "ok")
       ELSE Becomes(g, consumer[g].phase, i + 1) /\ UNCHANGED sent
    /\ UNCHANGED <<taken, intakeVars, lifeVars, ended>>

\* sendCard of the next chunk.  An error after the reply makes Send begin again with new
\* messages; an error among those ends it.
SendNext(g) ==
    LET i == consumer[g].next IN
    /\ consumer[g].phase \in {"rest", "new"}
    /\ \/ /\ ~ended /\ Shown(g, i)
          /\ IF i = Len(Chunks(consumer[g].msg)) THEN SendReturns(g, "ok")
             ELSE Becomes(g, consumer[g].phase, i + 1) /\ UNCHANGED sent
       \/ /\ Failed(g, i)
          /\ IF consumer[g].phase = "rest" THEN Becomes(g, "new", 1) /\ UNCHANGED sent
             ELSE SendReturns(g, "error")
    /\ UNCHANGED <<taken, intakeVars, lifeVars, ended>>

\* The shutdown cancels the parent context: of the consumers, and through it of the sockets.
RootEnds ==
    /\ ~ended /\ ended' = TRUE
    /\ cancelledWS' = 1 .. starts
    /\ UNCHANGED <<starts, stopWS, wsDone, socket, closed, stopper, panicked,
                   intakeVars, sendVars>>

FeishuStep ==
    \/ \E e \in Ids : Receive(e) \/ PublishEvent(e)
    \/ Start \/ RootEnds
    \/ \E k \in Stoppers : StopBegins(k) \/ StopEnds(k)
    \/ \E g \in Starts :
          \/ SocketBegins(g) \/ SocketEnds(g)
          \/ TakeOutbound(g) \/ ConsumerReturns(g) \/ ReplyFirst(g) \/ CreateFirst(g) \/ SendNext(g)

FeishuNext == ~panicked /\ FeishuStep
FeishuSpec == FeishuInit /\ [][FeishuNext]_feishuVars

-----------------------------------------------------------------------------
(* Properties                                                               *)

\* However often the server repeats an event, one message is published for it, while other
\* deliveries of it are between filters and publishing (feishu.go:160-200).
PublishedOnce == \A e \in Ids : published[e] + handling[e] <= 1

\* The chunks of a reply follow each other in the chat, each attempt from the first one:
\* no message comes between them and none is skipped, whichever requests fail
\* (feishu.go:465-523).  It needs one consumer, i.e. one Start; the consumer of a
\* stopped channel goes on.
ChunksAreContiguous ==
    \A i \in 1 .. Len(chat) : LET c == chat[i] IN
        c[2] > 1 => i > 1 /\ chat[i - 1] = <<c[1], c[2] - 1>>

\* feishu.go:118: "Stop disconnects the WebSocket and waits for cleanup".  When it returns
\* without an error the goroutine of that start is over, whoever stops at the same time.
StopWaits == \A k \in Stoppers :
    stopper[k].phase = "returned" => socket[stopper[k].of].phase = "over"

\* What the words of the content become: separators and headers apart (a header is
\* repeated with every row, and a table without rows disappears), all of them stay, in
\* order, in the converted lines, and in the chunks cut from them (feishu.go:549-675).
Words(lines) == FlattenSeq([i \in DOMAIN lines |-> lines[i].words])
Headers(c) == {i \in DOMAIN c : c[i].kind = "row" /\
    \A j \in 1 .. i - 1 : c[j].kind = "row" => \E k \in j .. i : c[k].kind \notin {"row", "rule"}}
Kept(c) == FlattenSeq([i \in DOMAIN c |->
    IF c[i].kind = "rule" \/ i \in Headers(c) THEN <<>>
    ELSE IF c[i].kind = "row" THEN Cells(c[i].words) ELSE c[i].words])
KeepsText(c) ==
    LET chunks == BuildCardChunks(c)
    IN  FlattenSeq([i \in DOMAIN chunks |-> Words(chunks[i])]) = Kept(c)

\* A Send that reports success has shown every chunk.
SentIsComplete == \A m \in Messages : sent[m] = "ok" =>
    \A i \in DOMAIN Chunks(m) : \E k \in 1 .. Len(chat) : chat[k] = <<m, i>>

\* The channel does not bring the process down.
NoPanic == ~panicked
=============================================================================
