------------------------------ MODULE MCSources ------------------------------
(***************************************************************************)
(* What puts messages on the bus besides the loop's own sessions, and the  *)
(* channels that take them from it: heartbeat, cron, Feishu and websocket. *)
(* They share no state but the bus, which InboundLoop models, so one moves *)
(* in each behaviour while the others stay as they began.                  *)
(***************************************************************************)
EXTENDS Heartbeat, Cron, FeishuChannel, WebSocketChannel

VARIABLE focus   \* the component that moves

allVars == <<focus, hbVars, cronVars, feishuVars, wsVars>>

Init ==
    /\ focus \in {"heartbeat", "cron", "feishu", "websocket"}
    /\ HbInit /\ CronInit /\ FeishuInit /\ WsInit

Next ==
    /\ UNCHANGED focus
    /\ \/ focus = "heartbeat" /\ HbNext     /\ UNCHANGED <<cronVars, feishuVars, wsVars>>
       \/ focus = "cron"      /\ CronNext   /\ UNCHANGED <<hbVars, feishuVars, wsVars>>
       \/ focus = "feishu"    /\ FeishuNext /\ UNCHANGED <<hbVars, cronVars, wsVars>>
       \/ focus = "websocket" /\ WsNext  /\ UNCHANGED <<hbVars, cronVars, feishuVars>>

FairSpec == Init /\ [][Next]_allVars /\ HbFairness
WsFairSpec == Init /\ [][Next]_allVars /\ WsFairness

SourcesTypeOK == HbTypeOK /\ CronTypeOK /\ FeishuTypeOK /\ WsTypeOK

-----------------------------------------------------------------------------
(* Feishu: a message with a mention in a group, one of a sender who is not  *)
(* admitted; a reply with a table, one for another channel, a new message.  *)

Event(s, t, p, g) == [sender |-> s, json |-> TRUE, type |-> t, parts |-> p, group |-> g]
TheEvents == [m1 |-> Event("u", "text", <<<<"@_user_", "hi">>>>, TRUE),
              m2 |-> Event("v", "text", <<<<"a">>>>, FALSE)]

Table == <<Line("heading", <<"h">>), Line("row", <<"h1", "h2">>), Line("rule", <<>>),
           Line("row", <<"a", "">>), Line("row", <<"b", "c">>), Line("quote", <<"q">>)>>
Post(c, content, r) ==
    [channel |-> c, content |-> content, replyTo |-> r, progress |-> FALSE, hint |-> FALSE]
TheOutbox == <<Post("feishu", Table, TRUE), Post("websocket", Table, FALSE),
               Post("feishu", SubSeq(Table, 1, 3) \o SubSeq(Table, 5, 6), FALSE)>>

\* Every content of up to four lines of these; each word of it is kept.
SomeLines == {Line("row", <<"a", "">>), Line("row", <<"b", "c">>), Line("rule", <<>>),
              Line("quote", <<"q">>)}
ASSUME \A c \in BoundedSeq(SomeLines, 4) : KeepsText(c)

-----------------------------------------------------------------------------
(* Websocket: two clients, each with an address of its own or one after the *)
(* other with the same; two replies of theirs and one of another channel.   *)

OwnAddress == [c \in WsClients |-> c]
OneAddress == [c \in WsClients |-> "address"]
WsReplies == <<"websocket", "feishu", "websocket">>
=============================================================================
