------------------------------- MODULE Netconf -------------------------------
(* The conversation of src/example/subsystem_netconf.c: twice a request is   *)
(* put into buf, written by netconf_write, and netconf_read_until fills buf  *)
(* with the answer.  A message is a sequence of parts: its text, the end tag *)
(* and the two halves of "]]>]]>", which reads may separate; "nul" is 0.     *)
EXTENDS Naturals, Sequences

CONSTANTS
    BufLen,   \* parts that fit into buf: a request with its marker does
    ReqLen    \* pieces of a request that a write may take

VARIABLES
    phase,    \* "write", "clear", "read"; how it ended: "ok", "failed", "overrun"
    exchange, \* 1, the hello, or 2, the rpc
    len,      \* what the caller's len holds: "exact", "huge" or "negative"
    wr,       \* pieces written
    request,  \* what the server has got: "none" yet, "whole", or "garbled",
              \* which is cut, repeated or left out
    buf, rd,  \* the buffer, and how much of it has been read into
    net,      \* parts sent by the server and not read yet
    server,   \* "up" or "closed"
    answer    \* what netconf_read_until returned

netconfVars == <<phase, exchange, len, wr, request, buf, rd, net, server, answer>>
serverVars == <<net, server>>

Marker == <<"]]>", "]]>">>
Tag(e) == IF e = 1 THEN "</hello>" ELSE "</rpc-reply>"
Text(e) == IF e = 1 THEN "<hello>" ELSE "<rpc-reply>"
Message(e) == <<Text(e), Tag(e)>> \o Marker \o <<"newline">>
(* One that does not fit into buf.                                           *)
LongReply == <<Text(2)>> \o [i \in 1 .. BufLen |-> "text"] \o <<Tag(2)>> \o Marker

(* snprintf puts the request of exchange e, with the marker, before what     *)
(* buf held.                                                                 *)
Filled(e, b) ==
    LET req == <<IF e = 1 THEN "<hello>" ELSE "<rpc>",
                 IF e = 1 THEN "</hello>" ELSE "</rpc>">> \o Marker
    IN  [i \in 1 .. BufLen |->
            IF i <= Len(req) THEN req[i] ELSE IF i = Len(req) + 1 THEN "nul" ELSE b[i]]

(* "%n" writes an int into len, a long that has not been set: its upper half *)
(* is whatever was on the stack, until the first reply sets it.              *)
NetconfInit ==
    /\ phase = "write" /\ exchange = 1 /\ wr = 0
    /\ len \in {"exact", "huge", "negative"}
    /\ request = "none"
    /\ buf = Filled(1, [i \in 1 .. BufLen |-> "nul"]) /\ rd = 0
    /\ net = Message(1) /\ server = "up"
    /\ answer = <<>>

-----------------------------------------------------------------------------
(* netconf_write.                                                            *)

(* Every write is handed the whole of buf.  One that takes part of it is     *)
(* followed by the start again, and one that takes nothing ends the loop,    *)
(* which is a success.                                                       *)
WriteRequest ==
    /\ phase = "write" /\ len = "exact"
    /\ \E i \in 0 .. ReqLen :
         /\ wr' = wr + i
         /\ request' = IF wr = 0 /\ i = ReqLen /\ request # "garbled"
                       THEN "whole" ELSE "garbled"
         /\ phase' = IF i > 0 /\ wr + i < ReqLen THEN "write" ELSE "clear"
    /\ UNCHANGED <<exchange, len, buf, rd, serverVars, answer>>

(* With a wrong length what lies behind the request is sent too; a negative  *)
(* one ends the loop, a huge one is never reached, and ends with a write     *)
(* that takes nothing.                                                       *)
WriteBeyond ==
    /\ phase = "write" /\ len # "exact"
    /\ request' = "garbled"
    /\ phase' \in {"clear"} \cup {p \in {"write"} : len = "huge"}
    /\ UNCHANGED <<exchange, len, wr, buf, rd, serverVars, answer>>

-----------------------------------------------------------------------------
(* netconf_read_until.                                                       *)

Nothing == [i \in 1 .. BufLen |-> "nul"]

(* memset, before the first read.                                            *)
(* Faulty variant: the request is still there when the answer is read.       *)
ClearNot ==
    /\ phase = "clear"
    /\ rd' = 0
    /\ phase' = "read"
    /\ UNCHANGED <<exchange, len, wr, request, buf, serverVars, answer>>

Clear ==
    /\ phase = "clear"
    /\ buf' = Nothing /\ rd' = 0
    /\ phase' = "read"
    /\ UNCHANGED <<exchange, len, wr, request, serverVars, answer>>

(* strstr sees buf up to a 0.  The marker counts behind the end tag; the     *)
(* answer is what comes before it.                                           *)
First(js) == CHOOSE j \in js : \A k \in js : j <= k
Nuls(b) == {i \in 1 .. BufLen : b[i] = "nul"}
Visible(b) == IF Nuls(b) = {} THEN b ELSE SubSeq(b, 1, First(Nuls(b)) - 1)
MarkersIn(s, tag) ==
    {j \in 1 .. Len(s) - 1 :
        SubSeq(s, j, j + 1) = Marker /\ \E i \in 1 .. j - 1 : s[i] = tag}

(* The function returns; main goes on to the rpc, or has its answer.         *)
Return(b, n) ==
    /\ answer' = SubSeq(b, 1, n)
    /\ wr' = 0 /\ len' = "exact"
    /\ IF exchange = 1
       THEN /\ phase' = "write" /\ exchange' = 2
            /\ buf' = Filled(2, [b EXCEPT ![n + 1] = "nul"])
            /\ request' = IF request = "garbled" THEN request ELSE "none"
       ELSE /\ phase' = "ok" /\ exchange' = 2
            /\ buf' = [b EXCEPT ![n + 1] = "nul"]
            /\ request' = request

(* libssh2_channel_read adds some of what has come.  With the buffer full    *)
(* and nothing found, the search has run past its end.  Of a server that has *)
(* closed, reads return 0 for ever: no step.                                 *)
Read ==
    /\ phase = "read"
    /\ \E n \in 1 .. Len(net) :
         LET b == [i \in 1 .. BufLen |->
                     IF i \in rd + 1 .. rd + n THEN net[i - rd] ELSE buf[i]]
             found == MarkersIn(Visible(b), Tag(exchange))
         IN  /\ n <= BufLen - rd
             /\ net' = SubSeq(net, n + 1, Len(net))
             /\ rd' = rd + n
             /\ \/ found # {} /\ Return(b, First(found) - 1)
                \/ /\ found = {}
                   /\ buf' = b
                   /\ \/ rd + n < BufLen /\ phase' = phase
                      \/ rd + n = BufLen /\ phase' = "failed"
                      \/ /\ rd + n = BufLen /\ Nuls(b) = {}
                         /\ phase' = "overrun"
                   /\ UNCHANGED <<exchange, len, wr, request, answer>>
    /\ server' = server

(* A write or a read fails.                                                  *)
CallFails ==
    /\ phase \in {"write", "read"}
    /\ phase' = "failed"
    /\ UNCHANGED <<exchange, len, wr, request, buf, rd, serverVars, answer>>

NetconfSteps == WriteRequest \/ WriteBeyond \/ Clear \/ Read

(* The server answers an rpc that came whole, and may close at any time.     *)
Replies ==
    /\ server = "up" /\ exchange = 2 /\ request = "whole"
    /\ \E m \in {Message(2), LongReply} : net' = net \o m
    /\ request' = "none"
    /\ UNCHANGED <<phase, exchange, len, wr, buf, rd, server, answer>>

Closes ==
    /\ server = "up" /\ server' = "closed"
    /\ UNCHANGED <<phase, exchange, len, wr, request, buf, rd, net, answer>>

NetconfNext == NetconfSteps \/ CallFails \/ Replies \/ Closes

-----------------------------------------------------------------------------
(* Reads stay within the buffer, and an answer with its 0 fits into it.      *)
NetconfTypeOK ==
    /\ phase \in {"write", "clear", "read", "ok", "failed", "overrun"}
    /\ exchange \in {1, 2} /\ len \in {"exact", "huge", "negative"}
    /\ wr \in 0 .. 2 * ReqLen /\ request \in {"none", "whole", "garbled"}
    /\ Len(buf) = BufLen /\ rd \in 0 .. BufLen
    /\ server \in {"up", "closed"}
    /\ Len(answer) < BufLen

(* However reads cut the stream, through the end tag and the marker too, an  *)
(* answer that is returned is the whole of the message of its exchange with  *)
(* nothing of another, and what is left unread cannot be taken for the next. *)
ReplyWhole ==
    answer # <<>> /\ phase # "failed" =>
        LET e == IF phase = "ok" THEN 2 ELSE 1
            m == <<Text(e), Tag(e)>>
        IN  /\ answer \in {m, <<"newline">> \o m}
            /\ phase = "ok" \/ (exchange = 2 /\ phase = "write") =>
                   net \in {<<>>, <<"newline">>}
=============================================================================
