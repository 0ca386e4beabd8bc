---------------------------- MODULE ExamplesProofs ----------------------------
(* What the echo loop and the NETCONF conversation promise, proved with      *)
(* TLAPS for every amount of data and every size of the buffers and windows. *)
(* The programs around them change none of the variables of the two.  Then   *)
(* the programs: from tables whose steps are sound (Knowledge) to what every *)
(* run of them does, for any number of identities.                           *)
EXTENDS Examples, Knowledge, TLAPS

-----------------------------------------------------------------------------
(* The echo loop.                                                            *)

(* Every byte written is with cat, on its way back, or read.                 *)
Conserved == totread + queue + catIn = totwritten

(* The end of the stream is sent behind the last byte, and cat ends once it  *)
(* has read it.                                                              *)
EndsLast ==
    /\ eof => totwritten = Total
    /\ cat = "done" => eof /\ catIn = 0

(* What poll reported is true until the loop acts on it: a channel reported  *)
(* closed stays so, and one reported closed with nothing to read has nothing *)
(* to read.                                                                  *)
ReportsLast ==
    turn \notin {"poll", "blind"} /\ "closed" \in revents =>
        cat # "up" /\ ("in" \notin revents => queue = 0)

(* A turn in which nothing was done had nothing to read.                     *)
ActsOnReports ==
    /\ turn = "read" => ~act
    /\ turn = "left" => ~act /\ "closed" \in revents
    /\ turn \in {"write", "check", "left"} /\ "in" \in revents => act

EchoInv ==
    /\ E!EchoTypeOK
    /\ Conserved
    /\ EndsLast
    /\ ReportsLast
    /\ ActsOnReports

(* Nothing is written yet.                                                   *)
LEMMA InitEcho == E!EchoInit => EchoInv
<1>1. ASSUME E!EchoInit PROVE E!EchoTypeOK
  <2>1. totwritten \in 0 .. Total /\ totread \in 0 .. totwritten
    BY <1>1, ExamplesAssumption DEF E!EchoInit
  <2>2. catIn \in 0 .. Window /\ queue \in 0 .. Window
    BY <1>1, ExamplesAssumption DEF E!EchoInit
  <2>3. act \in BOOLEAN /\ pollOut \in BOOLEAN /\ eof \in BOOLEAN
    BY <1>1 DEF E!EchoInit
  <2> QED
    BY <1>1, <2>1, <2>2, <2>3 DEF E!EchoInit, E!EchoTypeOK
<1>2. E!EchoInit => Conserved /\ EndsLast /\ ReportsLast /\ ActsOnReports
  BY DEF E!EchoInit, Conserved, EndsLast, ReportsLast, ActsOnReports
<1> QED
  BY <1>1, <1>2 DEF EchoInv

(* The loop, and cat.                                                        *)
LEMMA EchoStepKeeps ==
  ASSUME EchoInv, E!EchoNext
  PROVE  EchoInv'
<1> USE ExamplesAssumption DEF EchoInv, E!EchoTypeOK, Conserved, EndsLast, ReportsLast,
        ActsOnReports, E!remoteVars
<1>1. CASE E!Poll
  <2>1. E!EchoTypeOK'
    BY <1>1 DEF E!Poll, E!If
  <2>2. Conserved' /\ EndsLast'
    BY <1>1 DEF E!Poll, E!If
  <2>3. ReportsLast'
    BY <1>1 DEF E!Poll, E!If
  <2>4. ActsOnReports'
    BY <1>1 DEF E!Poll, E!If
  <2> QED
    BY <2>1, <2>2, <2>3, <2>4
<1>2. CASE E!Read
  BY <1>2 DEF E!Read, E!Lesser
<1>3. CASE E!NoRead
  BY <1>3 DEF E!NoRead
<1>4. CASE E!Write
  BY <1>4 DEF E!Write, E!Lesser
<1>5. CASE E!SendEof \/ E!SendEofLater \/ E!NoWrite
  <2>1. E!EchoTypeOK'
    BY <1>5 DEF E!SendEof, E!SendEofLater, E!NoWrite
  <2>2. Conserved' /\ EndsLast'
    BY <1>5 DEF E!SendEof, E!SendEofLater, E!NoWrite
  <2>3. ReportsLast'
    BY <1>5 DEF E!SendEof, E!SendEofLater, E!NoWrite
  <2>4. ActsOnReports'
    BY <1>5 DEF E!SendEof, E!SendEofLater, E!NoWrite
  <2> QED
    BY <2>1, <2>2, <2>3, <2>4
<1>6. CASE E!CheckClosed \/ E!CallFails
  <2>1. E!EchoTypeOK'
    BY <1>6 DEF E!CheckClosed, E!CallFails
  <2>2. Conserved' /\ EndsLast'
    BY <1>6 DEF E!CheckClosed, E!CallFails
  <2>3. ReportsLast'
    BY <1>6 DEF E!CheckClosed, E!CallFails
  <2>4. ActsOnReports'
    BY <1>6 DEF E!CheckClosed, E!CallFails
  <2> QED
    BY <2>1, <2>2, <2>3, <2>4
<1>7. CASE E!Echoes \/ E!CatEnds \/ E!CatStops
  <2>1. E!EchoTypeOK'
    <3>1. CASE E!Echoes
      BY <1>7, <3>1 DEF E!Echoes
    <3>2. CASE E!CatEnds \/ E!CatStops
      BY <3>2 DEF E!CatEnds, E!CatStops
    <3> QED
      BY <1>7, <3>1, <3>2
  <2>2. Conserved' /\ EndsLast'
    BY <1>7 DEF E!Echoes, E!CatEnds, E!CatStops
  <2>3. ReportsLast'
    BY <1>7 DEF E!Echoes, E!CatEnds, E!CatStops
  <2>4. ActsOnReports'
    BY <1>7 DEF E!Echoes, E!CatEnds, E!CatStops
  <2> QED
    BY <2>1, <2>2, <2>3, <2>4
<1>8. CASE E!PollBlind
  BY <1>8 DEF E!PollBlind
<1> QED
  BY <1>1, <1>2, <1>3, <1>4, <1>5, <1>6, <1>7, <1>8 DEF E!EchoNext, E!EchoLoop

(* The programs around the loop leave its variables alone.                   *)
LEMMA EchoKept == EchoInv /\ [ExamplesNext]_vars => EchoInv'
<1> SUFFICES ASSUME EchoInv, [ExamplesNext]_vars PROVE EchoInv'
  OBVIOUS
<1>1. CASE UNCHANGED echoVars
  BY <1>1 DEF echoVars, EchoInv, E!EchoTypeOK, Conserved, EndsLast, ReportsLast, ActsOnReports
<1>2. CASE E!EchoNext
  BY <1>2, EchoStepKeeps
<1>3. UNCHANGED echoVars \/ E!EchoNext
  BY DEF ExamplesNext, Move, Outline, EchoEnds, NetconfEnds, CompareTotals, Leave,
         EchoStep, NetconfStep, vars
<1> QED
  BY <1>1, <1>2, <1>3

(* The bytes of the echo add up on every way a program can come to its loop. *)
THEOREM EchoInvariant == ExamplesSpec => []EchoInv
<1>1. ExamplesInit => EchoInv
  BY InitEcho DEF ExamplesInit
<1> QED
  BY <1>1, EchoKept, PTL DEF ExamplesSpec

(* The loop of ssh2_echo that is left with a cat that came to its end has    *)
(* had every byte back, whatever is read or written at a time and however    *)
(* the reports of poll age: what the turn after the last read is there for.  *)
THEOREM AllEchoed == ExamplesSpec => []EchoComplete
<1>1. EchoInv => EchoComplete
  BY ExamplesAssumption DEF EchoInv, E!EchoTypeOK, Conserved, EndsLast, ReportsLast, ActsOnReports,
     EchoComplete, E!EchoComplete
<1> QED
  BY <1>1, EchoInvariant, PTL

-----------------------------------------------------------------------------
(* The NETCONF conversation.                                                 *)

(* What the buffer and the stream are made of.                               *)
Parts ==
    {"<hello>", "</hello>", "<rpc>", "</rpc>", "<rpc-reply>", "</rpc-reply>",
     "]]>", "newline", "text", "nul"}

(* What the server has sent of the message the client waits for: the part    *)
(* that has been read, in buf, and the part that has not.                    *)
Heard ==
    IF phase # "read" THEN net
    ELSE [i \in 1 .. rd + Len(net) |-> IF i <= rd THEN buf[i] ELSE net[i - rd]]

(* It can be the newline the last message ended with, or less ...            *)
Bare(s, k) ==
    DOMAIN s = 1 .. k /\ \A i \in 1 .. k : s[i] = "newline"

(* ... the message of exchange e behind that ...                             *)
Whole(s, e, k) ==
    /\ DOMAIN s = 1 .. k + 5
    /\ \A i \in 1 .. k : s[i] = "newline"
    /\ s[k + 1] = N!Text(e) /\ s[k + 2] = N!Tag(e)
    /\ s[k + 3] = "]]>" /\ s[k + 4] = "]]>" /\ s[k + 5] = "newline"

(* ... or an answer whose end tag lies beyond the buffer.                    *)
TooLong(s) ==
    /\ \E m \in Nat : DOMAIN s = 1 .. m /\ m > BufLen
    /\ \A i \in 1 .. BufLen : s[i] \notin {N!Tag(2), "nul"}

(* The server says one thing at a time: hello first, and the answer to the   *)
(* rpc once it has the whole of that, which is after the client wrote it.    *)
InTurn ==
    phase \in {"write", "clear", "read"} =>
        \/ exchange = 1 /\ Whole(Heard, 1, 0)
        \/ exchange = 2 /\ \E k \in {0, 1} :
              \/ Bare(Heard, k)
              \/ /\ request # "whole" /\ phase # "write"
                 /\ Whole(Heard, 2, k) \/ TooLong(Heard)

(* Behind what has been read the buffer is clear.                            *)
ClearBehind == phase = "read" => \A i \in rd + 1 .. BufLen : buf[i] = "nul"

(* The rpc is not whole before it is written, nor after it was answered.     *)
AnsweredOnce ==
    /\ exchange = 2 /\ phase = "write" => request # "whole"
    /\ phase = "ok" => exchange = 2 /\ request # "whole" /\ \E k \in {0, 1} : Bare(net, k)

Answer(e) == {<<N!Text(e), N!Tag(e)>>, <<"newline", N!Text(e), N!Tag(e)>>}

Answers ==
    /\ exchange = 1 => answer = <<>>
    /\ exchange = 2 => answer \in Answer(IF phase = "ok" THEN 2 ELSE 1)

NetconfTypes ==
    /\ phase \in {"write", "clear", "read", "ok", "failed", "overrun"}
    /\ exchange \in {1, 2} /\ len \in {"exact", "huge", "negative"}
    /\ wr \in 0 .. 2 * ReqLen /\ (phase = "write" => wr < ReqLen)
    /\ request \in {"none", "whole", "garbled"}
    /\ buf \in [1 .. BufLen -> Parts] /\ rd \in 0 .. BufLen
    /\ net \in Seq(Parts) /\ server \in {"up", "closed"}
    /\ Len(answer) < BufLen

NetconfInv ==
    /\ NetconfTypes
    /\ InTurn
    /\ ClearBehind
    /\ AnsweredOnce
    /\ Answers
(* What the texts and the tags are.                                          *)
LEMMA TextsDiffer ==
  /\ N!Text(1) = "<hello>" /\ N!Tag(1) = "</hello>"
  /\ N!Text(2) = "<rpc-reply>" /\ N!Tag(2) = "</rpc-reply>"
  BY DEF N!Text, N!Tag

(* The parts by name.                                                        *)
LEMMA AllParts ==
  {"<hello>", "</hello>", "<rpc>", "</rpc>", "<rpc-reply>", "</rpc-reply>",
   "]]>", "newline", "text", "nul"} \subseteq Parts
  BY DEF Parts

(* What two sequences make when they are put together.                       *)
LEMMA Joined ==
  ASSUME NEW s \in Seq(Parts), NEW t \in Seq(Parts)
  PROVE  /\ s \o t \in Seq(Parts) /\ Len(s \o t) = Len(s) + Len(t)
         /\ \A i \in 1 .. Len(s) : (s \o t)[i] = s[i]
         /\ \A i \in 1 .. Len(t) : (s \o t)[Len(s) + i] = t[i]
  OBVIOUS

(* A message, part by part.                                                  *)
LEMMA MessageParts ==
  ASSUME NEW e \in {1, 2}
  PROVE  N!Message(e) \in Seq(Parts) /\ Whole(N!Message(e), e, 0)
<1> DEFINE T == N!Text(e)
           G == N!Tag(e)
           mark == "]]>"
           L == "newline"
<1>1. T \in Parts /\ G \in Parts /\ mark \in Parts /\ L \in Parts
  BY TextsDiffer, AllParts
<1> HIDE DEF T, G, mark, L
<1> DEFINE W == <<T, G>> \o <<mark, mark>>
           K == <<L>>
<1>2. N!Message(e) = W \o K
  BY DEF N!Message, N!Marker, T, G, mark, L
<1>3. W \in Seq(Parts) /\ Len(W) = 4 /\ W[1] = T /\ W[2] = G /\ W[3] = mark /\ W[4] = mark
  BY <1>1
<1>4. K \in Seq(Parts) /\ Len(K) = 1 /\ K[1] = L
  BY <1>1
<1> HIDE DEF W, K
<1>5. /\ W \o K \in Seq(Parts) /\ Len(W \o K) = Len(W) + Len(K)
      /\ \A i \in 1 .. Len(W) : (W \o K)[i] = W[i]
      /\ \A i \in 1 .. Len(K) : (W \o K)[Len(W) + i] = K[i]
  <2>1. W \in Seq(Parts) /\ K \in Seq(Parts)
    BY <1>3, <1>4
  <2> QED
    BY <2>1, Joined
<1> DEFINE M == W \o K
<1> HIDE DEF M
<1>6. M \in Seq(Parts) /\ Len(M) = 5
      /\ M[1] = T /\ M[2] = G /\ M[3] = mark /\ M[4] = mark /\ M[5] = L
  BY <1>3, <1>4, <1>5 DEF M
<1>7. Whole(M, e, 0)
  BY <1>6 DEF Whole, T, G, mark, L
<1> QED
  BY <1>2, <1>6, <1>7 DEF M

(* The long answer fills the buffer before its end tag.                      *)
LEMMA LongReplyParts ==
    /\ N!LongReply \in Seq(Parts) /\ Len(N!LongReply) = BufLen + 4
    /\ \A i \in 1 .. BufLen + 1 : N!LongReply[i] \notin {N!Tag(2), "nul"}
<1> USE ExamplesAssumption
<1> DEFINE t == "text"
           T == N!Text(2)
           G == N!Tag(2)
           mark == "]]>"
           X == [i \in 1 .. BufLen |-> t]
           Y == <<T>> \o X
<1>1. t \in Parts /\ T \in Parts /\ G \in Parts /\ mark \in Parts /\ {t, T} \cap {G, "nul"} = {}
  BY TextsDiffer, AllParts
<1> HIDE DEF t, T, G, mark
<1>2. X \in Seq(Parts) /\ Len(X) = BufLen /\ \A i \in 1 .. BufLen : X[i] = t
  BY <1>1
<1>3. N!LongReply = (Y \o <<G>>) \o <<mark, mark>>
  BY DEF N!LongReply, N!Marker, t, T, G, mark
<1> HIDE DEF X
<1>4. Y \in Seq(Parts) /\ Len(Y) = BufLen + 1
  BY <1>1, <1>2
<1>5. \A i \in 1 .. BufLen + 1 : Y[i] \in {t, T}
  BY <1>1, <1>2
<1> HIDE DEF Y
<1>6. Y \o <<G>> \in Seq(Parts) /\ Len(Y \o <<G>>) = BufLen + 2
      /\ \A i \in 1 .. BufLen + 1 : (Y \o <<G>>)[i] \in {t, T}
  BY <1>1, <1>4, <1>5
<1> DEFINE V == Y \o <<G>>
<1> HIDE DEF V
<1>7. V \in Seq(Parts) /\ Len(V) = BufLen + 2 /\ \A i \in 1 .. BufLen + 1 : V[i] \in {t, T}
  BY <1>6 DEF V
<1>8. V \o <<mark, mark>> \in Seq(Parts) /\ Len(V \o <<mark, mark>>) = BufLen + 4
      /\ \A i \in 1 .. BufLen + 1 : (V \o <<mark, mark>>)[i] \in {t, T}
  BY <1>1, <1>7
<1> QED
  BY <1>1, <1>3, <1>8 DEF V, G

(* The search sees the p parts that have been read, and finds where in them  *)
(* the marker stands behind a tag.                                           *)
Seen(b, p, tag) ==
    {j \in 1 .. p - 1 : b[j] = "]]>" /\ b[j + 1] = "]]>" /\ \E i \in 1 .. j - 1 : b[i] = tag}

LEMMA MarkersSeen ==
  ASSUME NEW b \in [1 .. BufLen -> Parts], NEW p \in 0 .. BufLen, NEW tag,
         \A i \in 1 .. p : b[i] # "nul",
         \A i \in p + 1 .. BufLen : b[i] = "nul"
  PROVE  N!MarkersIn(N!Visible(b), tag) = Seen(b, p, tag)
<1> USE ExamplesAssumption
<1> DEFINE v == N!Visible(b)
<1>1. b \in Seq(Parts) /\ Len(b) = BufLen
  OBVIOUS
<1>2. v \in Seq(Parts) /\ Len(v) = p /\ \A i \in 1 .. p : v[i] = b[i]
  <2>1. CASE p = BufLen
    <3>1. N!Nuls(b) = {}
      BY <2>1 DEF N!Nuls
    <3> QED
      BY <1>1, <2>1, <3>1 DEF N!Visible
  <2>2. CASE p < BufLen
    <3>1. N!Nuls(b) = p + 1 .. BufLen
      BY <2>2 DEF N!Nuls
    <3>1a. \A m \in N!Nuls(b) : m \in Nat
      BY <3>1
    <3>2. p + 1 \in N!Nuls(b) /\ \A k \in N!Nuls(b) : p + 1 <= k
      BY <2>2, <3>1
    <3>3. \A m : (m \in N!Nuls(b) /\ \A k \in N!Nuls(b) : m <= k) => m = p + 1
      BY <2>2, <3>2, <3>1a
    <3>4. N!First(N!Nuls(b)) = p + 1
      BY <3>2, <3>3 DEF N!First
    <3>5. v = SubSeq(b, 1, p)
      BY <3>1, <3>2, <3>4 DEF N!Visible
    <3> QED
      BY <1>1, <2>2, <3>5
  <2> QED
    BY <2>1, <2>2
<1> HIDE DEF v
<1>3. ASSUME NEW j \in 1 .. p - 1
      PROVE  SubSeq(v, j, j + 1) = N!Marker <=> b[j] = "]]>" /\ b[j + 1] = "]]>"
  <2>1. SubSeq(v, j, j + 1) \in Seq(Parts) /\ Len(SubSeq(v, j, j + 1)) = 2
        /\ SubSeq(v, j, j + 1)[1] = b[j] /\ SubSeq(v, j, j + 1)[2] = b[j + 1]
    BY <1>2
  <2> DEFINE w == SubSeq(v, j, j + 1)
  <2> HIDE DEF w
  <2>2. w \in Seq(Parts) /\ Len(w) = 2 => (w = <<"]]>", "]]>">> <=> w[1] = "]]>" /\ w[2] = "]]>")
    OBVIOUS
  <2> QED
    BY <2>1, <2>2 DEF w, N!Marker
<1>4. \A j \in 1 .. p - 1 : \A i \in 1 .. j - 1 : v[i] = b[i]
  BY <1>2
<1> QED
  <2>1. N!MarkersIn(v, tag) = {j \in 1 .. p - 1 :
           SubSeq(v, j, j + 1) = N!Marker /\ \E i \in 1 .. j - 1 : v[i] = tag}
    BY <1>2 DEF N!MarkersIn
  <2>2. \A j \in 1 .. p - 1 :
           (SubSeq(v, j, j + 1) = N!Marker /\ \E i \in 1 .. j - 1 : v[i] = tag)
           <=> (b[j] = "]]>" /\ b[j + 1] = "]]>" /\ \E i \in 1 .. j - 1 : b[i] = tag)
    BY <1>3, <1>4
  <2> QED
    BY <2>1, <2>2, Zenon DEF v, Seen

(* A request fits into the buffer or is cut.                                 *)
LEMMA FilledType ==
  ASSUME NEW e \in {1, 2}, NEW b \in [1 .. BufLen -> Parts]
  PROVE  N!Filled(e, b) \in [1 .. BufLen -> Parts]
<1> DEFINE h == IF e = 1 THEN "<hello>" ELSE "<rpc>"
           g == IF e = 1 THEN "</hello>" ELSE "</rpc>"
           mark == "]]>"
           z == "nul"
           H == <<h, g>>
           req == H \o N!Marker
<1>1. h \in Parts /\ g \in Parts /\ mark \in Parts /\ z \in Parts
  BY AllParts
<1>2. N!Filled(e, b) = [i \in 1 .. BufLen |->
            IF i <= Len(req) THEN req[i] ELSE IF i = Len(req) + 1 THEN z ELSE b[i]]
  BY DEF N!Filled
<1>3. N!Marker \in Seq(Parts)
  <2>1. N!Marker = <<mark, mark>>
    BY DEF N!Marker
  <2> HIDE DEF mark
  <2> QED
    BY <1>1, <2>1
<1> HIDE DEF h, g, z
<1>4. H \in Seq(Parts)
  BY <1>1
<1> HIDE DEF H
<1>5. req \in Seq(Parts)
  BY <1>3, <1>4
<1> HIDE DEF req
<1>6. \A i \in 1 .. BufLen : i <= Len(req) => req[i] \in Parts
  BY <1>5
<1> QED
  BY <1>1, <1>2, <1>6

(* Only hello is on its way.                                                 *)
LEMMA InitNetconf == N!NetconfInit => NetconfInv
<1> USE ExamplesAssumption
<1> SUFFICES ASSUME N!NetconfInit PROVE NetconfInv
  OBVIOUS
<1>1. net \in Seq(Parts) /\ Whole(net, 1, 0)
  BY MessageParts DEF N!NetconfInit
<1>2. buf \in [1 .. BufLen -> Parts]
  <2>1. [i \in 1 .. BufLen |-> "nul"] \in [1 .. BufLen -> Parts]
    BY AllParts
  <2> QED
    BY <2>1, FilledType DEF N!NetconfInit
<1>3. Heard = net
  BY DEF N!NetconfInit, Heard
<1>4. NetconfTypes
  BY <1>1, <1>2 DEF N!NetconfInit, NetconfTypes
<1> QED
  BY <1>1, <1>3, <1>4 DEF N!NetconfInit, NetconfInv, InTurn, ClearBehind, AnsweredOnce, Answers

(* netconf_write leaves what the server has said alone.                      *)
LEMMA WritesKeep ==
  ASSUME NetconfInv, N!WriteRequest \/ N!WriteBeyond
  PROVE  NetconfInv'
<1> USE ExamplesAssumption
<1>1. Heard' = Heard
  BY DEF Heard, N!WriteRequest, N!WriteBeyond, N!serverVars
<1>2. NetconfTypes'
  <2>1. CASE N!WriteRequest
    BY <2>1 DEF NetconfInv, NetconfTypes, N!WriteRequest, N!serverVars
  <2>2. CASE N!WriteBeyond
    BY <2>2 DEF NetconfInv, NetconfTypes, N!WriteBeyond, N!serverVars
  <2> QED
    BY <2>1, <2>2
<1>3. InTurn'
  BY <1>1 DEF NetconfInv, InTurn, N!WriteRequest, N!WriteBeyond
<1>4. AnsweredOnce' /\ Answers' /\ ClearBehind'
  BY DEF NetconfInv, NetconfTypes, AnsweredOnce, Answers, ClearBehind, N!WriteRequest, N!WriteBeyond
<1> QED
  BY <1>2, <1>3, <1>4 DEF NetconfInv

(* The buffer is cleared before anything is read into it.                    *)
LEMMA ClearKeeps ==
  ASSUME NetconfInv, N!Clear
  PROVE  NetconfInv'
<1> USE ExamplesAssumption
<1>1. Heard = net /\ Heard' = [i \in 1 .. Len(net) |-> net[i]] /\ net \in Seq(Parts)
  BY DEF Heard, N!Clear, N!serverVars, NetconfInv, NetconfTypes
<1>2. Heard' = Heard
  BY <1>1
<1>3. NetconfTypes'
  BY AllParts DEF NetconfInv, NetconfTypes, N!Clear, N!Nothing, N!serverVars
<1>4. InTurn'
  BY <1>2 DEF NetconfInv, InTurn, N!Clear
<1>5. AnsweredOnce' /\ Answers' /\ ClearBehind'
  BY DEF NetconfInv, AnsweredOnce, Answers, ClearBehind, N!Clear, N!Nothing
<1> QED
  BY <1>3, <1>4, <1>5 DEF NetconfInv

(* Failures, and a server that closes, say nothing.                          *)
LEMMA OthersKeep ==
  ASSUME NetconfInv, N!CallFails \/ N!Closes
  PROVE  NetconfInv'
<1> USE ExamplesAssumption
<1>1. CASE N!CallFails
  BY <1>1 DEF N!CallFails, N!serverVars, NetconfInv, NetconfTypes, InTurn, ClearBehind, AnsweredOnce, Answers
<1>2. CASE N!Closes
  <2>1. Heard' = Heard
    BY <1>2 DEF N!Closes, Heard
  <2> QED
    BY <1>2, <2>1 DEF N!Closes, NetconfInv, NetconfTypes, InTurn, ClearBehind, AnsweredOnce, Answers
<1> QED
  BY <1>1, <1>2

(* Intervals that start together and are the same end together.              *)
LEMMA SameBound == ASSUME NEW a \in Nat, NEW b \in Nat, 1 .. a = 1 .. b PROVE a = b
<1>1. CASE a < b
  BY <1>1, b \in 1 .. b
<1>2. CASE b < a
  BY <1>2, a \in 1 .. a
<1> QED
  BY <1>1, <1>2

(* The answer comes behind the newline of hello, if that is still there.     *)
LEMMA RepliesKeep ==
  ASSUME NetconfInv, N!Replies
  PROVE  NetconfInv'
<1> USE ExamplesAssumption
<1>1. PICK m \in {N!Message(2), N!LongReply} : net' = net \o m
  BY DEF N!Replies
<1>2. m \in Seq(Parts) /\ net \in Seq(Parts)
  BY <1>1, MessageParts, LongReplyParts DEF NetconfInv, NetconfTypes
<1>3. /\ net' \in Seq(Parts) /\ Len(net') = Len(net) + Len(m)
      /\ \A i \in 1 .. Len(net) : net'[i] = net[i]
      /\ \A i \in 1 .. Len(m) : net'[Len(net) + i] = m[i]
  BY <1>1, <1>2, Joined
<1>4. NetconfTypes'
  BY <1>3 DEF NetconfInv, NetconfTypes, N!Replies
<1>5. ClearBehind' /\ AnsweredOnce' /\ Answers'
  BY DEF NetconfInv, ClearBehind, AnsweredOnce, Answers, N!Replies
<1>6. ASSUME phase \in {"clear", "read"}
      PROVE  \E k \in {0, 1} : Whole(Heard', 2, k) \/ TooLong(Heard')
  <2>1. PICK k \in {0, 1} : Bare(Heard, k)
    BY <1>6 DEF NetconfInv, InTurn, N!Replies
  <2> DEFINE r == IF phase = "read" THEN rd ELSE 0
             h == Heard'
  <2>2. r \in Nat /\ Len(net) \in Nat /\ Len(m) \in Nat
    BY <1>2 DEF NetconfInv, NetconfTypes
  <2>3. DOMAIN Heard = 1 .. r + Len(net) /\ r + Len(net) \in Nat
    BY <1>2, <1>6, <2>2 DEF Heard
  <2>4. r + Len(net) = k
    <3>1. 1 .. r + Len(net) = 1 .. k
      BY <2>1, <2>3 DEF Bare
    <3> QED
      BY <2>3, <3>1, SameBound
  <2>5. DOMAIN h = 1 .. k + Len(m)
    BY <1>2, <1>3, <1>6, <2>2, <2>4 DEF Heard, N!Replies
  <2>5a. \A i \in 1 .. k + Len(m) : h[i] = IF i <= r THEN buf[i] ELSE net'[i - r]
    <3>1. phase' = phase /\ rd' = rd /\ buf' = buf
      BY DEF N!Replies
    <3>2. CASE phase = "clear"
      BY <3>1, <3>2 DEF Heard
    <3>3. CASE phase = "read"
      <4>1. h = [i \in 1 .. rd + Len(net') |-> IF i <= rd THEN buf[i] ELSE net'[i - rd]]
        BY <3>1, <3>3 DEF Heard
      <4>2. rd + Len(net') = k + Len(m)
        BY <1>3, <2>2, <2>4, <3>3
      <4> QED
        BY <3>3, <4>1, <4>2
    <3> QED
      BY <1>6, <3>2, <3>3
  <2>5b. \A i \in 1 .. k : Heard[i] = IF i <= r THEN buf[i] ELSE net[i - r]
    BY <1>2, <1>6, <2>2, <2>4 DEF Heard
  <2> HIDE DEF h, r
  <2>6. \A i \in 1 .. k : h[i] = "newline"
    <3>1. SUFFICES ASSUME NEW i \in 1 .. k PROVE h[i] = Heard[i]
      BY <2>1 DEF Bare
    <3>2. i \in 1 .. k + Len(m)
      BY <2>2
    <3>3. CASE i <= r
      BY <2>5a, <2>5b, <3>2, <3>3
    <3>4. CASE ~(i <= r)
      <4>1. i - r \in 1 .. Len(net)
        BY <2>2, <2>4, <3>4
      <4>2. net'[i - r] = net[i - r]
        BY <1>3, <4>1
      <4> QED
        BY <2>5a, <2>5b, <3>2, <3>4, <4>2
    <3> QED
      BY <3>3, <3>4
  <2>7. \A i \in 1 .. Len(m) : h[k + i] = m[i]
    <3>1. SUFFICES ASSUME NEW i \in 1 .. Len(m) PROVE h[k + i] = m[i]
      OBVIOUS
    <3> DEFINE j == k + i
    <3>2. j \in 1 .. k + Len(m) /\ ~(j <= r) /\ j - r = Len(net) + i
      BY <2>2, <2>4
    <3> HIDE DEF j
    <3>3. h[j] = net'[j - r]
      BY <2>5a, <3>2
    <3>4. h[j] = net'[Len(net) + i]
      BY <3>2, <3>3
    <3> QED
      BY <1>3, <3>4 DEF j
  <2>8. CASE m = N!Message(2)
    <3>1. Len(m) = 5 /\ m[1] = N!Text(2) /\ m[2] = N!Tag(2) /\ m[3] = "]]>" /\ m[4] = "]]>"
          /\ m[5] = "newline"
      <4>1. Whole(m, 2, 0) /\ DOMAIN m = 1 .. Len(m)
        BY <1>2, <2>8, MessageParts
      <4>2. 1 .. Len(m) = 1 .. 5
        BY <4>1 DEF Whole
      <4>3. Len(m) = 5
        BY <2>2, <4>2, SameBound
      <4> QED
        BY <4>1, <4>3 DEF Whole
    <3>2. Whole(h, 2, k)
      BY <2>5, <2>6, <2>7, <3>1 DEF Whole
    <3> QED
      BY <3>2 DEF h
  <2>9. CASE m = N!LongReply
    <3>1. Len(m) = BufLen + 4 /\ \A i \in 1 .. BufLen + 1 : m[i] \notin {N!Tag(2), "nul"}
      BY <2>9, LongReplyParts
    <3>2. \A i \in 1 .. BufLen : h[i] \notin {N!Tag(2), "nul"}
      <4>1. SUFFICES ASSUME NEW i \in 1 .. BufLen PROVE h[i] \notin {N!Tag(2), "nul"}
        OBVIOUS
      <4>2. CASE i \in 1 .. k
        BY <2>6, <4>2, TextsDiffer
      <4>3. CASE i \notin 1 .. k
        <5>1. i - k \in 1 .. BufLen + 1 /\ i - k \in 1 .. Len(m) /\ k + (i - k) = i
          BY <3>1, <4>3
        <5> QED
          BY <2>7, <3>1, <5>1
      <4> QED
        BY <4>2, <4>3
    <3>3. k + Len(m) \in Nat /\ k + Len(m) > BufLen
      BY <3>1
    <3>4. TooLong(h)
      BY <2>5, <3>2, <3>3 DEF TooLong
    <3> QED
      BY <3>4 DEF h
  <2> QED
    BY <2>8, <2>9
<1>7. InTurn'
  <2>1. phase' = phase /\ exchange' = 2 /\ request' = "none" /\ (phase # "write")
    BY DEF N!Replies, NetconfInv, AnsweredOnce
  <2> QED
    BY <1>6, <2>1 DEF InTurn
<1> QED
  BY <1>4, <1>5, <1>7 DEF NetconfInv
(* The newline or nothing, as a sequence.                                    *)
LEMMA BareTail ==
  ASSUME NEW s \in Seq(Parts), NEW k \in {0, 1}, Bare(s, k)
  PROVE  s \in {<<>>, <<"newline">>}
<1>1. Len(s) \in Nat /\ 1 .. Len(s) = 1 .. k
  BY DEF Bare
<1>2. Len(s) = k
  BY <1>1, SameBound
<1> DEFINE L == "newline"
<1>3. \A i \in 1 .. k : s[i] = L
  BY DEF Bare
<1> HIDE DEF L
<1>4. s \in {<<>>, <<L>>}
  BY <1>2, <1>3
<1> QED
  BY <1>4 DEF L

(* The answer that ends before the marker is its message.                    *)
LEMMA AnswerWhole ==
  ASSUME NEW b \in Seq(Parts), NEW k \in {0, 1}, NEW e, k + 2 <= Len(b),
         \A i \in 1 .. k : b[i] = "newline", b[k + 1] = N!Text(e), b[k + 2] = N!Tag(e)
  PROVE  SubSeq(b, 1, k + 2) \in Answer(e) /\ Len(SubSeq(b, 1, k + 2)) = k + 2
<1> DEFINE s == SubSeq(b, 1, k + 2)
           T == N!Text(e)
           G == N!Tag(e)
           L == "newline"
<1>1. s \in Seq(Parts) /\ Len(s) = k + 2 /\ \A i \in 1 .. k + 2 : s[i] = b[i]
  OBVIOUS
<1>2. /\ k = 0 => s[1] = T /\ s[2] = G
      /\ k = 1 => s[1] = L /\ s[2] = T /\ s[3] = G
  BY <1>1
<1> HIDE DEF s, T, G, L
<1>3. CASE k = 0
  <2>1. s = <<T, G>>
    BY <1>1, <1>2, <1>3
  <2> QED
    BY <1>1, <2>1 DEF Answer, s, T, G
<1>4. CASE k = 1
  <2>1. s = <<L, T, G>>
    BY <1>1, <1>2, <1>4
  <2> QED
    BY <1>1, <2>1 DEF Answer, s, T, G, L
<1> QED
  BY <1>3, <1>4

(* A read of n parts that makes the buffer b, with the markers found in it.  *)
ReadAs(n, b, found) ==
    /\ b = [i \in 1 .. BufLen |->
              IF i \in rd + 1 .. rd + n THEN net[i - rd] ELSE buf[i]]
    /\ found = N!MarkersIn(N!Visible(b), N!Tag(exchange))
    /\ phase = "read" /\ server' = server
    /\ n <= BufLen - rd /\ net' = SubSeq(net, n + 1, Len(net)) /\ rd' = rd + n
    /\ \/ found # {} /\ N!Return(b, N!First(found) - 1)
       \/ /\ found = {} /\ buf' = b
          /\ phase' \in {"read", "failed", "overrun"}
          /\ UNCHANGED <<exchange, len, wr, request, answer>>

(* A read: nothing found, and all is as it was heard; or the answer is cut   *)
(* off before the marker, and at most the newline after it is unread.        *)
LEMMA ReadKeeps ==
  ASSUME NetconfInv, N!Read
  PROVE  NetconfInv'
<1> USE ExamplesAssumption
<1>0. PICK n \in 1 .. Len(net) : \E b, found : ReadAs(n, b, found)
  BY Zenon DEF N!Read, ReadAs
<1>1. PICK b, found : ReadAs(n, b, found)
  BY <1>0, Zenon
<1> USE DEF ReadAs
<1> DEFINE p == rd + n
           S == Heard
<1>2. rd \in 0 .. BufLen /\ net \in Seq(Parts) /\ buf \in [1 .. BufLen -> Parts] /\ exchange \in {1, 2}
      /\ Len(net) \in Nat
  BY DEF NetconfInv, NetconfTypes
<1>2a. /\ n \in Nat /\ n >= 1 /\ n <= Len(net) /\ n <= BufLen - rd
       /\ server' = server /\ phase = "read" /\ rd' = rd + n
  BY <1>1, <1>2
<1>3. p \in 1 .. BufLen /\ p \in 1 .. rd + Len(net)
  BY <1>1, <1>2
<1>4. S = [i \in 1 .. rd + Len(net) |-> IF i <= rd THEN buf[i] ELSE net[i - rd]]
  BY <1>1 DEF Heard
<1>5. b \in [1 .. BufLen -> Parts] /\ (\A i \in 1 .. p : b[i] = S[i])
      /\ \A i \in p + 1 .. BufLen : b[i] = "nul"
  <2>1. \A i \in 1 .. BufLen : i \in rd + 1 .. p => net[i - rd] \in Parts
    BY <1>1, <1>2
  <2>2. b \in [1 .. BufLen -> Parts]
    BY <1>1, <1>2, <2>1
  <2>3. \A i \in 1 .. p : b[i] = S[i]
    BY <1>1, <1>2, <1>3, <1>4
  <2>4. \A i \in p + 1 .. BufLen : b[i] = "nul"
    BY <1>1, <1>2, <1>3 DEF NetconfInv, ClearBehind
  <2> QED
    BY <2>2, <2>3, <2>4
<1>6. net' \in Seq(Parts) /\ Len(net') = Len(net) - n /\ rd' = p
      /\ \A i \in 1 .. Len(net) - n : net'[i] = S[p + i]
  <2>1. net' \in Seq(Parts) /\ Len(net') = Len(net) - n
        /\ \A i \in 1 .. Len(net) - n : net'[i] = net[n + i]
    BY <1>1, <1>2
  <2>2. ASSUME NEW i \in 1 .. Len(net) - n PROVE S[p + i] = net[n + i]
    <3> DEFINE j == p + i
    <3>1. j \in 1 .. rd + Len(net) /\ ~(j <= rd) /\ j - rd = n + i
      BY <1>1, <1>2
    <3> HIDE DEF j, S
    <3>2. S[j] = net[j - rd]
      BY <1>4, <3>1
    <3> QED
      BY <3>1, <3>2 DEF j
  <2> QED
    BY <1>1, <2>1, <2>2
<1>7. DOMAIN S = 1 .. rd + Len(net) /\ rd + Len(net) \in Nat
  BY <1>2, <1>4
<1> HIDE DEF S
<1>8. \/ exchange = 2 /\ \E k \in {0, 1} : Bare(S, k)
      \/ exchange = 2 /\ request # "whole" /\ TooLong(S)
      \/ \E k \in {0, 1} : /\ Whole(S, exchange, k) /\ (exchange = 1 => k = 0)
                           /\ exchange = 2 => request # "whole"
  BY <1>1 DEF NetconfInv, InTurn, S
<1>9. \A i \in 1 .. p : b[i] # "nul"
  <2>1. CASE \E k \in {0, 1} : Bare(S, k)
    <3>1. PICK k \in {0, 1} : Bare(S, k)
      BY <2>1
    <3>2. \A i \in 1 .. p : i \in 1 .. k
      BY <1>3, <1>7, <3>1 DEF Bare
    <3> QED
      BY <1>5, <3>1, <3>2 DEF Bare
  <2>2. CASE TooLong(S)
    BY <1>3, <1>5, <2>2 DEF TooLong
  <2>3. CASE \E k \in {0, 1} : Whole(S, exchange, k)
    <3>1. PICK k \in {0, 1} : Whole(S, exchange, k)
      BY <2>3
    <3>2. \A i \in 1 .. p : i \in 1 .. k + 5
      BY <1>3, <1>7, <3>1 DEF Whole
    <3>3. \A i \in 1 .. k + 5 : S[i] # "nul"
      <4>1. \A i \in 1 .. k + 5 : i \in 1 .. k \/ i \in {k + 1, k + 2, k + 3, k + 4, k + 5}
        OBVIOUS
      <4> QED
        BY <1>2, <3>1, <4>1, TextsDiffer DEF Whole
    <3> QED
      BY <1>5, <3>2, <3>3
  <2> QED
    BY <1>8, <2>1, <2>2, <2>3
<1>10. found = {j \in 1 .. p - 1 : b[j] = "]]>" /\ b[j + 1] = "]]>"
                                    /\ \E i \in 1 .. j - 1 : b[i] = N!Tag(exchange)}
  <2>1. p \in 0 .. BufLen
    BY <1>3
  <2> HIDE DEF p
  <2>2. N!MarkersIn(N!Visible(b), N!Tag(exchange)) = Seen(b, p, N!Tag(exchange))
    BY <1>5, <1>9, <2>1, MarkersSeen
  <2> QED
    BY <1>1, <2>2, Zenon DEF Seen, p
<1>11. ASSUME found # {}
       PROVE  \E k \in {0, 1} : /\ Whole(S, exchange, k) /\ (exchange = 2 => request # "whole")
                                /\ p >= k + 4 /\ N!First(found) = k + 3
  <2>1. PICK j \in 1 .. p - 1 : b[j] = "]]>" /\ b[j + 1] = "]]>" /\ \E i \in 1 .. j - 1 : b[i] = N!Tag(exchange)
    BY <1>10, <1>11
  <2>2. CASE \E k \in {0, 1} : Bare(S, k)
    BY <1>3, <1>7, <2>1, <2>2 DEF Bare
  <2>3. CASE exchange = 2 /\ TooLong(S)
    BY <1>3, <1>5, <2>1, <2>3 DEF TooLong
  <2>4. CASE \E k \in {0, 1} : Whole(S, exchange, k) /\ (exchange = 2 => request # "whole")
    <3>1. PICK k \in {0, 1} : Whole(S, exchange, k) /\ (exchange = 2 => request # "whole")
      BY <2>4
    <3>2. \A i \in 1 .. p : i \in 1 .. k + 5 /\ i \in 1 .. rd + Len(net)
      BY <1>3, <1>7, <3>1 DEF Whole
    <3>3. ASSUME NEW i \in 1 .. p - 1, b[i] = "]]>", b[i + 1] = "]]>" PROVE i = k + 3
      <4>1. i \in 1 .. p /\ i + 1 \in 1 .. p
        BY <1>3
      <4>2. S[i] = "]]>" /\ S[i + 1] = "]]>"
        BY <1>5, <3>3, <4>1
      <4>3. i \in 1 .. k + 5 /\ i + 1 \in 1 .. k + 5
        BY <3>2, <4>1
      <4>4. i \in 1 .. k \/ i \in {k + 1, k + 2, k + 3, k + 4}
        BY <4>3
      <4>5. i \notin 1 .. k /\ i # k + 1 /\ i # k + 2
        BY <1>2, <3>1, <4>2, TextsDiffer DEF Whole
      <4>6. i # k + 4
        BY <3>1, <4>2 DEF Whole
      <4> QED
        BY <4>4, <4>5, <4>6
    <3>4. j = k + 3
      BY <2>1, <3>3
    <3>5. \A i \in found : i = k + 3
      BY <1>10, <3>3
    <3>6. k + 3 \in found
      BY <1>10, <2>1, <3>4
    <3>7. N!First(found) = k + 3
      BY <3>5, <3>6 DEF N!First
    <3> QED
      BY <1>3, <2>1, <3>1, <3>4, <3>7
  <2> QED
    BY <1>8, <2>2, <2>3, <2>4
<1>12. CASE found = {}
  <2>1. /\ buf' = b /\ phase' \in {"read", "failed", "overrun"}
        /\ UNCHANGED <<exchange, len, wr, request, answer>>
    BY <1>1, <1>12
  <2>2. NetconfTypes'
    BY <1>1, <1>3, <1>5, <1>6, <2>1 DEF NetconfInv, NetconfTypes
  <2>3. ASSUME phase' = "read" PROVE Heard' = S
    <3> DEFINE h == Heard'
    <3>1. h = [i \in 1 .. p + Len(net') |-> IF i <= p THEN b[i] ELSE net'[i - p]]
      BY <1>6, <2>1, <2>3 DEF Heard
    <3>2. p + Len(net') = rd + Len(net)
      BY <1>2, <1>2a, <1>6
    <3>3. ASSUME NEW i \in 1 .. rd + Len(net) PROVE (IF i <= p THEN b[i] ELSE net'[i - p]) = S[i]
      <4>1. CASE i <= p
        BY <1>5, <4>1
      <4>2. CASE ~(i <= p)
        <5>1. i - p \in 1 .. Len(net) - n /\ p + (i - p) = i
          BY <1>1, <1>2, <1>3, <4>2
        <5>2. net'[i - p] = S[p + (i - p)]
          BY <1>6, <5>1
        <5> QED
          BY <4>2, <5>1, <5>2
      <4> QED
        BY <4>1, <4>2
    <3>4. S = [i \in 1 .. rd + Len(net) |-> S[i]]
      BY <1>4 DEF S
    <3> QED
      BY <3>1, <3>2, <3>3, <3>4
  <2>4. InTurn'
    <3>1. CASE phase' = "read"
      <4>1. Heard' = S
        BY <2>3, <3>1
      <4>2. exchange' = exchange /\ request' = request /\ exchange \in {1, 2}
        BY <1>2, <2>1
      <4> HIDE DEF S
      <4>3. \/ exchange = 1 /\ Whole(S, 1, 0)
            \/ exchange = 2 /\ \E k \in {0, 1} :
                  Bare(S, k) \/ (request # "whole" /\ (Whole(S, 2, k) \/ TooLong(S)))
        BY <1>8, <4>2
      <4> QED
        BY <3>1, <4>1, <4>2, <4>3, Zenon DEF InTurn
    <3> QED
      BY <2>1, <3>1 DEF InTurn
  <2>5. ClearBehind' /\ AnsweredOnce' /\ Answers'
    BY <1>1, <1>5, <1>6, <2>1 DEF NetconfInv, ClearBehind, AnsweredOnce, Answers
  <2> QED
    BY <2>2, <2>4, <2>5 DEF NetconfInv
<1>13. CASE found # {}
  <2>1. PICK k \in {0, 1} : /\ Whole(S, exchange, k) /\ (exchange = 2 => request # "whole")
                           /\ p >= k + 4 /\ N!First(found) = k + 3
    BY <1>11, <1>13
  <2>2. N!Return(b, k + 2)
    BY <1>1, <1>13, <2>1
  <2>3. answer' \in Answer(exchange) /\ Len(answer') = k + 2 /\ k + 4 <= BufLen
    <3>1. b \in Seq(Parts) /\ k + 2 <= Len(b) /\ k + 4 <= BufLen
      BY <1>3, <1>5, <2>1
    <3>2. \A i \in 1 .. k : b[i] = S[i]
      BY <1>3, <1>5, <2>1
    <3>3. b[k + 1] = S[k + 1] /\ b[k + 2] = S[k + 2]
      BY <1>3, <1>5, <2>1
    <3>4. /\ \A i \in 1 .. k : b[i] = "newline"
          /\ b[k + 1] = N!Text(exchange) /\ b[k + 2] = N!Tag(exchange)
      BY <2>1, <3>2, <3>3 DEF Whole
    <3>5. answer' = SubSeq(b, 1, k + 2)
      BY <2>2 DEF N!Return
    <3> QED
      BY <3>1, <3>4, <3>5, AnswerWhole
  <2>4. \E l \in {0, 1} : Bare(net', l)
    <3>1. rd + Len(net) = k + 5
      <4>1. 1 .. rd + Len(net) = 1 .. k + 5
        BY <1>7, <2>1 DEF Whole
      <4> QED
        BY <1>7, <4>1, SameBound
    <3>2. Len(net') = k + 5 - p /\ k + 5 - p \in {0, 1} /\ DOMAIN net' = 1 .. (k + 5 - p)
      <4>1. p = rd + n /\ n \in Nat /\ rd \in Nat /\ Len(net) \in Nat /\ p \in 1 .. rd + Len(net)
        BY <1>2, <1>2a, <1>3
      <4>2. Len(net) - n = k + 5 - p /\ k + 5 - p \in {0, 1}
        BY <2>1, <3>1, <4>1
      <4> QED
        BY <1>6, <4>2
    <3>3. ASSUME NEW i \in 1 .. (k + 5 - p) PROVE net'[i] = "newline"
      <4>1. i \in 1 .. Len(net) - n /\ p + i = k + 5
        BY <1>1, <1>2, <1>3, <2>1, <3>1
      <4>2. net'[i] = S[k + 5]
        BY <1>6, <4>1
      <4> QED
        BY <2>1, <4>2 DEF Whole
    <3> QED
      BY <3>2, <3>3 DEF Bare
  <2>5. [b EXCEPT ![k + 3] = "nul"] \in [1 .. BufLen -> Parts]
    BY <1>5, AllParts
  <2>6. N!Filled(2, [b EXCEPT ![k + 3] = "nul"]) \in [1 .. BufLen -> Parts]
    BY <2>5, FilledType
  <2>7. CASE exchange = 1
    <3>1. /\ phase' = "write" /\ exchange' = 2 /\ wr' = 0 /\ len' = "exact"
          /\ buf' = N!Filled(2, [b EXCEPT ![k + 3] = "nul"])
          /\ request' = IF request = "garbled" THEN request ELSE "none"
      BY <2>2, <2>7 DEF N!Return
    <3>1a. request' \in {"none", "whole", "garbled"} /\ net' \in Seq(Parts) /\ rd' \in 0 .. BufLen
          /\ wr' \in 0 .. 2 * ReqLen /\ wr' < ReqLen /\ Len(answer') < BufLen
      BY <1>3, <1>6, <2>3, <3>1 DEF NetconfInv, NetconfTypes
    <3>2. NetconfTypes'
      BY <1>2a, <2>6, <3>1, <3>1a DEF NetconfInv, NetconfTypes
    <3>3. Heard' = net'
      BY <3>1 DEF Heard
    <3> QED
      BY <2>3, <2>4, <2>7, <3>1, <3>2, <3>3
      DEF NetconfInv, InTurn, ClearBehind, AnsweredOnce, Answers
  <2>8. CASE exchange = 2
    <3>1. /\ phase' = "ok" /\ exchange' = 2 /\ wr' = 0 /\ len' = "exact"
          /\ buf' = [b EXCEPT ![k + 3] = "nul"] /\ request' = request
      BY <2>2, <2>8 DEF N!Return
    <3>2. NetconfTypes'
      BY <1>2a, <1>3, <1>6, <2>3, <2>5, <3>1 DEF NetconfInv, NetconfTypes
    <3> QED
      BY <2>1, <2>3, <2>4, <2>8, <3>1, <3>2
      DEF NetconfInv, InTurn, ClearBehind, AnsweredOnce, Answers
  <2> QED
    BY <1>2, <2>7, <2>8
<1> QED
  BY <1>12, <1>13

(* The programs around the conversation leave its variables alone.           *)
LEMMA NetconfKept == NetconfInv /\ [ExamplesNext]_vars => NetconfInv'
<1> SUFFICES ASSUME NetconfInv, [ExamplesNext]_vars PROVE NetconfInv'
  OBVIOUS
<1>1. CASE UNCHANGED netconfVars
  BY <1>1 DEF netconfVars, NetconfInv, NetconfTypes, InTurn, Heard, ClearBehind, AnsweredOnce, Answers
<1>2. CASE N!NetconfNext
  BY <1>2, WritesKeep, ClearKeeps, ReadKeeps, OthersKeep, RepliesKeep
  DEF N!NetconfNext, N!NetconfSteps
<1>3. UNCHANGED netconfVars \/ N!NetconfNext
  BY DEF ExamplesNext, Move, Outline, EchoEnds, NetconfEnds, CompareTotals, Leave,
         EchoStep, NetconfStep, vars
<1> QED
  BY <1>1, <1>2, <1>3

(* The conversation keeps its order whatever is written, read or lost.       *)
THEOREM NetconfInvariant == ExamplesSpec => []NetconfInv
<1>1. ExamplesInit => NetconfInv
  BY InitNetconf DEF ExamplesInit
<1> QED
  BY <1>1, NetconfKept, PTL DEF ExamplesSpec

(* However reads cut the stream, for every size of the buffer: the answer    *)
(* netconf_read_until returns is the message of its exchange, whole and with *)
(* nothing of another, and no part of a message is left behind it.           *)
THEOREM RepliesAreWhole == ExamplesSpec => []ReplyWhole
<1>1. ASSUME NetconfInv, answer # <<>>, phase # "failed"
      PROVE  LET e == IF phase = "ok" THEN 2 ELSE 1
                 m == <<N!Text(e), N!Tag(e)>>
             IN  /\ answer \in {m, <<"newline">> \o m}
                 /\ phase = "ok" \/ (exchange = 2 /\ phase = "write") =>
                        net \in {<<>>, <<"newline">>}
  <2> DEFINE e == IF phase = "ok" THEN 2 ELSE 1
             T == N!Text(e)
             G == N!Tag(e)
             L == "newline"
  <2>1. answer \in Answer(e)
    BY <1>1 DEF NetconfInv, Answers, NetconfTypes
  <2>2. <<L>> \o <<T, G>> = <<L, T, G>>
    <3>1. L \in Parts /\ T \in Parts /\ G \in Parts
      BY TextsDiffer, AllParts
    <3> DEFINE A == <<L>>
               B == <<T, G>>
    <3> HIDE DEF L, T, G
    <3>2. A \in Seq(Parts) /\ Len(A) = 1 /\ A[1] = L
      BY <3>1
    <3>3. B \in Seq(Parts) /\ Len(B) = 2 /\ B[1] = T /\ B[2] = G
      BY <3>1
    <3> HIDE DEF A, B
    <3>4. /\ A \o B \in Seq(Parts) /\ Len(A \o B) = Len(A) + Len(B)
          /\ \A i \in 1 .. Len(A) : (A \o B)[i] = A[i]
          /\ \A i \in 1 .. Len(B) : (A \o B)[Len(A) + i] = B[i]
      <4>1. A \in Seq(Parts) /\ B \in Seq(Parts)
        BY <3>2, <3>3
      <4> QED
        BY <4>1, Joined
    <3> DEFINE C == A \o B
    <3> HIDE DEF C
    <3>5. C \in Seq(Parts) /\ Len(C) = 3 /\ C[1] = L /\ C[2] = T /\ C[3] = G
      BY <3>2, <3>3, <3>4 DEF C
    <3>6. C = <<L, T, G>>
      BY <3>5
    <3> QED
      BY <3>6 DEF A, B, C
  <2>3. phase = "ok" \/ (exchange = 2 /\ phase = "write") => \E k \in {0, 1} : Bare(net, k)
    BY <1>1 DEF NetconfInv, InTurn, AnsweredOnce, Heard
  <2>4. net \in Seq(Parts)
    BY <1>1 DEF NetconfInv, NetconfTypes
  <2>5. phase = "ok" \/ (exchange = 2 /\ phase = "write") => net \in {<<>>, <<"newline">>}
    BY <2>3, <2>4, BareTail
  <2>6. answer \in {<<T, G>>, <<L>> \o <<T, G>>}
    BY <2>1, <2>2 DEF Answer
  <2> QED
    BY <2>5, <2>6
<1>2. NetconfInv => ReplyWhole
  BY <1>1 DEF ReplyWhole, N!ReplyWhole
<1> QED
  BY <1>2, NetconfInvariant, PTL

(* Reads stay within the buffer and counts within what is sent, for every    *)
(* size of them.                                                             *)
THEOREM LoopsWithinBounds == ExamplesSpec => [](E!EchoTypeOK /\ N!NetconfTypeOK)
<1>1. EchoInv => E!EchoTypeOK
  BY DEF EchoInv
<1>2. NetconfInv => N!NetconfTypeOK
  <2>1. ASSUME buf \in [1 .. BufLen -> Parts] PROVE Len(buf) = BufLen
    BY <2>1, ExamplesAssumption
  <2> QED
    BY <2>1 DEF NetconfInv, NetconfTypes, N!NetconfTypeOK
<1> QED
  BY <1>1, <1>2, EchoInvariant, NetconfInvariant, PTL

-----------------------------------------------------------------------------
(* The programs.                                                             *)

(* What a record of knowledge says is true.                                  *)
Known(k) ==
    /\ k.holds \subseteq held
    /\ held \ Left \subseteq k.may
    /\ "blocking" \in k.facts => blocking
    /\ "in" \in k.facts => authed # "no"
    /\ "untried" \in k.facts => tried = "none"

(* What is of a session is held only with it.                                *)
SessionFirst == held \cap OfSession # {} => "session" \in held

(* What is known is true, at every step of every program.                    *)
KnowsTruth ==
    /\ outcome = "running" => Known(KnownBefore(program)[pc])
    /\ SessionFirst
    /\ outcome = "crash" => <<program, Now.call>> \in KnownCrashes
    /\ LeavesNothing
    /\ RetriesEagain

(* Types, and that what the tables make known is true.                       *)
ProgramsInv == ProgramsTypeOK /\ KnowsTruth

(* The step that runs is in its table, and sound.                            *)
LEMMA Here ==
  ASSUME ProgramsTypeOK
  PROVE  /\ Now = Table[program][pc] /\ Steps = Table[program]
         /\ Len(Steps) \in Nat \ {0} /\ DOMAIN Steps = 1 .. Len(Steps)
         /\ pc \in 1 .. Len(Steps)
         /\ StepSound(program, pc) /\ CallSound(Now.call)
         /\ KnownBefore(program)[1] = AtStart
         /\ KnownBefore(program)[Len(Steps) + 1].may = {}
<1>1. Now = Table[program][pc] /\ Steps = Table[program]
  BY DEF Now, Steps
<1>2. program \in DOMAIN Table /\ pc \in DOMAIN Steps
  BY DEF ProgramsTypeOK
<1>3. TableSound(program)
  BY <1>2, TablesAreSound
<1>4. StepSound(program, pc)
  BY <1>1, <1>2, <1>3 DEF TableSound
<1>5. Now.call \in DOMAIN Api
  BY <1>1, <1>4 DEF StepSound
<1>6. CallSound(Now.call)
  BY <1>5, TablesAreSound
<1> QED
  BY <1>1, <1>2, <1>3, <1>4, <1>6 DEF TableSound, Beyond

(* Less is known, and still true.                                            *)
LEMMA KnowsLess ==
  ASSUME NEW k, NEW l, Implies(k, l), Known(k)'
  PROVE  Known(l)'
BY DEF Implies, Known

(* What a step that succeeds, fails or is skipped makes of what is known.    *)
LEMMA SuccessTrue ==
  ASSUME NEW p, NEW s, NEW k, p = program, Known(k),
         Api[s.call].uses \subseteq held,
         held' = (held \ Api[s.call].drops) \cup Api[s.call].gets,
         Left' = Left,
         s.call = "blocking" \/ (blocking /\ s.call # "nonblocking") => blocking',
         authed # "no" \/ s.call \in {"userauth", "agent_userauth"} => authed' # "no",
         tried = "none" /\ s.among = {} => tried' = "none"
  PROVE  Known(AfterSuccess(p, s, k))'
<1> DEFINE a == AfterSuccess(p, s, k)
<1>1. a.holds \subseteq held'
  BY DEF AfterSuccess, Known
<1>2. held' \ Left' \subseteq a.may
  <2>1. LeftBy(p) \subseteq Left
    BY DEF Left
  <2> QED
    BY <2>1 DEF AfterSuccess, Known
<1>3. "blocking" \in a.facts => blocking'
  BY DEF AfterSuccess, Known
<1>4. "in" \in a.facts => authed' # "no"
  BY DEF AfterSuccess, Known
<1>5. "untried" \in a.facts => tried' = "none"
  BY DEF AfterSuccess, Known
<1> QED
  BY <1>1, <1>2, <1>3, <1>4, <1>5 DEF Known

LEMMA FailureTrue ==
  ASSUME NEW s, NEW k, Known(k),
         Api[s.call].uses \subseteq held, held' = held,
         Left \subseteq Left', Api[s.call].drops \subseteq Left',
         blocking' = blocking, authed # "no" => authed' # "no",
         tried = "none" /\ s.among = {} => tried' = "none"
  PROVE  Known(AfterFailure(s, k))'
<1> DEFINE a == AfterFailure(s, k)
<1>1. a.holds \subseteq held' /\ held' \ Left' \subseteq a.may
  BY DEF AfterFailure, Known
<1>2. "blocking" \in a.facts => blocking'
  BY DEF AfterFailure, Known
<1>3. "in" \in a.facts => authed' # "no"
  BY DEF AfterFailure, Known
<1>4. "untried" \in a.facts => tried' = "none"
  BY DEF AfterFailure, Known
<1> QED
  BY <1>1, <1>2, <1>3, <1>4 DEF Known

LEMMA SkipTrue ==
  ASSUME NEW s, NEW k, Known(k), SessionFirst, s.guard \notin held,
         held' = held, Left' = Left, blocking' = blocking, tried' = tried,
         authed' = IF s.guard = "password" THEN "skipped" ELSE authed
  PROVE  Known(AfterSkip(s, k))'
<1> DEFINE a == AfterSkip(s, k)
<1>1. a.holds \subseteq held' /\ held' \ Left' \subseteq a.may
  <2>1. CASE s.guard = "session"
    BY <2>1 DEF AfterSkip, Known, SessionFirst
  <2>2. CASE s.guard # "session"
    BY <2>2 DEF AfterSkip, Known
  <2> QED
    BY <2>1, <2>2
<1>2. "blocking" \in a.facts => blocking'
  BY DEF AfterSkip, Known
<1>3. "in" \in a.facts => authed' # "no"
  BY DEF AfterSkip, Known
<1>4. "untried" \in a.facts => tried' = "none"
  BY DEF AfterSkip, Known
<1> QED
  BY <1>1, <1>2, <1>3, <1>4 DEF Known

(* Control gets to the target of a way, and what the way makes known is      *)
(* known there.                                                              *)
LEMMA Arrives ==
  ASSUME ProgramsTypeOK, outcome = "running", program' = program,
         NEW t, NEW k, Go(t), Known(k)',
         [to |-> Target(program, pc, t), known |-> k]
            \in Ways(program, pc, KnownBefore(program)[pc]),
         t \in {"on", "done", "return", "crash"}
            \/ \E j \in DOMAIN Steps : Steps[j].label = t,
         t = "crash" => <<program, Now.call>> \in KnownCrashes
  PROVE  /\ pc' \in DOMAIN Steps' /\ outcome' \in {"running", "done", "returned", "crash"}
         /\ outcome' = "running" => Known(KnownBefore(program)[pc])'
         /\ outcome' = "crash" => <<program, Now.call>>' \in KnownCrashes
         /\ LeavesNothing'
<1> DEFINE to == Target(program, pc, t)
<1>1. Steps' = Steps
  BY DEF Steps
<1>2. PICK j : j = to
  OBVIOUS
<1>3. PICK l : l = KnownBefore(program)[to]
  OBVIOUS
<1>4. j # 0 => j \in pc + 1 .. Len(Steps) + 1 /\ Implies(k, l)
  <2> DEFINE w == [to |-> to, known |-> k]
  <2>1. w.to # 0 => w.to \in pc + 1 .. Beyond(program)
                    /\ Implies(w.known, KnownBefore(program)[w.to])
    BY Here DEF StepSound
  <2> QED
    BY <2>1, <1>2, <1>3, Here DEF Beyond
<1>5. j # 0 => Known(l)'
  BY <1>4, KnowsLess
<1>6. pc' = j => l = KnownBefore(program)[pc]'
  BY <1>2, <1>3
<1>7. CASE j = Len(Steps) + 1 /\ outcome' = "done" /\ pc' = pc
  <2>1. l.may = {} /\ j # 0
    BY <1>2, <1>3, <1>7, Here
  <2> QED
    BY <2>1, <1>1, <1>5, <1>7, Here DEF Known, LeavesNothing
<1>8. CASE j \in DOMAIN Steps /\ outcome' = "running" /\ pc' = j
  <2>1. j # 0
    BY <1>8, Here
  <2>2. Known(KnownBefore(program)[pc])'
    <3>1. Known(l)'
      BY <2>1, <1>5
    <3> QED
      BY <3>1, <1>6, <1>8 DEF Known
  <2> QED
    BY <2>2, <1>1, <1>8 DEF LeavesNothing
<1>9. CASE outcome' \in {"returned", "crash"} /\ pc' = pc
  <2>1. outcome' = "crash" => t = "crash"
    BY <1>9 DEF Go
  <2>2. Now' = Now
    BY <1>1, <1>9 DEF Now
  <2> QED
    BY <2>1, <2>2, <1>1, <1>9, Here DEF LeavesNothing
<1>10. CASE t = "on" \/ t = "done"
  <2>1. j = IF t = "on" THEN pc + 1 ELSE Len(Steps) + 1
    BY <1>2, <1>10, Here DEF Target, Beyond
  <2>2. CASE t = "on" /\ pc # Len(Steps)
    BY <2>1, <2>2, <1>8, Here DEF Go
  <2>3. CASE t = "done" \/ pc = Len(Steps)
    BY <2>1, <2>3, <1>7, <1>10, Here DEF Go
  <2> QED
    BY <2>2, <2>3, <1>10
<1>11. CASE t = "return" \/ t = "crash"
  BY <1>9, <1>11 DEF Go
<1>12. CASE t \notin {"on", "done", "return", "crash"}
  <2>1. j = CHOOSE i \in DOMAIN Steps : Steps[i].label = t
    BY <1>2, <1>12, Here DEF Target
  <2>2. j \in DOMAIN Steps
    BY <1>12, <2>1
  <2>3. pc' = j /\ outcome' = "running"
    BY <1>12, <2>1 DEF Go
  <2> QED
    BY <2>2, <2>3, <1>8
<1> QED
  BY <1>10, <1>11, <1>12

(* What every step that runs has to re-establish.                            *)
Control ==
    /\ pc \in DOMAIN Steps /\ outcome \in {"running", "done", "returned", "crash"}
    /\ KnowsTruth

(* A call that succeeds.                                                     *)
LEMMA Succeeds ==
  ASSUME ProgramsInv, Ready, Go(Now.next),
         program' = program, abandoned' = abandoned,
         held' = (held \ Api[Now.call].drops) \cup Api[Now.call].gets,
         Now.call = "blocking" \/ (blocking /\ Now.call # "nonblocking") => blocking',
         authed # "no" \/ Now.call \in {"userauth", "agent_userauth"} => authed' # "no",
         tried = "none" /\ Now.among = {} => tried' = "none"
  PROVE  Control'
<1>1. outcome = "running" /\ Api[Now.call].uses \subseteq held
  BY DEF Ready, Due
<1>2. Known(KnownBefore(program)[pc]) /\ SessionFirst /\ RetriesEagain /\ ProgramsTypeOK
  BY <1>1 DEF ProgramsInv, KnowsTruth
<1>3. PICK p, s, k : p = program /\ s = Now /\ k = KnownBefore(program)[pc]
  OBVIOUS
<1>4. Left' = Left
  BY DEF Left
<1>5. Known(AfterSuccess(p, s, k))'
  <2>1. Known(k)
    BY <1>2, <1>3
  <2> QED
    BY <2>1, <1>1, <1>3, <1>4, SuccessTrue
<1>6. PICK a : a = AfterSuccess(p, s, k)
  OBVIOUS
<1>7. Known(a)'
  BY <1>5, <1>6
<1>8. [to |-> Target(program, pc, Now.next), known |-> a]
         \in Ways(program, pc, KnownBefore(program)[pc])
  BY <1>2, <1>3, <1>6, Here DEF Ways
<1>9. PICK t : t = Now.next
  OBVIOUS
<1>10. t \in {"on", "done", "return"}
  BY <1>2, <1>9, Here DEF StepSound
<1>11. SessionFirst'
  BY <1>1, <1>2, Here DEF SessionFirst, CallSound
<1>12. RetriesEagain'
  BY <1>2 DEF RetriesEagain
<1>13. /\ pc' \in DOMAIN Steps' /\ outcome' \in {"running", "done", "returned", "crash"}
       /\ outcome' = "running" => Known(KnownBefore(program)[pc])'
       /\ outcome' = "crash" => <<program, Now.call>>' \in KnownCrashes
       /\ LeavesNothing'
  BY <1>1, <1>2, <1>7, <1>8, <1>9, <1>10, Arrives
<1> QED
  BY <1>11, <1>12, <1>13 DEF Control, KnowsTruth

(* A call that fails, or returns EAGAIN and is not repeated.                 *)
LEMMA Fails ==
  ASSUME ProgramsInv, Ready, Go(Now.fail), CanFail(Now),
         program' = program, held' = held, blocking' = blocking,
         \/ abandoned' = abandoned /\ Api[Now.call].drops = {}
         \/ /\ abandoned' = abandoned \cup {Now.call}
            /\ Now.call \in Remote /\ ~blocking /\ ~Now.again,
         authed # "no" => authed' # "no",
         tried = "none" /\ Now.among = {} => tried' = "none"
  PROVE  Control'
<1>1. outcome = "running" /\ Api[Now.call].uses \subseteq held
  BY DEF Ready, Due
<1>2. Known(KnownBefore(program)[pc]) /\ SessionFirst /\ RetriesEagain /\ ProgramsTypeOK
  BY <1>1 DEF ProgramsInv, KnowsTruth
<1>3. PICK s, k : s = Now /\ k = KnownBefore(program)[pc]
  OBVIOUS
<1>4. Left \subseteq Left' /\ Api[s.call].drops \subseteq Left'
  BY <1>3 DEF Left
<1>5. Known(AfterFailure(s, k))'
  <2>1. Known(k)
    BY <1>2, <1>3
  <2> QED
    BY <2>1, <1>1, <1>3, <1>4, FailureTrue
<1>6. PICK a : a = AfterFailure(s, k)
  OBVIOUS
<1>7. Known(a)'
  BY <1>5, <1>6
<1>8. [to |-> Target(program, pc, Now.fail), known |-> a]
         \in Ways(program, pc, KnownBefore(program)[pc])
  BY <1>2, <1>3, <1>6, Here DEF Ways
<1>9. PICK t : t = Now.fail
  OBVIOUS
<1>10. /\ t \in {"on", "done", "return", "crash"}
             \/ \E j \in DOMAIN Steps : Steps[j].label = t
       /\ t = "crash" => <<program, Now.call>> \in KnownCrashes
  BY <1>2, <1>9, Here DEF StepSound, FindsAll
<1>11. SessionFirst'
  BY <1>2 DEF SessionFirst
<1>12. RetriesEagain'
  <2>1. CASE abandoned' = abandoned
    BY <2>1, <1>2 DEF RetriesEagain
  <2>2. CASE abandoned' = abandoned \cup {Now.call} /\ Now.call \in Remote
             /\ ~blocking /\ ~Now.again
    <3>1. Repeats(program, Now, KnownBefore(program)[pc])
      BY <1>2, Here DEF StepSound
    <3>2. \/ Api[Now.call].drops # {} \/ Now.call = "disconnect"
          \/ Now.call = "sftp_open" /\ program = "sftp_RW_nonblock"
      BY <3>1, <2>2, <1>2 DEF Repeats, Known
    <3> QED
      BY <3>2, <2>2, <1>2 DEF RetriesEagain
  <2> QED
    BY <2>1, <2>2
<1>13. /\ pc' \in DOMAIN Steps' /\ outcome' \in {"running", "done", "returned", "crash"}
       /\ outcome' = "running" => Known(KnownBefore(program)[pc])'
       /\ outcome' = "crash" => <<program, Now.call>>' \in KnownCrashes
       /\ LeavesNothing'
  BY <1>1, <1>2, <1>7, <1>8, <1>9, <1>10, Arrives
<1> QED
  BY <1>11, <1>12, <1>13 DEF Control, KnowsTruth

(* The rest of the types.                                                    *)
LEMMA Keeps ==
  ASSUME ProgramsInv, Control', program' = program, held' \subseteq Resources,
         blocking' \in BOOLEAN, authed' \in {"no", "yes", "skipped"},
         offered' \subseteq Methods, {option', tried'} \subseteq Methods \cup {"none"},
         identities' \in 0 .. MaxIdentities, abandoned' \subseteq Remote
  PROVE  ProgramsInv'
BY DEF ProgramsInv, ProgramsTypeOK, Control

(* The test around a call fails.                                             *)
LEMMA SkipKeeps == ProgramsInv /\ Skip => ProgramsInv'
<1> SUFFICES ASSUME ProgramsInv, Skip PROVE ProgramsInv'
  OBVIOUS
<1>1. Known(KnownBefore(program)[pc]) /\ SessionFirst /\ RetriesEagain /\ ProgramsTypeOK
  BY DEF ProgramsInv, KnowsTruth, Skip
<1>2. PICK s, k : s = Now /\ k = KnownBefore(program)[pc]
  OBVIOUS
<1>3. Known(AfterSkip(s, k))'
  <2>1. Left' = Left
    BY DEF Skip, Left
  <2>2. Known(k) /\ s.guard \notin held
    BY <1>1, <1>2 DEF Skip
  <2> QED
    BY <2>1, <2>2, <1>1, <1>2, SkipTrue DEF Skip
<1>4. PICK a : a = AfterSkip(s, k)
  OBVIOUS
<1>5. [to |-> Target(program, pc, "on"), known |-> a]
         \in Ways(program, pc, KnownBefore(program)[pc])
  BY <1>1, <1>2, <1>4, Here DEF Ways, Target, Skip
<1>6. /\ pc' \in DOMAIN Steps' /\ outcome' \in {"running", "done", "returned", "crash"}
      /\ outcome' = "running" => Known(KnownBefore(program)[pc])'
      /\ outcome' = "crash" => <<program, Now.call>>' \in KnownCrashes
      /\ LeavesNothing'
  <2>1. Known(a)'
    BY <1>3, <1>4
  <2> QED
    BY <2>1, <1>1, <1>5, Arrives DEF Skip
<1>7. SessionFirst' /\ RetriesEagain'
  BY <1>1 DEF Skip, SessionFirst, RetriesEagain
<1>8. Control'
  BY <1>6, <1>7 DEF Control, KnowsTruth
<1> QED
  BY <1>1, <1>8, Keeps DEF Skip, ProgramsTypeOK

(* A step that finds less than it uses is one of those known to crash.       *)
LEMMA CrashKeeps == ProgramsInv /\ Crash => ProgramsInv'
<1> SUFFICES ASSUME ProgramsInv, Crash PROVE ProgramsInv'
  OBVIOUS
<1>1. Known(KnownBefore(program)[pc]) /\ SessionFirst /\ RetriesEagain /\ ProgramsTypeOK
  BY DEF ProgramsInv, KnowsTruth, Crash, Due
<1>2. FindsAll(program, Now, KnownBefore(program)[pc])
  BY <1>1, Here DEF StepSound
<1>3. <<program, Now.call>> \in KnownCrashes
  <2>1. Now.guard \in held \cup {"", "password"} /\ ~(Api[Now.call].uses \subseteq held)
    BY DEF Crash, Ready, Due
  <2>2. KnownBefore(program)[pc].holds \subseteq held
    BY <1>1 DEF Known
  <2> QED
    BY <2>1, <2>2, <1>2 DEF FindsAll
<1>4. outcome' = "crash" /\ pc' = pc /\ program' = program
  BY DEF Crash, Go
<1>5. Steps' = Steps /\ Now' = Now
  BY <1>4 DEF Steps, Now
<1>6. SessionFirst' /\ RetriesEagain' /\ LeavesNothing'
  BY <1>1, <1>4 DEF Crash, SessionFirst, RetriesEagain, LeavesNothing
<1>7. Control'
  BY <1>1, <1>3, <1>4, <1>5, <1>6 DEF Control, KnowsTruth, ProgramsTypeOK
<1> QED
  BY <1>1, <1>7, Keeps DEF Crash, ProgramsTypeOK, authVars

(* What a call gets is among what calls get.                                 *)
LEMMA SucceedKeeps == ProgramsInv /\ Succeed => ProgramsInv'
<1> SUFFICES ASSUME ProgramsInv, Succeed PROVE ProgramsInv'
  OBVIOUS
<1>1. ProgramsTypeOK
  BY DEF ProgramsInv
<1>2. Control'
  BY Succeeds DEF Succeed, Listing
<1>3. held' \subseteq Resources
  <2>1. Now.call \in DOMAIN Api
    BY <1>1, Here DEF StepSound
  <2>2. Api[Now.call].gets \subseteq Resources
    BY <2>1 DEF Resources
  <2> QED
    BY <1>1, <2>2 DEF Succeed, ProgramsTypeOK
<1> QED
  BY <1>1, <1>2, <1>3, Keeps DEF Succeed, ProgramsTypeOK

(* A failure, and an EAGAIN taken for one, lead where the table says.        *)
LEMMA FailKeeps == ProgramsInv /\ Fail => ProgramsInv'
<1> SUFFICES ASSUME ProgramsInv, Fail PROVE ProgramsInv'
  OBVIOUS
<1>1. Control'
  BY Fails DEF Fail, CanFail, authVars
<1> QED
  BY <1>1, Keeps DEF Fail, ProgramsInv, ProgramsTypeOK, authVars

LEMMA GiveUpKeeps == ProgramsInv /\ GiveUp => ProgramsInv'
<1> SUFFICES ASSUME ProgramsInv, GiveUp PROVE ProgramsInv'
  OBVIOUS
<1>1. Control'
  BY Fails DEF GiveUp, CanFail, authVars, Remote, Sure
<1> QED
  BY <1>1, Keeps DEF GiveUp, ProgramsInv, ProgramsTypeOK, authVars

(* A step that lists or chooses holds what it held, and may fail.            *)
LEMMA HoldsOn ==
  ASSUME ProgramsTypeOK, Now.call \in Loops \cup Listing \/ Now.among # {}
  PROVE  /\ Api[Now.call].gets = {} /\ Api[Now.call].drops = {} /\ CanFail(Now)
         /\ Now.call \in Loops \cup Listing => Now.next = "on"
BY Here DEF StepSound, KeepsHeld, CanFail

(* The server's list, and the agent's.                                       *)
LEMMA ListKeeps == ProgramsInv /\ (List \/ ListIdentities) => ProgramsInv'
<1> SUFFICES ASSUME ProgramsInv, List \/ ListIdentities PROVE ProgramsInv'
  OBVIOUS
<1>1. ProgramsTypeOK /\ Now.call \in {"userauth_list", "agent_list"}
  BY DEF List, ListIdentities, ProgramsInv
<1>2. Now.call \in Listing
  BY <1>1 DEF Listing
<1>3. Control'
  BY <1>1, <1>2, HoldsOn, Succeeds DEF List, ListIdentities
<1> QED
  BY <1>1, <1>3, Keeps DEF List, ListIdentities, ProgramsTypeOK

(* What is chosen is one of the methods that can be, if there is any.        *)
LEMMA ChosenUsable ==
  ASSUME NEW usable, usable \subseteq Methods, NEW opt
  PROVE  /\ Chosen(usable, opt) \in usable \cup {"none"}
         /\ opt \in usable => Chosen(usable, opt) = opt
<1>1. CASE opt \in usable
  BY <1>1 DEF Chosen
<1>2. CASE opt \notin usable /\ "password" \in usable
  BY <1>2 DEF Chosen
<1>3. CASE opt \notin usable /\ "password" \notin usable /\ "keyboard-interactive" \in usable
  <2>1. usable \cap {"password", "keyboard-interactive"} = {"keyboard-interactive"}
    BY <1>3
  <2> QED
    BY <2>1, <1>3 DEF Chosen
<1>4. CASE opt \notin usable /\ "password" \notin usable /\ "keyboard-interactive" \notin usable
  <2>1. usable \cap {"password", "keyboard-interactive"} # {"keyboard-interactive"}
    BY <1>4
  <2>2. usable = {"publickey"} \/ usable = {}
    BY <1>4 DEF Methods
  <2> QED
    BY <2>1, <2>2, <1>4 DEF Chosen
<1> QED
  BY <1>1, <1>2, <1>3, <1>4

(* The method is chosen and tried; the user is logged in or the step fails.  *)
LEMMA ChooseKeeps == ProgramsInv /\ Choose => ProgramsInv'
<1> SUFFICES ASSUME ProgramsInv, Choose PROVE ProgramsInv'
  OBVIOUS
<1>1. ProgramsTypeOK
  BY DEF ProgramsInv
<1>2. tried' \in Methods \cup {"none"}
  <2>1. offered \cap Now.among \subseteq Methods
    BY <1>1 DEF ProgramsTypeOK
  <2> QED
    BY <2>1, ChosenUsable DEF Choose
<1>3. Api[Now.call].gets = {} /\ Api[Now.call].drops = {} /\ CanFail(Now)
  BY <1>1, HoldsOn DEF Choose
<1>4. CASE authed' = "yes" /\ Go(Now.next)
  <2>1. Control'
    BY <1>3, <1>4, Succeeds DEF Choose, CanFail, Sure
  <2> QED
    BY <1>1, <1>2, <1>4, <2>1, Keeps DEF Choose, ProgramsTypeOK
<1>5. CASE authed' = authed /\ Go(Now.fail)
  <2>1. Control'
    BY <1>3, <1>5, Fails DEF Choose
  <2> QED
    BY <1>1, <1>2, <1>5, <2>1, Keeps DEF Choose, ProgramsTypeOK
<1> QED
  BY <1>4, <1>5 DEF Choose

(* Without publickey in the list ssh2_agent goes where a failure leads.      *)
LEMMA PublickeyListedKeeps == ProgramsInv /\ PublickeyListed => ProgramsInv'
<1> SUFFICES ASSUME ProgramsInv, PublickeyListed PROVE ProgramsInv'
  OBVIOUS
<1>1. ProgramsTypeOK /\ Now.call = "publickey_listed"
  BY DEF ProgramsInv, PublickeyListed
<1>2. Api[Now.call].gets = {} /\ Api[Now.call].drops = {} /\ CanFail(Now) /\ Now.next = "on"
  BY <1>1, HoldsOn DEF Listing
<1>3. Control'
  <2>1. CASE "publickey" \in offered
    BY <2>1, <1>1, <1>2, Succeeds DEF PublickeyListed
  <2>2. CASE "publickey" \notin offered
    BY <2>2, <1>1, <1>2, Fails DEF PublickeyListed
  <2> QED
    BY <2>1, <2>2
<1> QED
  BY <1>1, <1>3, Keeps DEF PublickeyListed, ProgramsTypeOK

(* An identity is refused, accepted, or was the last.                        *)
LEMMA IdentitiesKeep == ProgramsInv /\ (TryIdentity \/ NoIdentity) => ProgramsInv'
<1> SUFFICES ASSUME ProgramsInv, TryIdentity \/ NoIdentity PROVE ProgramsInv'
  OBVIOUS
<1>1. ProgramsTypeOK /\ Now.call = "agent_userauth"
  BY DEF ProgramsInv, TryIdentity, NoIdentity
<1>2. Api[Now.call].gets = {} /\ Api[Now.call].drops = {} /\ CanFail(Now) /\ Now.next = "on"
  BY <1>1, HoldsOn DEF Listing
<1>3. CASE TryIdentity
  <2>1. identities' \in 0 .. MaxIdentities
    BY <1>1, <1>3, ProgramsAssumption DEF TryIdentity, ProgramsTypeOK
  <2>2. CASE authed' = "yes" /\ Go("on")
    <3>1. Control'
      BY <2>2, <1>2, <1>3, Succeeds DEF TryIdentity
    <3> QED
      BY <1>1, <1>3, <2>1, <2>2, <3>1, Keeps DEF TryIdentity, ProgramsTypeOK
  <2>3. CASE UNCHANGED <<authed, pc, outcome>>
    <3>1. Control'
      <4>1. /\ Known(KnownBefore(program)[pc]) /\ SessionFirst /\ RetriesEagain
            /\ outcome = "running"
        BY <1>3 DEF ProgramsInv, KnowsTruth, TryIdentity, Ready, Due
      <4>2. PICK k : k = KnownBefore(program)[pc]
        OBVIOUS
      <4>3. k = KnownBefore(program)[pc]' /\ Steps' = Steps
        BY <4>2, <2>3, <1>3 DEF TryIdentity, Steps
      <4>4. Known(KnownBefore(program)[pc])'
        BY <4>1, <4>2, <4>3, <2>3, <1>3 DEF Known, Left, TryIdentity
      <4>5. SessionFirst' /\ RetriesEagain' /\ LeavesNothing'
        BY <4>1, <2>3, <1>3 DEF SessionFirst, RetriesEagain, LeavesNothing, TryIdentity
      <4> QED
        BY <4>1, <4>3, <4>4, <4>5, <2>3, <1>1 DEF Control, KnowsTruth, ProgramsTypeOK
    <3> QED
      BY <1>1, <1>3, <2>1, <2>3, <3>1, Keeps DEF TryIdentity, ProgramsTypeOK
  <2> QED
    BY <1>3, <2>2, <2>3 DEF TryIdentity
<1>4. CASE NoIdentity
  <2>1. Control'
    BY <1>2, <1>4, Fails DEF NoIdentity, authVars
  <2> QED
    BY <1>1, <1>4, <2>1, Keeps DEF NoIdentity, authVars, ProgramsTypeOK
<1> QED
  BY <1>3, <1>4

(* The steps that are looked into.                                           *)
LEMMA LeaveKeeps == ProgramsInv /\ (EchoEnds \/ NetconfEnds \/ CompareTotals) => ProgramsInv'
<1> SUFFICES ASSUME ProgramsInv, EchoEnds \/ NetconfEnds \/ CompareTotals PROVE ProgramsInv'
  OBVIOUS
<1>1. ProgramsTypeOK /\ Now.call \in Loops /\ outcome = "running"
  BY DEF ProgramsInv, EchoEnds, NetconfEnds, CompareTotals, InEcho, InNetconf, AtTotals, Loops
<1>2. /\ UNCHANGED <<program, held, blocking, authed, offered, option, tried,
                     identities, abandoned>>
      /\ \/ Go("on") \/ Go(Now.fail)
         \/ Go("crash") /\ Now.call = "netconf_session"
  BY DEF EchoEnds, NetconfEnds, CompareTotals, InNetconf, Leave, authVars
<1>3. Api[Now.call].gets = {} /\ Api[Now.call].drops = {} /\ CanFail(Now) /\ Now.next = "on"
  BY <1>1, HoldsOn
<1>4. Known(KnownBefore(program)[pc]) /\ SessionFirst /\ RetriesEagain
  BY <1>1 DEF ProgramsInv, KnowsTruth
<1>5. Ready
  BY <1>1, <1>4, Here DEF Ready, Due, StepSound, Known
<1>6. Control'
  <2>1. CASE Go("on")
    BY <2>1, <1>1, <1>2, <1>3, <1>5, Succeeds DEF Loops
  <2>2. CASE Go(Now.fail)
    BY <2>2, <1>2, <1>3, <1>5, Fails
  <2>3. CASE Go("crash") /\ Now.call = "netconf_session"
    <3>1. <<program, Now.call>> \in KnownCrashes
      BY <2>3, <1>1, Here DEF StepSound, FindsAll
    <3>2. outcome' = "crash" /\ pc' = pc /\ Steps' = Steps
      BY <2>3, <1>2 DEF Go, Steps
    <3>3. Now' = Now
      BY <3>2 DEF Now
    <3>4. SessionFirst' /\ RetriesEagain' /\ LeavesNothing'
      BY <1>2, <1>4, <3>2 DEF SessionFirst, RetriesEagain, LeavesNothing
    <3> QED
      BY <1>1, <1>2, <3>1, <3>2, <3>3, <3>4 DEF Control, KnowsTruth, ProgramsTypeOK
  <2> QED
    BY <1>2, <2>1, <2>2, <2>3
<1> QED
  BY <1>1, <1>2, <1>6, Keeps DEF ProgramsTypeOK

(* The loops leave the program around them alone.                            *)
LEMMA UnchangedKeeps == ProgramsInv /\ UNCHANGED programVars => ProgramsInv'
<1> SUFFICES ASSUME ProgramsInv, UNCHANGED programVars PROVE ProgramsInv'
  OBVIOUS
<1>1. Steps' = Steps /\ Now' = Now /\ Left' = Left
  BY DEF programVars, Steps, Now, Left
<1>2. PICK k : k = KnownBefore(program)[pc]
  OBVIOUS
<1>3. k = KnownBefore(program)[pc]'
  BY <1>2 DEF programVars
<1>4. outcome' = "running" => Known(KnownBefore(program)[pc])'
  BY <1>1, <1>2, <1>3 DEF ProgramsInv, KnowsTruth, Known, programVars
<1>5. SessionFirst' /\ RetriesEagain' /\ LeavesNothing'
  BY <1>1 DEF ProgramsInv, KnowsTruth, SessionFirst, RetriesEagain, LeavesNothing, programVars
<1>6. Control'
  BY <1>1, <1>4, <1>5 DEF ProgramsInv, Control, KnowsTruth, ProgramsTypeOK, programVars
<1> QED
  BY <1>6, Keeps DEF ProgramsInv, ProgramsTypeOK, programVars

(* Every step of every program, and of the two loops.                        *)
LEMMA ProgramsKept == ProgramsInv /\ [ExamplesNext]_vars => ProgramsInv'
<1>1. ProgramsInv /\ ProgramsNext => ProgramsInv'
  BY SkipKeeps, CrashKeeps, SucceedKeeps, FailKeeps, GiveUpKeeps, ListKeeps, ChooseKeeps,
     PublickeyListedKeeps, IdentitiesKeep DEF ProgramsNext
<1> QED
  BY <1>1, LeaveKeeps, UnchangedKeeps DEF ExamplesNext, Move, Outline, EchoStep, NetconfStep, vars

(* At the start nothing is held and nothing known but that.                  *)
LEMMA ProgramsBegin == ProgramsInit => ProgramsInv
<1> SUFFICES ASSUME ProgramsInit PROVE ProgramsInv
  OBVIOUS
<1>1. TableSound(program)
  BY TablesAreSound DEF ProgramsInit
<1>2. ProgramsTypeOK
  BY <1>1, ProgramsAssumption DEF ProgramsInit, ProgramsTypeOK, TableSound, Steps
<1>3. Known(KnownBefore(program)[pc])
  BY <1>1 DEF ProgramsInit, TableSound, AtStart, Known
<1> QED
  BY <1>2, <1>3
  DEF ProgramsInv, KnowsTruth, ProgramsInit, SessionFirst, LeavesNothing, RetriesEagain

(* What the tables say is known before a step is true whenever a program is  *)
(* there, whichever calls failed or returned EAGAIN on its way.              *)
THEOREM ProgramsInvariant == ExamplesSpec => []ProgramsInv
<1>1. ExamplesInit => ProgramsInv
  BY ProgramsBegin DEF ExamplesInit
<1> QED
  BY <1>1, ProgramsKept, PTL DEF ExamplesSpec

(* Each call is handed only what was acquired and is not yet released, but   *)
(* at the places named in KnownCrashes.                                      *)
THEOREM UsesHeld == ExamplesSpec => []UsesWhatItHolds
<1>1. ProgramsInv => UsesWhatItHolds
  BY DEF ProgramsInv, KnowsTruth, UsesWhatItHolds
<1> QED
  BY <1>1, ProgramsInvariant, PTL

(* A program that runs to its end has released everything, but for what is   *)
(* named in LeftBy and what a release that returned EAGAIN kept.             *)
THEOREM NothingLeft == ExamplesSpec => []LeavesNothing
<1>1. ProgramsInv => LeavesNothing
  BY DEF ProgramsInv, KnowsTruth
<1> QED
  BY <1>1, ProgramsInvariant, PTL

(* No step that builds something up takes EAGAIN for a failure, but the      *)
(* upload of sftp_RW_nonblock.                                               *)
THEOREM EagainRetried == ExamplesSpec => []RetriesEagain
<1>1. ProgramsInv => RetriesEagain
  BY DEF ProgramsInv, KnowsTruth
<1> QED
  BY <1>1, ProgramsInvariant, PTL

(* Control stays within the tables and the loops within their buffers, for   *)
(* any number of identities and every size.                                  *)
THEOREM ExamplesTypeCorrect == ExamplesSpec => []ExamplesTypeOK
<1>1. ProgramsInv => ProgramsTypeOK
  BY DEF ProgramsInv
<1> QED
  BY <1>1, ProgramsInvariant, LoopsWithinBounds, PTL DEF ExamplesTypeOK

(* No program releases what something else it holds stands on.               *)
THEOREM ReleasedInOrder == ExamplesSpec => ReleasesInOrder
<1>1. ASSUME ProgramsInv, [ExamplesNext]_vars
      PROVE  [\A d \in StandsOn : d[2] \in held \ held' => d[1] \notin held' \ Left']_programVars
  <2>1. ASSUME held' # held PROVE Succeed
    BY <1>1, <2>1
    DEF ExamplesNext, Move, Outline, EchoEnds, NetconfEnds, CompareTotals, Leave, EchoStep,
        NetconfStep, vars, programVars, ProgramsNext, Skip, Crash, Fail, GiveUp, List, Choose,
        PublickeyListed, ListIdentities, TryIdentity, NoIdentity
  <2>2. ASSUME Succeed, NEW d \in StandsOn, d[2] \in held \ held'
        PROVE  d[1] \notin held' \ Left'
    <3>1. /\ Known(KnownBefore(program)[pc])
          /\ InOrder(Now, KnownBefore(program)[pc])
      BY <1>1, <2>2, Here DEF ProgramsInv, KnowsTruth, Succeed, Ready, Due, StepSound
    <3>2. held' = (held \ Api[Now.call].drops) \cup Api[Now.call].gets /\ Left' = Left
      BY <2>2 DEF Succeed, Left
    <3>3. d[1] \notin (KnownBefore(program)[pc].may \ Api[Now.call].drops)
                        \cup Api[Now.call].gets
      BY <2>2, <3>1, <3>2 DEF InOrder
    <3> QED
      BY <3>1, <3>2, <3>3 DEF Known
  <2> QED
    BY <2>1, <2>2
<1> QED
  BY <1>1, ProgramsInvariant, PTL DEF ExamplesSpec, ReleasesInOrder

(* A program tries one method, of those the server lists, and the one asked  *)
(* for if it can; it asks for no service before the login.                   *)
THEOREM OnlyListedTried == ExamplesSpec => Authenticates
<1>1. ASSUME ProgramsInv, [ExamplesNext]_vars
      PROVE  [/\ tried' # tried =>
                   /\ tried' \in offered
                   /\ option \in offered \cap Now.among => tried' = option
              /\ Due /\ Now.call \in Services => authed # "no"]_programVars
  <2>1. ASSUME tried' # tried PROVE Choose
    BY <1>1, <2>1
    DEF ExamplesNext, Move, Outline, EchoEnds, NetconfEnds, CompareTotals, Leave, EchoStep,
        NetconfStep, vars, programVars, authVars, ProgramsNext, Skip, Crash, Succeed, Fail, GiveUp,
        List, PublickeyListed, ListIdentities, TryIdentity, NoIdentity
  <2>2. ASSUME Due
        PROVE  Known(KnownBefore(program)[pc]) /\ AsksInTurn(Now, KnownBefore(program)[pc])
    BY <1>1, <2>2, Here DEF ProgramsInv, KnowsTruth, Due, StepSound
  <2>3. Due /\ Now.call \in Services => authed # "no"
    BY <2>2 DEF Known, AsksInTurn
  <2>4. ASSUME Choose, tried' # tried
        PROVE  /\ tried' \in offered
               /\ option \in offered \cap Now.among => tried' = option
    <3>1. tried = "none"
      BY <2>2, <2>4 DEF Choose, Ready, Known, AsksInTurn
    <3>2. offered \cap Now.among \subseteq Methods
      BY <1>1 DEF ProgramsInv, ProgramsTypeOK
    <3>3. tried' = Chosen(offered \cap Now.among, option)
      BY <2>4 DEF Choose
    <3> QED
      BY <2>4, <3>1, <3>2, <3>3, ChosenUsable
  <2> QED
    BY <2>1, <2>3, <2>4
<1> QED
  BY <1>1, ProgramsInvariant, PTL DEF ExamplesSpec, Authenticates
=============================================================================
