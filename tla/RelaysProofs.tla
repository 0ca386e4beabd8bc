---------------------------- MODULE RelaysProofs -----------------------------
(* Both relays, for any buffer, window and amount of data: what is neither   *)
(* passed on nor waiting elsewhere is in the part of buf behind wr, and from *)
(* this it follows that the streams are pipes and that they are drained.     *)
EXTENDS Relays, StreamLemmas

(* What buf holds of either direction.                                       *)
Unsent == SubSeq(buf, wr + 1, Len(buf))
UpHeld == IF pc = "write" THEN Unsent ELSE <<>>
DnHeld == IF pc = "send" THEN Unsent ELSE <<>>

RelayTypes ==
    /\ relay \in {"direct", "forward"}
    /\ pc \in {"select", "write", "read", "send", "eof", "shutdown"}
    /\ buf \in Seq(Data) /\ upGiven \in Seq(Data) /\ upSock \in Seq(Data)
    /\ upOut \in Seq(Data) /\ dnGiven \in Seq(Data) /\ dnChan \in Seq(Data)
    /\ dnOut \in Seq(Data)
    /\ Len(buf) <= BufLen
    /\ wr \in Nat
    /\ pc = "send" => wr < Len(buf)
    /\ relay = "direct" => wr <= Len(buf) /\ (pc = "write" => wr < Len(buf))
    /\ why \in {"running", "local", "remote", "error"}
    /\ why = "running" <=> pc # "shutdown"
    /\ window \in 0 .. Window
    /\ localGone \in BOOLEAN /\ remoteEof \in BOOLEAN /\ eofSeen \in BOOLEAN

(* Up, in direct_tcpip.  An error may leave something in buf for good; what  *)
(* has been passed on is a front of what was given all the same.             *)
UpInv ==
    relay = "direct" =>
        /\ IsFront(upOut, upGiven)
        /\ why # "error" => Flows(upGiven, upOut, UpHeld, upSock)
        /\ why = "local" => localGone /\ upSock = <<>>

DnInv ==
    /\ IsFront(dnOut, dnGiven)
    /\ why # "error" => Flows(dnGiven, dnOut, DnHeld, dnChan)
    /\ eofSeen => remoteEof
    /\ why = "remote" => remoteEof /\ dnChan = <<>>

RelaysInv == RelayTypes /\ UpInv /\ DnInv

-----------------------------------------------------------------------------
(* The operators of DirectTcpip.                                             *)

(* What is left of buf is a stream, the part a call takes of it another.     *)
LEMMA UnsentParts ==
    ASSUME RelayTypes, wr <= Len(buf), NEW i \in 1 .. Len(buf) - wr
    PROVE  /\ Unsent \in Seq(Data)
           /\ SubSeq(buf, wr + 1, wr + i) \in Seq(Data)
           /\ Len(SubSeq(buf, wr + 1, wr + i)) = i
           /\ SubSeq(buf, (wr + i) + 1, Len(buf)) \in Seq(Data)
           /\ Unsent = SubSeq(buf, wr + 1, wr + i) \o SubSeq(buf, (wr + i) + 1, Len(buf))
           /\ wr + i = Len(buf) => SubSeq(buf, (wr + i) + 1, Len(buf)) = <<>>
<1>1. buf \in Seq(Data) /\ wr \in Nat /\ wr + i \in wr .. Len(buf)
  BY DEF RelayTypes
<1>2. /\ SubSeq(buf, wr + 1, wr + i) \in Seq(Data)
      /\ Len(SubSeq(buf, wr + 1, wr + i)) = (wr + i) - wr
      /\ SubSeq(buf, (wr + i) + 1, Len(buf)) \in Seq(Data)
      /\ Len(SubSeq(buf, (wr + i) + 1, Len(buf))) = Len(buf) - (wr + i)
      /\ SubSeq(buf, wr + 1, wr + i) \o SubSeq(buf, (wr + i) + 1, Len(buf))
           = SubSeq(buf, wr + 1, Len(buf))
  BY <1>1, AdjacentParts
<1>3. wr + i = Len(buf) => SubSeq(buf, (wr + i) + 1, Len(buf)) = <<>>
  BY <1>1
<1>4. Unsent \in Seq(Data)
  BY <1>1 DEF Unsent
<1> QED
  BY <1>1, <1>2, <1>3, <1>4 DEF Unsent

(* recv and read take the front of what waits, as much as buf holds.         *)
LEMMA Taken ==
    ASSUME NEW s \in Seq(Data)
    PROVE  LET n == Least(Len(s), BufLen) IN
           /\ n \in 0 .. Len(s) /\ n <= BufLen
           /\ Upto(s, n) \in Seq(Data) /\ Len(Upto(s, n)) = n
           /\ After(s, n) \in Seq(Data)
           /\ s = Upto(s, n) \o After(s, n)
           /\ s # <<>> => n > 0
<1> DEFINE n == Least(Len(s), BufLen)
<1>1. n \in 0 .. Len(s) /\ n <= BufLen /\ (s # <<>> => n > 0)
  BY RelayAssumption DEF Least
<1> HIDE DEF n
<1>2. /\ SubSeq(s, 1, n) \in Seq(Data) /\ Len(SubSeq(s, 1, n)) = n
      /\ SubSeq(s, n + 1, Len(s)) \in Seq(Data)
      /\ SubSeq(s, 1, n) \o SubSeq(s, n + 1, Len(s)) = s
  BY <1>1, FrontAndRest
<1> QED
  BY <1>1, <1>2 DEF n, Upto, After

-----------------------------------------------------------------------------
(* The loop.                                                                 *)

LEMMA InitInv ==
    RelaysInit => RelaysInv
<1> SUFFICES ASSUME RelaysInit PROVE RelaysInv
  OBVIOUS
<1>1. RelayTypes
  <2>1. /\ pc = "select" /\ wr = 0 /\ why = "running" /\ buf = <<>> /\ window = Window
        /\ relay \in {"direct", "forward"}
        /\ localGone = FALSE /\ remoteEof = FALSE /\ eofSeen = FALSE
    BY DEF RelaysInit, Init
  <2>2. /\ buf \in Seq(Data) /\ upGiven \in Seq(Data) /\ upSock \in Seq(Data)
        /\ upOut \in Seq(Data) /\ dnGiven \in Seq(Data) /\ dnChan \in Seq(Data)
        /\ dnOut \in Seq(Data)
    BY DEF RelaysInit, Init
  <2>3. window \in 0 .. Window /\ Len(buf) <= BufLen /\ wr \in Nat /\ wr <= Len(buf)
    BY <2>1, RelayAssumption
  <2>4. localGone \in BOOLEAN /\ remoteEof \in BOOLEAN /\ eofSeen \in BOOLEAN
    BY <2>1
  <2> QED
    BY <2>1, <2>2, <2>3, <2>4, Zenon DEF RelayTypes
<1>2. Flows(<<>>, <<>>, <<>>, <<>>) /\ IsFront(<<>>, <<>>)
  BY DEF Flows, IsFront
<1>3. UpInv /\ DnInv
  BY <1>2 DEF RelaysInit, Init, UpInv, DnInv, UpHeld, DnHeld
<1> QED
  BY <1>1, <1>3 DEF RelaysInv

(* What waited in the socket is in buf, or waits on.                         *)
LEMMA RecvInv ==
    ASSUME RelaysInv, relay' = relay, Recv
    PROVE  RelaysInv'
<1> DEFINE n == Least(Len(upSock), BufLen)
<1>1. /\ upSock # <<>> /\ upSock \in Seq(Data)
      /\ buf' = Upto(upSock, n) /\ upSock' = After(upSock, n) /\ wr' = 0
      /\ pc = "select" /\ pc' = "write"
  BY DEF RelaysInv, RelayTypes, Recv
<1>2. /\ n > 0 /\ n <= BufLen
      /\ buf' \in Seq(Data) /\ Len(buf') = n /\ upSock' \in Seq(Data)
      /\ upSock = buf' \o upSock'
  BY <1>1, Taken
<1> HIDE DEF n
<1>3. RelayTypes'
  BY <1>1, <1>2 DEF RelaysInv, RelayTypes, Recv, localVars, remoteVars, dnVars
<1>4. UpInv'
  <2>1. UpHeld = <<>> /\ UpHeld' = buf'
    BY <1>1, <1>2 DEF UpHeld, Unsent
  <2> SUFFICES ASSUME relay = "direct" PROVE UpInv'
    BY DEF UpInv
  <2>2. why # "error" /\ why # "local" /\ UNCHANGED <<upGiven, upOut, why, localGone>>
    BY <1>1 DEF RelaysInv, RelayTypes, Recv, localVars
  <2>3. IsFront(upOut, upGiven) /\ Flows(upGiven, upOut, <<>>, buf' \o upSock')
    BY <1>2, <2>1, <2>2 DEF RelaysInv, UpInv
  <2>4. Flows(upGiven, upOut, buf', upSock')
    BY <1>2, <2>3, FlowTakes
  <2> QED
    BY <2>1, <2>2, <2>3, <2>4 DEF UpInv
<1>5. DnInv'
  BY <1>1 DEF RelaysInv, DnInv, DnHeld, Recv, remoteVars, dnVars
<1> QED
  BY <1>3, <1>4, <1>5 DEF RelaysInv

(* With nothing held, a close that is seen has nothing behind it.            *)
LEMMA RecvClosedInv ==
    ASSUME RelaysInv, relay' = relay, RecvClosed
    PROVE  RelaysInv'
<1>1. RelayTypes'
  BY DEF RelaysInv, RelayTypes, RecvClosed, Stop, localVars, upVars, remoteVars, dnVars
<1>2. UpInv'
  BY DEF RelaysInv, RelayTypes, UpInv, UpHeld, RecvClosed, Stop, localVars, upVars
<1>3. DnInv'
  BY DEF RelaysInv, RelayTypes, DnInv, DnHeld, RecvClosed, Stop, remoteVars, dnVars
<1> QED
  BY <1>1, <1>2, <1>3 DEF RelaysInv

(* select timed out, or there was nothing to read: nothing is held.          *)
LEMMA NothingInv ==
    ASSUME RelaysInv, relay' = relay, NothingToRecv \/ NothingToRead
    PROVE  RelaysInv'
<1>1. RelayTypes'
  BY DEF RelaysInv, RelayTypes, NothingToRecv, NothingToRead, localVars, upVars,
     remoteVars, dnVars
<1>2. UpInv'
  BY DEF RelaysInv, UpInv, UpHeld, NothingToRecv, NothingToRead, localVars, upVars
<1>3. DnInv'
  BY DEF RelaysInv, DnInv, DnHeld, NothingToRecv, NothingToRead, remoteVars, dnVars
<1> QED
  BY <1>1, <1>2, <1>3 DEF RelaysInv

(* A part of what is held goes to the remote.                                *)
LEMMA WriteUpStep ==
    ASSUME RelaysInv, relay = "direct", NEW i \in 1 .. Least(Len(buf) - wr, window),
           pc = "write", buf' = buf, wr' = wr + i,
           pc' = IF wr + i < Len(buf) THEN "write" ELSE "read",
           upOut' = upOut \o SubSeq(buf, wr + 1, wr + i),
           upGiven' = upGiven, upSock' = upSock
    PROVE  /\ i \in 1 .. Len(buf) - wr /\ i <= window
           /\ upOut' \in Seq(Data)
           /\ Len(upOut') = Len(upOut) + i
           /\ IsFront(upOut', upGiven)
           /\ Flows(upGiven, upOut', UpHeld', upSock)
<1>1. /\ wr <= Len(buf) /\ wr \in Nat /\ buf \in Seq(Data) /\ window \in Nat
      /\ upOut \in Seq(Data) /\ upSock \in Seq(Data) /\ upGiven \in Seq(Data)
      /\ why # "error"
  BY DEF RelaysInv, RelayTypes
<1>2. i \in 1 .. Len(buf) - wr /\ i <= window
  BY <1>1 DEF Least
<1> DEFINE part == SubSeq(buf, wr + 1, wr + i)
           left == SubSeq(buf, (wr + i) + 1, Len(buf))
<1>3. /\ part \in Seq(Data) /\ Len(part) = i /\ left \in Seq(Data)
      /\ Unsent = part \o left
      /\ wr + i = Len(buf) => left = <<>>
  BY <1>1, <1>2, UnsentParts DEF RelaysInv
<1>4. UpHeld = part \o left
  BY <1>3 DEF UpHeld
<1>5. UpHeld' = left
  <2>1. CASE wr + i < Len(buf)
    BY <2>1 DEF UpHeld, Unsent
  <2>2. CASE ~(wr + i < Len(buf))
    BY <1>1, <1>2, <1>3, <2>2 DEF UpHeld
  <2> QED
    BY <2>1, <2>2
<1>6. Flows(upGiven, upOut, part \o left, upSock)
  BY <1>1, <1>4 DEF RelaysInv, UpInv
<1>7. upOut \in Seq(Data) /\ upSock \in Seq(Data) /\ part \in Seq(Data) /\ left \in Seq(Data)
  BY <1>1, <1>3
<1> HIDE DEF part, left
<1>8. /\ upOut \o part \in Seq(Data)
      /\ Len(upOut \o part) = Len(upOut) + Len(part)
      /\ Flows(upGiven, upOut \o part, left, upSock)
      /\ IsFront(upOut \o part, upGiven)
  BY <1>6, <1>7, FlowPasses
<1>9. upOut' = upOut \o part
  BY DEF part
<1> QED
  BY <1>2, <1>3, <1>5, <1>8, <1>9

LEMMA WriteUpInv ==
    ASSUME RelaysInv, relay' = relay, relay = "direct", WriteUp
    PROVE  RelaysInv'
<1> PICK i \in 1 .. Least(Len(buf) - wr, window) :
        /\ upOut' = upOut \o SubSeq(buf, wr + 1, wr + i)
        /\ window' = window - i
        /\ wr' = wr + i
        /\ pc' = IF wr + i < Len(buf) THEN "write" ELSE "read"
  BY DEF WriteUp
<1>1. /\ pc = "write"
      /\ UNCHANGED <<buf, why, upGiven, localGone, upSock, dnGiven, remoteEof,
                     dnChan, eofSeen, dnOut>>
  BY DEF WriteUp, localVars, remoteVars, dnVars
<1>2. /\ i \in 1 .. Len(buf) - wr /\ i <= window
      /\ upOut' \in Seq(Data)
      /\ IsFront(upOut', upGiven)
      /\ Flows(upGiven, upOut', UpHeld', upSock)
  BY <1>1, WriteUpStep
<1>3. RelayTypes'
  BY <1>1, <1>2, RelayAssumption DEF RelaysInv, RelayTypes
<1>4. UpInv'
  BY <1>1, <1>2 DEF RelaysInv, RelayTypes, UpInv
<1>5. DnInv'
  BY <1>1 DEF RelaysInv, DnInv, DnHeld
<1> QED
  BY <1>3, <1>4, <1>5 DEF RelaysInv

(* In tcpip-forward wr may pass the end of buf; the way down does not care.  *)
LEMMA WriteForwardInv ==
    ASSUME RelaysInv, relay' = relay, relay = "forward", WriteForward
    PROVE  RelaysInv'
<1> PICK i \in 0 .. Least(Len(buf), window) :
        /\ upOut' = upOut \o Upto(buf, i)
        /\ window' = window - i
        /\ wr' = wr + i
        /\ pc' = IF i > 0 /\ wr + i < Len(buf) THEN "write" ELSE "read"
  BY DEF WriteForward
<1>1. /\ pc = "write"
      /\ UNCHANGED <<buf, why, upGiven, localGone, upSock, dnGiven, remoteEof,
                     dnChan, eofSeen, dnOut>>
  BY DEF WriteForward, localVars, remoteVars, dnVars
<1>2. i \in 0 .. Len(buf) /\ i <= window /\ buf \in Seq(Data) /\ upOut \in Seq(Data)
  BY DEF RelaysInv, RelayTypes, Least
<1>3. upOut' \in Seq(Data)
  BY <1>2 DEF Upto
<1>4. RelayTypes'
  BY <1>1, <1>2, <1>3, RelayAssumption DEF RelaysInv, RelayTypes
<1>5. UpInv' /\ DnInv'
  BY <1>1 DEF RelaysInv, UpInv, DnInv, DnHeld
<1> QED
  BY <1>4, <1>5 DEF RelaysInv

(* An error stops the loop with whatever buf holds.                          *)
LEMMA ErrorInv ==
    ASSUME RelaysInv, relay' = relay, CallFails \/ WriteWouldBlock
    PROVE  RelaysInv'
<1>1. /\ pc # "shutdown" /\ pc' = "shutdown" /\ why' = "error"
      /\ UNCHANGED <<buf, wr, upGiven, localGone, upSock, upOut, window, dnGiven,
                     remoteEof, dnChan, eofSeen, dnOut>>
  BY DEF CallFails, WriteWouldBlock, Stop, localVars, upVars, remoteVars, dnVars
<1>2. RelayTypes'
  BY <1>1 DEF RelaysInv, RelayTypes
<1>3. UpInv' /\ DnInv'
  BY <1>1 DEF RelaysInv, UpInv, DnInv
<1> QED
  BY <1>2, <1>3 DEF RelaysInv

(* What waited in the channel is in buf, or waits on.                        *)
LEMMA ReadDownInv ==
    ASSUME RelaysInv, relay' = relay, ReadDown
    PROVE  RelaysInv'
<1> DEFINE n == Least(Len(dnChan), BufLen)
<1>1. /\ dnChan \in Seq(Data)
      /\ buf' = Upto(dnChan, n) /\ dnChan' = After(dnChan, n) /\ wr' = 0
      /\ eofSeen' = remoteEof
      /\ pc = "read" /\ pc' = IF dnChan = <<>> THEN "eof" ELSE "send"
      /\ UNCHANGED <<why, upGiven, localGone, upSock, upOut, window, dnGiven,
                     remoteEof, dnOut>>
  BY DEF RelaysInv, RelayTypes, ReadDown, localVars, upVars, remoteVars
<1>2. /\ n \in 0 .. Len(dnChan) /\ n <= BufLen
      /\ buf' \in Seq(Data) /\ Len(buf') = n /\ dnChan' \in Seq(Data)
      /\ dnChan = buf' \o dnChan'
      /\ dnChan # <<>> => n > 0
  BY <1>1, Taken
<1> HIDE DEF n
<1>3. RelayTypes'
  BY <1>1, <1>2 DEF RelaysInv, RelayTypes
<1>4. UpInv'
  BY <1>1 DEF RelaysInv, UpInv, UpHeld
<1>5. DnInv'
  <2>1. why # "error" /\ why # "remote" /\ DnHeld = <<>>
    BY <1>1 DEF RelaysInv, RelayTypes, DnHeld
  <2>2. IsFront(dnOut, dnGiven) /\ Flows(dnGiven, dnOut, <<>>, buf' \o dnChan')
    BY <1>2, <2>1 DEF RelaysInv, DnInv
  <2>3. Flows(dnGiven, dnOut, buf', dnChan')
    BY <1>2, <2>2, FlowTakes
  <2>4. DnHeld' = buf'
    BY <1>1, <1>2 DEF DnHeld, Unsent
  <2> QED
    BY <1>1, <2>1, <2>2, <2>3, <2>4 DEF DnInv
<1> QED
  BY <1>3, <1>4, <1>5 DEF RelaysInv

(* A part of what is held goes to the local side.                            *)
LEMMA SendDownStep ==
    ASSUME RelaysInv, NEW i \in 1 .. Len(buf) - wr,
           pc = "send", buf' = buf, wr' = wr + i,
           pc' = IF wr + i < Len(buf) THEN "send" ELSE "eof",
           dnOut' = dnOut \o SubSeq(buf, wr + 1, wr + i),
           dnGiven' = dnGiven, dnChan' = dnChan
    PROVE  /\ dnOut' \in Seq(Data)
           /\ Len(dnOut') = Len(dnOut) + i
           /\ IsFront(dnOut', dnGiven)
           /\ Flows(dnGiven, dnOut', DnHeld', dnChan)
<1>1. /\ wr <= Len(buf) /\ wr \in Nat /\ buf \in Seq(Data)
      /\ dnOut \in Seq(Data) /\ dnChan \in Seq(Data) /\ dnGiven \in Seq(Data)
      /\ why # "error"
  BY DEF RelaysInv, RelayTypes
<1> DEFINE part == SubSeq(buf, wr + 1, wr + i)
           left == SubSeq(buf, (wr + i) + 1, Len(buf))
<1>2. /\ part \in Seq(Data) /\ Len(part) = i /\ left \in Seq(Data)
      /\ Unsent = part \o left
      /\ wr + i = Len(buf) => left = <<>>
  BY <1>1, UnsentParts DEF RelaysInv
<1>3. DnHeld = part \o left
  BY <1>2 DEF DnHeld
<1>4. DnHeld' = left
  <2>1. CASE wr + i < Len(buf)
    BY <2>1 DEF DnHeld, Unsent
  <2>2. CASE ~(wr + i < Len(buf))
    BY <1>1, <1>2, <2>2 DEF DnHeld
  <2> QED
    BY <2>1, <2>2
<1>5. Flows(dnGiven, dnOut, part \o left, dnChan)
  BY <1>1, <1>3 DEF RelaysInv, DnInv
<1>6. dnOut \in Seq(Data) /\ dnChan \in Seq(Data) /\ part \in Seq(Data) /\ left \in Seq(Data)
  BY <1>1, <1>2
<1> HIDE DEF part, left
<1>7. /\ dnOut \o part \in Seq(Data)
      /\ Len(dnOut \o part) = Len(dnOut) + Len(part)
      /\ Flows(dnGiven, dnOut \o part, left, dnChan)
      /\ IsFront(dnOut \o part, dnGiven)
  BY <1>5, <1>6, FlowPasses
<1>8. dnOut' = dnOut \o part
  BY DEF part
<1> QED
  BY <1>2, <1>4, <1>7, <1>8

LEMMA SendDownInv ==
    ASSUME RelaysInv, relay' = relay, SendDown
    PROVE  RelaysInv'
<1> PICK i \in 1 .. Len(buf) - wr :
        /\ dnOut' = dnOut \o SubSeq(buf, wr + 1, wr + i)
        /\ wr' = wr + i
        /\ pc' = IF wr + i < Len(buf) THEN "send" ELSE "eof"
  BY DEF SendDown
<1>1. /\ pc = "send"
      /\ UNCHANGED <<buf, why, upGiven, localGone, upSock, upOut, window, dnGiven,
                     remoteEof, dnChan, eofSeen>>
  BY DEF SendDown, localVars, remoteVars, upVars
<1>2. /\ dnOut' \in Seq(Data)
      /\ IsFront(dnOut', dnGiven)
      /\ Flows(dnGiven, dnOut', DnHeld', dnChan)
  BY <1>1, SendDownStep
<1>3. RelayTypes'
  BY <1>1, <1>2 DEF RelaysInv, RelayTypes
<1>4. UpInv'
  BY <1>1 DEF RelaysInv, UpInv, UpHeld
<1>5. DnInv'
  BY <1>1, <1>2 DEF RelaysInv, RelayTypes, DnInv
<1> QED
  BY <1>3, <1>4, <1>5 DEF RelaysInv

(* The loop is left for the EOF with the channel empty and nothing held.     *)
LEMMA CheckEofInv ==
    ASSUME RelaysInv, relay' = relay, CheckEof
    PROVE  RelaysInv'
<1>1. RelayTypes'
  BY DEF RelaysInv, RelayTypes, CheckEof, Stop, localVars, upVars, remoteVars, dnVars
<1>2. UpInv'
  BY DEF RelaysInv, RelayTypes, UpInv, UpHeld, CheckEof, Stop, localVars, upVars
<1>3. DnInv'
  BY DEF RelaysInv, RelayTypes, DnInv, DnHeld, CheckEof, IsEof, Stop, remoteVars, dnVars
<1> QED
  BY <1>1, <1>2, <1>3 DEF RelaysInv

-----------------------------------------------------------------------------
(* The two ends.                                                             *)

LEMMA LocalWritesInv ==
    ASSUME RelaysInv, relay' = relay, NEW d \in Data, LocalWrites(d)
    PROVE  RelaysInv'
<1>1. /\ ~localGone /\ upGiven' = Append(upGiven, d) /\ upSock' = Append(upSock, d)
      /\ UNCHANGED <<pc, buf, wr, why, localGone, upOut, window, dnGiven, remoteEof,
                     dnChan, eofSeen, dnOut>>
  BY DEF LocalWrites, remoteVars, dnVars
<1>2. RelayTypes'
  BY <1>1 DEF RelaysInv, RelayTypes
<1>3. UpInv'
  <2> SUFFICES ASSUME relay = "direct" PROVE UpInv'
    BY DEF UpInv
  <2>1. /\ upGiven \in Seq(Data) /\ upOut \in Seq(Data) /\ upSock \in Seq(Data)
        /\ d \in Data
    BY DEF RelaysInv, RelayTypes
  <2>2. UpHeld \in Seq(Data) /\ UpHeld' = UpHeld
    BY <1>1 DEF RelaysInv, RelayTypes, UpHeld, Unsent
  <2>3. IsFront(upOut, Append(upGiven, d))
    <3>1. IsFront(upOut, upGiven)
      BY DEF RelaysInv, UpInv
    <3> QED
      BY <2>1, <3>1, FrontGrows
  <2>4. why # "error" => Flows(Append(upGiven, d), upOut, UpHeld, Append(upSock, d))
    <3> SUFFICES ASSUME why # "error"
                 PROVE  Flows(Append(upGiven, d), upOut, UpHeld, Append(upSock, d))
      OBVIOUS
    <3>1. Flows(upGiven, upOut, UpHeld, upSock)
      BY DEF RelaysInv, UpInv
    <3> QED
      BY <2>1, <2>2, <3>1, FlowGrows
  <2> QED
    BY <1>1, <2>2, <2>3, <2>4 DEF RelaysInv, UpInv
<1>4. DnInv'
  BY <1>1 DEF RelaysInv, DnInv, DnHeld, Unsent
<1> QED
  BY <1>2, <1>3, <1>4 DEF RelaysInv

LEMMA RemoteWritesInv ==
    ASSUME RelaysInv, relay' = relay, NEW d \in Data, RemoteWrites(d)
    PROVE  RelaysInv'
<1>1. /\ ~remoteEof /\ dnGiven' = Append(dnGiven, d) /\ dnChan' = Append(dnChan, d)
      /\ UNCHANGED <<pc, buf, wr, why, upGiven, localGone, upSock, upOut, window,
                     remoteEof, eofSeen, dnOut>>
  BY DEF RemoteWrites, localVars, upVars
<1>2. RelayTypes'
  BY <1>1 DEF RelaysInv, RelayTypes
<1>3. UpInv'
  BY <1>1 DEF RelaysInv, UpInv, UpHeld, Unsent
<1>4. DnInv'
  <2>1. /\ dnGiven \in Seq(Data) /\ dnOut \in Seq(Data) /\ dnChan \in Seq(Data)
        /\ d \in Data
    BY DEF RelaysInv, RelayTypes
  <2>2. DnHeld \in Seq(Data) /\ DnHeld' = DnHeld
    BY <1>1 DEF RelaysInv, RelayTypes, DnHeld, Unsent
  <2>3. IsFront(dnOut, Append(dnGiven, d))
    <3>1. IsFront(dnOut, dnGiven)
      BY DEF RelaysInv, DnInv
    <3> QED
      BY <2>1, <3>1, FrontGrows
  <2>4. why # "error" => Flows(Append(dnGiven, d), dnOut, DnHeld, Append(dnChan, d))
    <3> SUFFICES ASSUME why # "error"
                 PROVE  Flows(Append(dnGiven, d), dnOut, DnHeld, Append(dnChan, d))
      OBVIOUS
    <3>1. Flows(dnGiven, dnOut, DnHeld, dnChan)
      BY DEF RelaysInv, DnInv
    <3> QED
      BY <2>1, <2>2, <3>1, FlowGrows
  <2> QED
    BY <1>1, <2>2, <2>3, <2>4 DEF RelaysInv, DnInv
<1> QED
  BY <1>2, <1>3, <1>4 DEF RelaysInv

LEMMA EndsQuietInv ==
    ASSUME RelaysInv, relay' = relay, LocalCloses \/ RemoteCloses \/ RemoteReads
    PROVE  RelaysInv'
<1>1. UNCHANGED <<pc, buf, wr, why, upGiven, upSock, upOut, dnGiven, dnChan,
                  eofSeen, dnOut>>
  BY DEF LocalCloses, RemoteCloses, RemoteReads, localVars, upVars, remoteVars, dnVars
<1>2. localGone' \in BOOLEAN /\ (localGone => localGone')
  BY DEF RelaysInv, RelayTypes, LocalCloses, RemoteCloses, RemoteReads, localVars, upVars
<1>3. remoteEof' \in BOOLEAN /\ (remoteEof => remoteEof')
  BY DEF RelaysInv, RelayTypes, LocalCloses, RemoteCloses, RemoteReads, remoteVars
<1>4. window' \in 0 .. Window
  <2>1. window' = window \/ (window < Window /\ window' = window + 1)
    BY DEF LocalCloses, RemoteCloses, RemoteReads, upVars
  <2> QED
    BY <2>1, RelayAssumption DEF RelaysInv, RelayTypes
<1>5. RelayTypes'
  BY <1>1, <1>2, <1>3, <1>4 DEF RelaysInv, RelayTypes
<1>6. UpHeld' = UpHeld /\ DnHeld' = DnHeld
  BY <1>1 DEF UpHeld, DnHeld, Unsent
<1>7. UpInv'
  BY <1>1, <1>2, <1>6 DEF RelaysInv, UpInv
<1>8. DnInv'
  BY <1>1, <1>3, <1>6 DEF RelaysInv, DnInv
<1> QED
  BY <1>5, <1>7, <1>8 DEF RelaysInv

-----------------------------------------------------------------------------
LEMMA NextInv ==
    RelaysInv /\ [RelaysNext]_relaysVars => RelaysInv'
<1> SUFFICES ASSUME RelaysInv, [RelaysNext]_relaysVars
             PROVE  RelaysInv'
  OBVIOUS
<1>1. ASSUME RelayLoop PROVE RelaysInv'
  <2>1. relay' = relay
    BY <1>1 DEF RelayLoop
  <2>2. CASE relay = "direct" /\ Loop
    BY <2>1, <2>2, RecvInv, RecvClosedInv, NothingInv, WriteUpInv, ReadDownInv,
       SendDownInv, CheckEofInv DEF Loop
  <2>3. CASE relay = "forward" /\ ForwardLoop
    BY <2>1, <2>3, RecvInv, RecvClosedInv, NothingInv, WriteForwardInv, ErrorInv,
       ReadDownInv, SendDownInv, CheckEofInv DEF ForwardLoop
  <2> QED
    BY <1>1, <2>2, <2>3 DEF RelayLoop
<1>2. ASSUME relay' = relay, CallFails PROVE RelaysInv'
  BY <1>2, ErrorInv
<1>3. ASSUME relay' = relay, Ends PROVE RelaysInv'
  BY <1>3, LocalWritesInv, RemoteWritesInv, EndsQuietInv DEF Ends
<1>4. CASE UNCHANGED relaysVars
  <2>1. UNCHANGED <<relay, pc, buf, wr, why, upGiven, upSock, localGone, upOut, window,
                    dnGiven, dnChan, remoteEof, eofSeen, dnOut>>
    BY <1>4 DEF relaysVars, vars
  <2>2. RelayTypes'
    BY <2>1 DEF RelaysInv, RelayTypes
  <2>3. UpInv' /\ DnInv'
    BY <2>1 DEF RelaysInv, UpInv, UpHeld, DnInv, DnHeld, Unsent
  <2> QED
    BY <2>2, <2>3 DEF RelaysInv
<1> QED
  BY <1>1, <1>2, <1>3, <1>4 DEF RelaysNext

(* What is in flight of either stream is known at every step.                *)
THEOREM RelaysInvariant == RelaysSpec => []RelaysInv
<1> QED
  BY InitInv, NextInv, PTL DEF RelaysSpec

-----------------------------------------------------------------------------
(* The invariants of the runs.                                               *)

(* The types of either program's variables, and the bounds of buf, hold at   *)
(* every step; in direct_tcpip the offset stays within buf as well.          *)
THEOREM RelaysTypeCorrect == RelaysSpec => []RelaysTypeOK
<1>1. RelayTypes => RelaysTypeOK
  <2> SUFFICES ASSUME RelayTypes PROVE RelaysTypeOK
    OBVIOUS
  <2>1. relay = "direct" => TypeOK
    BY DEF RelayTypes, TypeOK
  <2>2. ForwardTypeOK
    BY DEF RelayTypes, ForwardTypeOK
  <2> QED
    BY <2>1, <2>2 DEF RelaysTypeOK, RelayTypes
<1> QED
  BY <1>1, RelaysInvariant, PTL DEF RelaysInv

(* A relay that ends because a side closed has passed on all that side       *)
(* wrote: nothing is left in buf, nothing in the socket or the channel.      *)
THEOREM RelaysDrain == RelaysSpec => []DrainedByRelay
<1>1. RelaysInv => DrainedByRelay
  <2> SUFFICES ASSUME RelaysInv PROVE DrainedByRelay
    OBVIOUS
  <2>1. upOut \in Seq(Data) /\ dnOut \in Seq(Data)
    BY DEF RelaysInv, RelayTypes
  <2>2. why \in {"local", "remote"} => UpHeld = <<>> /\ DnHeld = <<>>
    BY DEF RelaysInv, RelayTypes, UpHeld, DnHeld
  <2>3. ASSUME relay = "direct", why = "local" PROVE upOut = upGiven
    <3>1. Flows(upGiven, upOut, <<>>, <<>>)
      BY <2>2, <2>3 DEF RelaysInv, UpInv
    <3> QED
      BY <2>1, <3>1, FlowEnds
  <2>4. ASSUME why = "remote" PROVE dnOut = dnGiven
    <3>1. Flows(dnGiven, dnOut, <<>>, <<>>)
      BY <2>2, <2>4 DEF RelaysInv, DnInv
    <3> QED
      BY <2>1, <3>1, FlowEnds
  <2> QED
    BY <2>3, <2>4 DEF DrainedByRelay, DrainedAtEnd, DrainedDown
<1> QED
  BY <1>1, RelaysInvariant, PTL

-----------------------------------------------------------------------------
(* Either direction is a pipe: a write at one end puts, a write at the other *)
(* gets, and nothing else touches what was given or what came out.           *)

LEMMA UpSteps ==
    ASSUME RelaysInv, relay = "direct", RelaysNext
    PROVE  Up!Next \/ UNCHANGED <<upGiven, upOut>>
<1>1. ASSUME WriteUp PROVE Up!Get
  <2> PICK i \in 1 .. Least(Len(buf) - wr, window) :
          /\ upOut' = upOut \o SubSeq(buf, wr + 1, wr + i)
          /\ wr' = wr + i
          /\ pc' = IF wr + i < Len(buf) THEN "write" ELSE "read"
    BY <1>1 DEF WriteUp
  <2>1. pc = "write" /\ UNCHANGED <<buf, upGiven, upSock>>
    BY <1>1 DEF WriteUp, localVars
  <2>2. /\ i \in 1 .. Len(buf) - wr
        /\ Len(upOut') = Len(upOut) + i
        /\ IsFront(upOut', upGiven)
        /\ upOut' \in Seq(Data)
    BY <2>1, WriteUpStep
  <2>3. /\ upOut \in Seq(Data) /\ upGiven \in Seq(Data)
        /\ Len(upOut') \in Len(upOut) + 1 .. Len(upGiven)
        /\ upOut' = SubSeq(upGiven, 1, Len(upOut'))
    BY <2>2 DEF RelaysInv, RelayTypes, IsFront
  <2> QED
    BY <2>1, <2>3 DEF Up!Get
<1>2. ASSUME NEW d \in Data, LocalWrites(d) PROVE Up!Put
  BY <1>2 DEF LocalWrites, Up!Put
<1>3. ASSUME Loop, ~WriteUp PROVE UNCHANGED <<upGiven, upOut>>
  BY <1>3 DEF Loop, Recv, RecvClosed, NothingToRecv, NothingToRead, ReadDown, SendDown,
     CheckEof, localVars, upVars
<1>4. ASSUME Ends, \A d \in Data : ~LocalWrites(d) PROVE UNCHANGED <<upGiven, upOut>>
  BY <1>4 DEF Ends, RemoteWrites, LocalCloses, RemoteCloses, RemoteReads, localVars, upVars
<1>5. ASSUME CallFails PROVE UNCHANGED <<upGiven, upOut>>
  BY <1>5 DEF CallFails, localVars, upVars
<1> QED
  BY <1>1, <1>2, <1>3, <1>4, <1>5 DEF RelaysNext, RelayLoop, Up!Next

LEMMA DownSteps ==
    ASSUME RelaysInv, RelaysNext
    PROVE  Down!Next \/ UNCHANGED <<dnGiven, dnOut>>
<1>1. ASSUME SendDown PROVE Down!Get
  <2> PICK i \in 1 .. Len(buf) - wr :
          /\ dnOut' = dnOut \o SubSeq(buf, wr + 1, wr + i)
          /\ wr' = wr + i
          /\ pc' = IF wr + i < Len(buf) THEN "send" ELSE "eof"
    BY <1>1 DEF SendDown
  <2>1. pc = "send" /\ UNCHANGED <<buf, dnGiven, dnChan>>
    BY <1>1 DEF SendDown, remoteVars
  <2>2. /\ Len(dnOut') = Len(dnOut) + i
        /\ IsFront(dnOut', dnGiven)
        /\ dnOut' \in Seq(Data)
    BY <2>1, SendDownStep
  <2>3. /\ dnOut \in Seq(Data) /\ dnGiven \in Seq(Data)
        /\ Len(dnOut') \in Len(dnOut) + 1 .. Len(dnGiven)
        /\ dnOut' = SubSeq(dnGiven, 1, Len(dnOut'))
    BY <2>2 DEF RelaysInv, RelayTypes, IsFront
  <2> QED
    BY <2>1, <2>3 DEF Down!Get
<1>2. ASSUME NEW d \in Data, RemoteWrites(d) PROVE Down!Put
  BY <1>2 DEF RemoteWrites, Down!Put
<1>3. ASSUME Loop \/ ForwardLoop, ~SendDown PROVE UNCHANGED <<dnGiven, dnOut>>
  BY <1>3 DEF Loop, ForwardLoop, Recv, RecvClosed, NothingToRecv, WriteUp, WriteForward,
     WriteWouldBlock, NothingToRead, ReadDown, CheckEof, remoteVars, dnVars
<1>4. ASSUME Ends, \A d \in Data : ~RemoteWrites(d) PROVE UNCHANGED <<dnGiven, dnOut>>
  BY <1>4 DEF Ends, LocalWrites, LocalCloses, RemoteCloses, RemoteReads, remoteVars, dnVars
<1>5. ASSUME CallFails PROVE UNCHANGED <<dnGiven, dnOut>>
  BY <1>5 DEF CallFails, remoteVars, dnVars
<1> QED
  BY <1>1, <1>2, <1>3, <1>4, <1>5 DEF RelaysNext, RelayLoop, Down!Next

(* direct_tcpip implements the pipe upwards: whatever the window takes of a  *)
(* write, and whenever it fails, nothing is lost or repeated on the way.     *)
THEOREM DirectUpImplementsPipe == RelaysSpec => DirectUpIsPipe
<1>1. RelaysInit => Up!Init
  BY DEF RelaysInit, Init, Up!Init
<1>2. RelaysInv /\ [RelaysNext]_relaysVars =>
          [relay = "direct" => Up!Next]_<<upGiven, upOut>>
  <2> SUFFICES ASSUME RelaysInv, [RelaysNext]_relaysVars
               PROVE  [relay = "direct" => Up!Next]_<<upGiven, upOut>>
    OBVIOUS
  <2>1. CASE RelaysNext
    BY <2>1, UpSteps
  <2>2. CASE UNCHANGED relaysVars
    BY <2>2 DEF relaysVars, vars
  <2> QED
    BY <2>1, <2>2
<1> QED
  BY <1>1, <1>2, RelaysInvariant, PTL DEF RelaysSpec, DirectUpIsPipe

(* Both programs implement the pipe downwards.                               *)
THEOREM DownImplementsPipe == RelaysSpec => DownIsPipe
<1>1. RelaysInit => Down!Init
  BY DEF RelaysInit, Init, Down!Init
<1>2. RelaysInv /\ [RelaysNext]_relaysVars => [Down!Next]_<<dnGiven, dnOut>>
  <2> SUFFICES ASSUME RelaysInv, [RelaysNext]_relaysVars
               PROVE  [Down!Next]_<<dnGiven, dnOut>>
    OBVIOUS
  <2>1. CASE RelaysNext
    BY <2>1, DownSteps
  <2>2. CASE UNCHANGED relaysVars
    BY <2>2 DEF relaysVars, vars
  <2> QED
    BY <2>1, <2>2
<1> QED
  BY <1>1, <1>2, RelaysInvariant, PTL DEF RelaysSpec, DownIsPipe, Down!Spec
=============================================================================
