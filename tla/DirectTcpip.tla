----------------------------- MODULE DirectTcpip -----------------------------
(* The relay of src/example/direct_tcpip.c: one local TCP connection, passed *)
(* through a direct-tcpip channel to a remote host.  A single thread takes   *)
(* what the local side wrote to the channel, then what the channel has to    *)
(* the local side, until one side is gone.  "Up" is towards the remote.      *)
EXTENDS Naturals, Sequences

CONSTANTS
    Data,          \* bytes
    BufLen,        \* the size of buf
    Window,        \* what the remote's window lets the channel send
    MaxUp, MaxDn   \* bounds on what either side writes

ASSUME RelayAssumption ==
    /\ BufLen \in Nat \ {0} /\ Window \in Nat \ {0}
    /\ MaxUp \in Nat /\ MaxDn \in Nat

VARIABLES
    pc,        \* the call the loop is about to make
    buf, wr,   \* the buffer in use and how much of it has been passed on
    why,       \* what ended the loop
    upGiven,   \* all the local side has written
    upSock,    \* written by the local side and not yet received here
    localGone, \* the local side has closed its connection
    upOut,     \* all that was written to the channel
    window,    \* what the channel can still send
    dnGiven,   \* all the remote has written
    dnChan,    \* written by the remote and not yet read from the channel
    remoteEof, \* the remote has closed its side
    eofSeen,   \* libssh2 has processed the EOF packet
    dnOut      \* all that was sent to the local side

vars == <<pc, buf, wr, why, upGiven, upSock, localGone, upOut, window, dnGiven,
          dnChan, remoteEof, eofSeen, dnOut>>

localVars == <<upGiven, localGone>>
remoteVars == <<dnGiven, remoteEof>>
upVars == <<upSock, upOut, window>>
dnVars == <<dnChan, eofSeen, dnOut>>

Init ==
    /\ pc = "select" /\ buf = <<>> /\ wr = 0 /\ why = "running"
    /\ upGiven = <<>> /\ upSock = <<>> /\ localGone = FALSE
    /\ upOut = <<>> /\ window = Window
    /\ dnGiven = <<>> /\ dnChan = <<>> /\ remoteEof = FALSE /\ eofSeen = FALSE
    /\ dnOut = <<>>

Least(m, n) == IF m < n THEN m ELSE n
Upto(s, n) == SubSeq(s, 1, n)
After(s, n) == SubSeq(s, n + 1, Len(s))

-----------------------------------------------------------------------------
(* The two ends.                                                             *)

LocalWrites(d) ==
    /\ ~localGone /\ Len(upGiven) < MaxUp
    /\ upGiven' = Append(upGiven, d)
    /\ upSock' = Append(upSock, d)
    /\ UNCHANGED <<pc, buf, wr, why, localGone, upOut, window, remoteVars, dnVars>>

LocalCloses ==
    /\ localGone' = TRUE
    /\ UNCHANGED <<pc, buf, wr, why, upGiven, upVars, remoteVars, dnVars>>

RemoteWrites(d) ==
    /\ ~remoteEof /\ Len(dnGiven) < MaxDn
    /\ dnGiven' = Append(dnGiven, d)
    /\ dnChan' = Append(dnChan, d)
    /\ UNCHANGED <<pc, buf, wr, why, localVars, upVars, remoteEof, eofSeen, dnOut>>

RemoteCloses ==
    /\ remoteEof' = TRUE
    /\ UNCHANGED <<pc, buf, wr, why, localVars, upVars, dnGiven, dnVars>>

(* The remote takes something in and its window opens again.                 *)
RemoteReads ==
    /\ window < Window
    /\ window' = window + 1
    /\ UNCHANGED <<pc, buf, wr, why, localVars, upSock, upOut, remoteVars, dnVars>>

-----------------------------------------------------------------------------
(* The loop.                                                                 *)

Stop(reason) == pc' = "shutdown" /\ why' = reason

(* select reports forwardsock readable, and recv returns what is there.      *)
Recv ==
    /\ pc = "select"
    /\ upSock # <<>>
    /\ LET n == Least(Len(upSock), BufLen) IN
       buf' = Upto(upSock, n) /\ upSock' = After(upSock, n)
    /\ wr' = 0
    /\ pc' = "write"
    /\ UNCHANGED <<why, localVars, upOut, window, remoteVars, dnVars>>

(* select reports it readable, and recv returns 0.                           *)
(* Faulty variant: a closed connection looks like one with nothing to read.  *)
RecvClosedIgnored ==
    /\ pc = "select"
    /\ upSock = <<>> /\ localGone
    /\ pc' = "read"
    /\ UNCHANGED <<buf, wr, why, localVars, upVars, remoteVars, dnVars>>

RecvClosed ==
    /\ pc = "select"
    /\ upSock = <<>> /\ localGone
    /\ Stop("local")
    /\ UNCHANGED <<buf, wr, localVars, upVars, remoteVars, dnVars>>

(* select times out.                                                         *)
NothingToRecv ==
    /\ pc = "select"
    /\ upSock = <<>> /\ ~localGone
    /\ pc' = "read"
    /\ UNCHANGED <<buf, wr, why, localVars, upVars, remoteVars, dnVars>>

(* libssh2_channel_write sends some of what is left of buf.  With the window *)
(* closed it returns EAGAIN, and the loop tries again at once: no step.      *)
(* Faulty variant: always from the start of buf.                             *)
WriteUpFromStart ==
    /\ pc = "write"
    /\ \E i \in 1 .. Least(Len(buf) - wr, window) :
         /\ upOut' = upOut \o SubSeq(buf, 1, i)
         /\ window' = window - i
         /\ wr' = wr + i
         /\ pc' = IF wr + i < Len(buf) THEN "write" ELSE "read"
    /\ UNCHANGED <<buf, why, localVars, upSock, remoteVars, dnVars>>

WriteUp ==
    /\ pc = "write"
    /\ \E i \in 1 .. Least(Len(buf) - wr, window) :
         /\ upOut' = upOut \o SubSeq(buf, wr + 1, wr + i)
         /\ window' = window - i
         /\ wr' = wr + i
         /\ pc' = IF wr + i < Len(buf) THEN "write" ELSE "read"
    /\ UNCHANGED <<buf, why, localVars, upSock, remoteVars, dnVars>>

(* libssh2_channel_read returns EAGAIN.                                      *)
(* Faulty variant: an EAGAIN is waited out, as for a write.                  *)
NothingToReadSpins ==
    /\ pc = "read"
    /\ dnChan = <<>> /\ ~remoteEof
    /\ UNCHANGED vars

NothingToRead ==
    /\ pc = "read"
    /\ dnChan = <<>> /\ ~remoteEof
    /\ pc' = "select"
    /\ UNCHANGED <<buf, wr, why, localVars, upVars, remoteVars, dnVars>>

(* It returns data, or 0 at the end of the stream.                           *)
(* Faulty variant: the offset of the last use of buf is kept.                *)
ReadDownKeepsOffset ==
    /\ pc = "read"
    /\ dnChan # <<>> \/ remoteEof
    /\ LET n == Least(Len(dnChan), BufLen) IN
       buf' = Upto(dnChan, n) /\ dnChan' = After(dnChan, n)
    /\ eofSeen' = remoteEof
    /\ pc' = IF dnChan = <<>> THEN "eof" ELSE "send"
    /\ UNCHANGED <<wr, why, localVars, upVars, remoteVars, dnOut>>

ReadDown ==
    /\ pc = "read"
    /\ dnChan # <<>> \/ remoteEof
    /\ LET n == Least(Len(dnChan), BufLen) IN
       buf' = Upto(dnChan, n) /\ dnChan' = After(dnChan, n)
    /\ eofSeen' = remoteEof
    /\ wr' = 0
    /\ pc' = IF dnChan = <<>> THEN "eof" ELSE "send"
    /\ UNCHANGED <<why, localVars, upVars, remoteVars, dnOut>>

(* send to forwardsock takes some of what is left of buf.                    *)
(* Faulty variant: the offset counts sends and not bytes.                    *)
SendDownMiscounts ==
    /\ pc = "send"
    /\ \E i \in 1 .. Len(buf) - wr :
         /\ dnOut' = dnOut \o SubSeq(buf, wr + 1, wr + i)
         /\ wr' = wr + 1
         /\ pc' = IF wr + 1 < Len(buf) THEN "send" ELSE "eof"
    /\ UNCHANGED <<buf, why, localVars, upVars, remoteVars, dnChan, eofSeen>>

(* Faulty variant: the offset runs one ahead.                                *)
SendDownOverruns ==
    /\ pc = "send"
    /\ \E i \in 1 .. Len(buf) - wr :
         /\ dnOut' = dnOut \o SubSeq(buf, wr + 1, wr + i)
         /\ wr' = wr + i + 1
         /\ pc' = IF wr + i + 1 < Len(buf) THEN "send" ELSE "eof"
    /\ UNCHANGED <<buf, why, localVars, upVars, remoteVars, dnChan, eofSeen>>

SendDown ==
    /\ pc = "send"
    /\ \E i \in 1 .. Len(buf) - wr :
         /\ dnOut' = dnOut \o SubSeq(buf, wr + 1, wr + i)
         /\ wr' = wr + i
         /\ pc' = IF wr + i < Len(buf) THEN "send" ELSE "eof"
    /\ UNCHANGED <<buf, why, localVars, upVars, remoteVars, dnChan, eofSeen>>

(* libssh2_channel_eof, after each read.                                     *)
(* Faulty variant: data still unread does not count.                         *)
IsEofUnread == eofSeen

IsEof == eofSeen /\ dnChan = <<>>

CheckEof ==
    /\ pc = "eof"
    /\ IF IsEof THEN Stop("remote") ELSE pc' = "read" /\ why' = why
    /\ UNCHANGED <<buf, wr, localVars, upVars, remoteVars, dnVars>>

(* Any of the calls fails.                                                   *)
CallFails ==
    /\ pc \in {"select", "write", "read", "send"}
    /\ Stop("error")
    /\ UNCHANGED <<buf, wr, localVars, upVars, remoteVars, dnVars>>

Loop ==
    \/ Recv \/ RecvClosed \/ NothingToRecv \/ WriteUp \/ NothingToRead
    \/ ReadDown \/ SendDown \/ CheckEof

Ends ==
    \/ \E d \in Data : LocalWrites(d) \/ RemoteWrites(d)
    \/ LocalCloses \/ RemoteCloses \/ RemoteReads

Next == Loop \/ CallFails \/ Ends

Spec == Init /\ [][Next]_vars

(* The loop's thread runs, and the remote goes on reading whatever it has to *)
(* write: a remote that waits for its output to be read before it reads more *)
(* can keep this single thread in the write loop for good.                   *)
FairSpec == Spec /\ WF_vars(Loop) /\ WF_vars(RemoteReads)

-----------------------------------------------------------------------------
(* Properties.                                                               *)

TypeOK ==
    /\ pc \in {"select", "write", "read", "send", "eof", "shutdown"}
    /\ {buf, upGiven, upSock, upOut, dnGiven, dnChan, dnOut} \subseteq Seq(Data)
    /\ Len(buf) <= BufLen
    /\ wr \in 0 .. Len(buf)
    /\ pc \in {"write", "send"} => wr < Len(buf)
    /\ why \in {"running", "local", "remote", "error"}
    /\ why = "running" <=> pc # "shutdown"
    /\ window \in 0 .. Window
    /\ {localGone, remoteEof, eofSeen} \subseteq BOOLEAN

(* Each direction is a pipe: partial writes and reads, EAGAIN, errors and    *)
(* closes at any moment lose nothing in the middle, repeat nothing and never *)
(* let bytes of one direction into the other, though both use buf.           *)
Up == INSTANCE Pipe WITH in <- upGiven, out <- upOut
Down == INSTANCE Pipe WITH in <- dnGiven, out <- dnOut
DownIsPipe == Down!Spec

(* When the loop ends because one side closed, all that side wrote has been  *)
(* passed on to the other.                                                   *)
DrainedAtEnd ==
    /\ why = "local" => upOut = upGiven
    /\ why = "remote" => dnOut = dnGiven

(* A side that closes ends the relay, in whatever call the loop is then.     *)
CloseEndsRelay == localGone \/ remoteEof ~> pc = "shutdown"
=============================================================================
