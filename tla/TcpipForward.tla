---------------------------- MODULE TcpipForward -----------------------------
(* The relay of src/example/tcpip-forward.c: the remote end is a connection  *)
(* the server accepted for a listener, the local end a connection this       *)
(* program made.  Its loop is that of DirectTcpip but for the write to the   *)
(* channel: each call is handed buf from its start with all its length, a    *)
(* negative result, EAGAIN too, ends the relay, and a 0 ends the loop.       *)
EXTENDS DirectTcpip

(* libssh2_channel_write takes some of buf, or nothing: after a 0 the way up *)
(* is left with the rest of buf unsent, and buf is read into next.           *)
WriteForward ==
    /\ pc = "write"
    /\ \E i \in 0 .. Least(Len(buf), window) :
         /\ upOut' = upOut \o Upto(buf, i)
         /\ window' = window - i
         /\ wr' = wr + i
         /\ pc' = IF i > 0 /\ wr + i < Len(buf) THEN "write" ELSE "read"
    /\ UNCHANGED <<buf, why, localVars, upSock, remoteVars, dnVars>>

(* The window is closed, or the transport cannot take more: EAGAIN, which is *)
(* taken for an error.                                                       *)
WriteWouldBlock ==
    /\ pc = "write"
    /\ Stop("error")
    /\ UNCHANGED <<buf, wr, localVars, upVars, remoteVars, dnVars>>

ForwardLoop ==
    \/ Recv \/ RecvClosed \/ NothingToRecv \/ WriteForward \/ WriteWouldBlock
    \/ NothingToRead \/ ReadDown \/ SendDown \/ CheckEof

ForwardNext == ForwardLoop \/ CallFails \/ Ends

ForwardSpec == Init /\ [][ForwardNext]_vars

ForwardFairSpec ==
    ForwardSpec /\ WF_vars(ForwardLoop) /\ WF_vars(RemoteReads)

-----------------------------------------------------------------------------
(* Properties.                                                               *)

(* The upstream buffer and its offset are not consistent here (wr may pass   *)
(* the end of buf), so the types are those of the rest.                      *)
ForwardTypeOK ==
    /\ {buf, upGiven, upSock, upOut, dnGiven, dnChan, dnOut} \subseteq Seq(Data)
    /\ pc = "send" => wr < Len(buf)
    /\ why = "running" <=> pc # "shutdown"
    /\ window \in 0 .. Window

(* The stream from the remote comes through intact all the same, to its end. *)
DrainedDown == why = "remote" => dnOut = dnGiven

(* "Forwarding connection from remote %s:%d to local %s:%d": what reaches    *)
(* the remote is what the local server wrote.                                *)
ForwardsWhatWasWritten == Len(upOut) <= Len(upGiven) /\ upOut = Upto(upGiven, Len(upOut))
=============================================================================
