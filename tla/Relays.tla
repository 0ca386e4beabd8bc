------------------------------- MODULE Relays --------------------------------
(* The two forwarders of src/example, one beside the other: which of them    *)
(* runs is chosen at the start.  They share the way down, from the channel   *)
(* to the connection on this host, and differ in the way up.                 *)
EXTENDS TcpipForward

VARIABLE relay   \* the program: direct_tcpip or tcpip-forward

relaysVars == <<relay, vars>>

RelaysInit == Init /\ relay \in {"direct", "forward"}

(* The loop of the program that runs.                                        *)
RelayLoop ==
    /\ relay' = relay
    /\ \/ relay = "direct" /\ Loop
       \/ relay = "forward" /\ ForwardLoop

RelaysNext == RelayLoop \/ (relay' = relay /\ (CallFails \/ Ends))

RelaysSpec == RelaysInit /\ [][RelaysNext]_relaysVars

(* As in DirectTcpip: the thread runs, and the remote goes on reading.       *)
RelaysFairSpec ==
    /\ RelaysSpec
    /\ WF_relaysVars(RelayLoop)
    /\ WF_relaysVars(relay' = relay /\ RemoteReads)

-----------------------------------------------------------------------------
(* Properties.                                                               *)

(* The types of either program's variables.                                  *)
RelaysTypeOK ==
    /\ relay \in {"direct", "forward"}
    /\ IF relay = "direct" THEN TypeOK ELSE ForwardTypeOK

(* When a relay ends because one side closed, all that side wrote has been   *)
(* passed on: in direct_tcpip either side, in tcpip-forward the remote.      *)
DrainedByRelay ==
    IF relay = "direct" THEN DrainedAtEnd ELSE DrainedDown

(* The way up of direct_tcpip is a pipe: partial writes, EAGAIN, errors and  *)
(* closes lose and repeat nothing.  That of tcpip-forward is not one.        *)
DirectUpIsPipe ==
    Up!Init /\ [][relay = "direct" => Up!Next]_<<upGiven, upOut>>

(* In direct_tcpip, once both sides have written what they will and stay,    *)
(* all of it comes through unless a call fails: neither direction's work is  *)
(* left undone for the other's.  It says nothing of a remote that goes on    *)
(* writing: that one keeps the loop of direct_tcpip.c:290 from returning to  *)
(* select, and nothing of the client's is received meanwhile.                *)
DirectForwardsAll ==
    relay = "direct" /\ Len(upGiven) = MaxUp /\ Len(dnGiven) = MaxDn ~>
        (upOut = upGiven /\ dnOut = dnGiven) \/ pc = "shutdown"
=============================================================================
