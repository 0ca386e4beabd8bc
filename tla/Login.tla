-------------------------------- MODULE Login --------------------------------
(* The constructor SSH::SSH of src/libssh2/SSH.hpp, and connect_to_ssh of    *)
(* src/ssh.old.cpp, as a client of Handles: the calls they make, the locals  *)
(* they hold, and what is left when one of the calls fails; then what main   *)
(* of src/ssh.cpp does with the channel it is given.                         *)
EXTENDS Handles, Sequences

CONSTANTS socket, session, channel    \* the objects of the one login

ASSUME LoginAssumption ==
    socket \in Sockets /\ session \in Sessions /\ channel \in Channels

VARIABLES
    pc,     \* the call the constructor, then main, is about to make
    scope   \* on the way out of the constructor: what goes out of scope, in order

lvars == <<vars, pc, scope>>

LInit == Init /\ pc = "create" /\ scope = <<>>

(* The locals of the constructor alive so far, last declared first.  The     *)
(* member SSH::channel follows when the constructor throws after setting it. *)
Pointer(o) == IF o \in held THEN <<o>> ELSE <<>>

(* Faulty variant: locals that were never constructed are destroyed too.     *)
LocalsAll == <<session, socket, Lib>>

Locals == Pointer(session) \o Pointer(socket) \o Pointer(Lib)

(* Faulty variant: the channel leaks when the constructor throws.            *)
MembersLeaked == <<>>

Members == Pointer(channel)

Goto(here, there) == pc = here /\ pc' = there /\ UNCHANGED scope

(* throw: the exception unwinds the constructor when some caller catches it, *)
(* as the return of nullptr in connect_to_ssh does; main of ssh.cpp catches  *)
(* nothing, and the process is terminated where it stands.                   *)
Throw ==
    /\ ClientRuns
    /\ pc = "throw"
    /\ pc' = "unwind"
    /\ scope' = Locals \o Members
    /\ UNCHANGED vars

Uncaught == Goto("throw", "terminated") /\ Abort

(* Faulty variant: the library is created by whoever needs it, too late.     *)
CreateSkipped == Goto("create", "socket") /\ ClientRuns /\ UNCHANGED vars

Create == Goto("create", "socket") /\ CreateLib

CreateFails == ClientRuns /\ Goto("create", "throw") /\ UNCHANGED vars

Connect ==
    \E f \in Fds : Goto("socket", "session") /\ NewSocket(socket, f, TRUE)

ConnectFails ==
    \E f \in Fds : Goto("socket", "throw") /\ NewSocket(socket, f, FALSE)

(* ::socket finds no descriptor. *)
NoSocket == ClientRuns /\ Goto("socket", "throw") /\ UNCHANGED vars

OpenSession ==
    \E allocated \in BOOLEAN : Goto("session", "handshake") /\ NewSession(session, allocated)

StartHandshake == Goto("handshake", "handshaking") /\ Handshake(session, socket)

EndHandshake ==
    \E ok \in BOOLEAN :
        /\ Goto("handshaking", IF ok THEN "authlist" ELSE "throw")
        /\ HandshakeNative(session, ok)

(* is_password_auth_supported: strstr on the list the server sent.  The list *)
(* is NULL after an error, or when the user needs no authentication, and     *)
(* strstr of NULL is undefined: the process crashes.                         *)
AuthList ==
    /\ ClientRuns
    /\ \/ Goto("authlist", "auth") /\ UNCHANGED vars
       \/ Goto("authlist", "throw") /\ UNCHANGED vars
       \/ Goto("authlist", "terminated") /\ Abort

PasswordAuth ==
    /\ ClientRuns
    /\ \/ Goto("auth", "channel")
       \/ Goto("auth", "throw")
    /\ UNCHANGED vars

OpenChannel == Goto("channel", "shell") /\ NewChannel(session, channel)

OpenChannelFails == ClientRuns /\ Goto("channel", "throw") /\ UNCHANGED vars

(* Faulty variant: the channel is a local and not the member.                *)
ShellOnLocal ==
    /\ ClientRuns
    /\ \/ pc = "shell" /\ pc' = "leave" /\ scope' = Members \o Locals
       \/ Goto("shell", "throw")
    /\ UNCHANGED vars

(* Channel::shell, the last call: a pty, then a shell on it.                 *)
Shell ==
    /\ ClientRuns
    /\ \/ pc = "shell" /\ pc' = "leave" /\ scope' = Locals
       \/ Goto("shell", "throw")
    /\ UNCHANGED vars

(* The end of a scope: one pointer at a time, each with what it destroys.    *)
(* Faulty variant: only the last local is destroyed.                          *)
LeaveScopeSkipped ==
    /\ pc \in {"leave", "unwind"}
    /\ scope # <<>>
    /\ Drop(Head(scope))
    /\ scope' = <<>>
    /\ UNCHANGED pc

LeaveScope ==
    /\ pc \in {"leave", "unwind"}
    /\ scope # <<>>
    /\ Drop(Head(scope))
    /\ scope' = Tail(scope)
    /\ UNCHANGED pc

Left ==
    /\ ClientRuns
    /\ scope = <<>>
    /\ \/ Goto("leave", "made")
       \/ Goto("unwind", "failed")
    /\ UNCHANGED vars

(* main: channel->clear_blocking(), the loop of ShellClient, and the return. *)
ClearBlocking == Goto("made", "loop") /\ SetBlocking(channel, FALSE)
ReturnDrops == Goto("loop", "return") /\ Drop(channel)
Return == (Goto("return", "ended") \/ Goto("failed", "ended")) /\ Exit

(* Destructors run inside the call that triggered them.                      *)
Destroy ==
    /\ \/ ExitLib
       \/ CloseSocket(socket)
       \/ \E again \in BOOLEAN : FreeChannel(channel, again)
       \/ \E again \in BOOLEAN : FreeSession(session, again)
       \/ ReleaseSock(session)
       \/ ReleaseLib(session)
       \/ ReleaseSession(channel)
    /\ UNCHANGED <<pc, scope>>

Crash == Goto("handshaking", "terminated") /\ NullSession(session)

LNext ==
    \/ Create \/ CreateFails \/ Connect \/ ConnectFails \/ NoSocket \/ OpenSession \/ StartHandshake
    \/ EndHandshake \/ AuthList \/ PasswordAuth \/ OpenChannel
    \/ OpenChannelFails \/ Shell \/ Throw \/ Uncaught \/ LeaveScope \/ Left
    \/ ClearBlocking \/ ReturnDrops \/ Return \/ Destroy \/ Crash

LSpec == LInit /\ [][LNext]_lvars

(* The program runs on; the user ends the loop of main when they please.     *)
LFairSpec == LSpec /\ WF_lvars(pc # "loop" /\ LNext)

-----------------------------------------------------------------------------
(* Properties.                                                               *)

(* Types, and: what is on its way out of scope is held, once each.           *)
LTypeOK ==
    /\ pc \in {"create", "socket", "session", "handshake", "handshaking",
              "authlist", "auth", "channel", "shell", "throw", "leave", "unwind",
              "made", "failed", "loop", "return", "ended", "terminated"}
    /\ scope \in Seq(Obj)
    /\ \A i, j \in DOMAIN scope : scope[i] \in held /\ (scope[i] = scope[j] => i = j)

(* The constructor's locals are gone and the client has the channel alone:   *)
(* the session, its socket and the library are still there under it, and the *)
(* native session uses the open descriptor of that socket: this client hands *)
(* its session no second one.                                                *)
ChannelKeepsConnection ==
    pc \in {"made", "loop"} =>
        /\ held = {channel}
        /\ \A o \in {channel, session, socket, Lib} : phase[o] = "live" /\ ~Dying(o)
        /\ native[channel] = "open" /\ native[session] = "open"
        /\ session \notin swapped
        /\ natFd[session] = fd[socket] /\ natFd[session] \in openFds

(* A login that fails and whose exception is caught, whichever call failed,  *)
(* leaves no pointer, no native object and no descriptor, but for the one of *)
(* a socket that was never connected: the client may try again.              *)
FailedLoginLeavesNothing ==
    pc = "failed" =>
        /\ held = {}
        /\ \A o \in {channel, session, socket} : ~Alive(o)
        /\ native[session] \in {"none", "freed"}
        /\ native[channel] \in {"none", "freed"}
        /\ phase[socket] # "failed" => openFds = {}

(* The constructor comes to an answer: main has its channel, or the process  *)
(* has come to its end, and no call on the way is one that the wrappers as   *)
(* the calls before have left them cannot take (on a pointer not yet held or *)
(* let go of, on a transport that is not up): the login would stop there.    *)
NoCallRefused == pc = "create" ~> pc \in {"loop", "ended", "terminated"}

(* Once a failed login is caught, or main returns, the process comes to an   *)
(* end with the library closed and nothing but the descriptor of a socket    *)
(* whose connect failed still open.                                          *)
LoginUnwinds ==
    pc \in {"unwind", "return"} ~>
        /\ status = "ended"
        /\ phase[Lib] \in {"none", "dead"}
        /\ phase[socket] # "failed" => openFds = {}
=============================================================================
