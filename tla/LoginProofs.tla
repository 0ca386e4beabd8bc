----------------------------- MODULE LoginProofs -----------------------------
(* What one login leaves behind, whichever call fails, proved with TLAPS.    *)
(* The login only makes calls of Handles, so everything proved of Handles    *)
(* holds of it; on top of that come the objects it does not touch, what the  *)
(* client holds at each stage, and the list of what goes out of scope.       *)
EXTENDS Login, HandlesProofs

(* The sequence s has each member of A once, and nothing else.               *)
Lists(s, A) ==
    /\ s \in Seq(Obj)
    /\ \A i, j \in DOMAIN s : s[i] = s[j] => i = j
    /\ {s[i] : i \in DOMAIN s} = A

(* The stages that have begun with a session, with its socket handed to it,  *)
(* with the handshake done, and with the channel under way to main.          *)
Stages == {"create", "socket", "session", "handshake", "handshaking",
           "authlist", "auth", "channel", "shell", "throw", "leave", "unwind",
           "made", "failed", "loop", "return", "ended", "terminated"}
AfterHandshake == {"authlist", "auth", "channel", "shell", "leave", "made", "loop"}

(* The objects of the login are the only ones there are.                     *)
Alone == \A o \in Obj \ {Lib, socket, session, channel} : phase[o] = "none"

(* What the client holds, stage by stage.                                    *)
Holds ==
    /\ pc \in {"handshake", "handshaking", "authlist", "auth", "channel", "shell"} => session \in held
    /\ pc \in {"shell", "leave"} => channel \in held
    /\ pc \in {"made", "loop"} => held = {channel}
    /\ pc \in {"return", "failed", "ended"} => held = {}

(* What is on its way out of scope is all that will be let go of.            *)
ScopeLists ==
    /\ pc = "leave" => Lists(scope, held \ {channel})
    /\ pc = "unwind" => Lists(scope, held)
    /\ pc \notin {"leave", "unwind"} => scope = <<>>

(* The channel is one of the session, the session's socket is the login's,   *)
(* and the native session was given its descriptor and handed no other.      *)
Joined ==
    /\ swapped = {}
    /\ pc \in {"create", "socket", "session", "handshake", "handshaking"} => startup[session] = "idle"
    /\ phase[channel] # "none" => parent[channel] = session
    /\ phase[session] = "dead" => sockOf[session] = None
    /\ pc \in {"handshaking"} \cup AfterHandshake => sockOf[session] = socket
    /\ pc \in AfterHandshake => natFd[session] = fd[socket]

(* The session blocks until main clears the mode.                            *)
BlocksYet ==
    pc \notin {"loop", "return", "ended", "terminated"} => blocking[session]

(* The client has its failure back with no destructor under way.             *)
Quiet == pc = "failed" => ClientRuns

LInv ==
    /\ pc \in Stages
    /\ Alone
    /\ Holds
    /\ ScopeLists
    /\ Joined
    /\ BlocksYet
    /\ Quiet
-----------------------------------------------------------------------------
(* The login is a client of the wrappers.                                    *)

(* Each step of the login is a call some client may make, or a step of a     *)
(* destructor or a call under way, or changes nothing of the wrappers.       *)
LEMMA StepsAreCalls == IInv /\ [LNext]_lvars => [Next]_vars
<1> USE LoginAssumption
<1> SUFFICES ASSUME IInv, LNext PROVE Next \/ UNCHANGED vars
  BY DEF lvars, vars
<1>1. CASE Connect \/ ConnectFails
  <2>1. PICK f \in Fds, connected \in BOOLEAN : NewSocket(socket, f, connected)
    BY <1>1, Zenon DEF Connect, ConnectFails
  <2> QED
    BY <2>1, Zenon DEF Next, Client
<1>2. CASE OpenSession \/ StartHandshake \/ EndHandshake \/ OpenChannel
  <2>1. \/ \E allocated \in BOOLEAN : NewSession(session, allocated)
        \/ Handshake(session, socket)
        \/ \E ok \in BOOLEAN : HandshakeNative(session, ok)
        \/ NewChannel(session, channel)
    BY <1>2, Zenon DEF OpenSession, StartHandshake, EndHandshake, OpenChannel
  <2> QED
    BY <2>1, Zenon DEF Next, Client, Unwind
<1>3. CASE LeaveScope \/ ReturnDrops
  <2>1. PICK o : Drop(o)
    BY <1>3, Zenon DEF LeaveScope, ReturnDrops
  <2>2. o \in Obj
    BY <2>1 DEF Drop, IInv, TypeOK
  <2> QED
    BY <2>1, <2>2, Zenon DEF Next, Client
<1>4. CASE Destroy
  <2>1. session \in Sessions /\ channel \in Channels /\ channel \in Handle /\ socket \in Sockets
    BY DEF Handle
  <2> QED
    BY <1>4, <2>1, Zenon DEF Destroy, Next, Unwind
<1>5. CASE Create \/ Uncaught \/ Return \/ Crash \/ ClearBlocking
  <2>1. CreateLib \/ Abort \/ Exit \/ NullSession(session) \/ SetBlocking(channel, FALSE)
    BY <1>5, Zenon DEF Create, Uncaught, Return, Crash, ClearBlocking
  <2>2. channel \in Sessions \cup Channels
    OBVIOUS
  <2> QED
    BY <2>1, <2>2, Zenon DEF Next, Client, Unwind
<1>6. CASE CreateFails \/ NoSocket \/ OpenChannelFails \/ Shell \/ Throw \/ Left \/ PasswordAuth
  BY <1>6, Zenon DEF CreateFails, NoSocket, OpenChannelFails, Shell, Throw, Left, PasswordAuth
<1>7. CASE AuthList
  BY <1>7, Zenon DEF AuthList, Next, Client
<1> QED
  BY <1>1, <1>2, <1>3, <1>4, <1>5, <1>6, <1>7, Zenon DEF LNext

(* The inductive invariant of Handles holds of the login.                    *)
LEMMA LoginKeepsInvariant == LSpec => []IInv
<1>1. LInit => IInv
  BY InitInv DEF LInit
<1>2. IInv /\ [LNext]_lvars => IInv'
  BY StepsAreCalls, NextInv
<1> QED
  BY <1>1, <1>2, PTL DEF LSpec

-----------------------------------------------------------------------------
(* Lists of pointers.                                                        *)

(* Lists of nothing, of one pointer that may be held, and of both of two.    *)
LEMMA NothingListed == Lists(<<>>, {})
  BY DEF Lists

LEMMA OneListed == ASSUME NEW o \in Obj PROVE Lists(Pointer(o), held \cap {o})
  BY DEF Lists, Pointer

LEMMA BothListed ==
  ASSUME NEW s, NEW A, NEW t, NEW B, Lists(s, A), Lists(t, B), A \cap B = {}
  PROVE  Lists(s \o t, A \cup B)
<1>1. s \in Seq(Obj) /\ t \in Seq(Obj) /\ s \o t \in Seq(Obj)
  BY DEF Lists
<1>2. Len(s) \in Nat /\ Len(t) \in Nat /\ Len(s \o t) = Len(s) + Len(t)
  BY <1>1
<1>3. \A i \in 1..Len(s) : (s \o t)[i] = s[i] /\ s[i] \in A
  BY <1>1 DEF Lists
<1>4. \A i \in 1..(Len(s) + Len(t)) : i > Len(s) => (s \o t)[i] = t[i - Len(s)] /\ t[i - Len(s)] \in B
  BY <1>1, <1>2 DEF Lists
<1>5. ASSUME NEW i \in DOMAIN (s \o t), NEW j \in DOMAIN (s \o t), (s \o t)[i] = (s \o t)[j]
      PROVE  i = j
  <2>1. i \in 1..(Len(s) + Len(t)) /\ j \in 1..(Len(s) + Len(t))
    BY <1>1, <1>2, <1>5
  <2>2. CASE i <= Len(s) /\ j <= Len(s)
    BY <1>1, <1>2, <1>3, <1>5, <2>1, <2>2 DEF Lists
  <2>3. CASE i > Len(s) /\ j > Len(s)
    BY <1>1, <1>2, <1>4, <1>5, <2>1, <2>3 DEF Lists
  <2>4. CASE (i > Len(s)) # (j > Len(s))
    BY <1>1, <1>2, <1>3, <1>4, <1>5, <2>1, <2>4
  <2> QED
    BY <1>2, <2>1, <2>2, <2>3, <2>4
<1>6. {(s \o t)[i] : i \in DOMAIN (s \o t)} = A \cup B
  <2>1. \A i \in DOMAIN (s \o t) : (s \o t)[i] \in A \cup B
    BY <1>1, <1>2, <1>3, <1>4
  <2>2. ASSUME NEW a \in A PROVE \E i \in DOMAIN (s \o t) : (s \o t)[i] = a
    <3>1. PICK i \in DOMAIN s : s[i] = a
      BY DEF Lists
    <3> QED
      BY <1>1, <1>2, <1>3, <3>1
  <2>3. ASSUME NEW b \in B PROVE \E i \in DOMAIN (s \o t) : (s \o t)[i] = b
    <3>1. PICK j \in DOMAIN t : t[j] = b
      BY DEF Lists
    <3>2. Len(s) + j \in DOMAIN (s \o t) /\ (s \o t)[Len(s) + j] = t[j]
      BY <1>1, <1>2, <3>1
    <3> QED
      BY <3>1, <3>2
  <2> QED
    BY <2>1, <2>2, <2>3
<1> QED
  BY <1>1, <1>5, <1>6 DEF Lists

(* What leaves scope first is in the list, and the rest is listed after it.  *)
LEMMA HeadListed ==
  ASSUME NEW s, NEW A, Lists(s, A), s # <<>>
  PROVE  Head(s) \in A /\ Lists(Tail(s), A \ {Head(s)})
<1>1. s \in Seq(Obj) /\ Len(s) \in Nat /\ Len(s) > 0 /\ Tail(s) \in Seq(Obj)
      /\ Len(Tail(s)) = Len(s) - 1 /\ Head(s) = s[1] /\ 1 \in DOMAIN s
  BY DEF Lists
<1>2. \A i \in DOMAIN Tail(s) : Tail(s)[i] = s[i + 1] /\ i + 1 \in DOMAIN s /\ i + 1 # 1
  BY <1>1
<1>3. \A i, j \in DOMAIN Tail(s) : Tail(s)[i] = Tail(s)[j] => i = j
  <2>1. \A i \in DOMAIN Tail(s) : i \in Nat
    BY <1>1
  <2> QED
    BY <1>2, <2>1 DEF Lists
<1>4. {Tail(s)[i] : i \in DOMAIN Tail(s)} = A \ {Head(s)}
  <2>1. \A i \in DOMAIN Tail(s) : Tail(s)[i] \in A \ {Head(s)}
    BY <1>1, <1>2 DEF Lists
  <2>2. ASSUME NEW a \in A \ {Head(s)} PROVE \E i \in DOMAIN Tail(s) : Tail(s)[i] = a
    <3>1. PICK j \in DOMAIN s : s[j] = a /\ j # 1
      BY <1>1 DEF Lists
    <3>2. j - 1 \in DOMAIN Tail(s) /\ Tail(s)[j - 1] = s[j]
      BY <1>1, <3>1
    <3> QED
      BY <3>1, <3>2
  <2> QED
    BY <2>1, <2>2
<1> QED
  BY <1>1, <1>3, <1>4 DEF Lists
-----------------------------------------------------------------------------
(* The stages of the login.                                                  *)

(* The four objects are four.                                                *)
LEMMA LoginObjects ==
    /\ socket \in Obj /\ session \in Obj /\ channel \in Obj /\ Lib \in Obj
    /\ channel \in Handle
    /\ socket # session /\ socket # channel /\ session # channel
    /\ Lib \notin {socket, session, channel}
    /\ None \notin Obj
  BY LoginAssumption, DistinctObjects DEF Obj, Handle

(* Nothing is held before the constructor runs.                              *)
LEMMA InitLogin == LInit => LInv
  BY LoginObjects, LoginAssumption DEF LInit, Init, LInv, Alone, Holds, ScopeLists, Joined,
     BlocksYet, Quiet, Stages, AfterHandshake, Obj

(* Calls that build the login, one after another.                            *)
LEMMA BuildKeeps ==
  ASSUME IInv, LInv,
         \/ Create \/ Connect \/ ConnectFails \/ OpenSession
         \/ StartHandshake \/ EndHandshake \/ OpenChannel
  PROVE  LInv'
<1> USE LoginObjects, LoginAssumption
<1> USE DEF IInv, TypeOK
<1>1. CASE Create
  BY <1>1 DEF LInv, Alone, Holds, ScopeLists, Joined, BlocksYet,
                  Quiet, Stages, AfterHandshake, Goto,
                  Create, CreateLib
<1>2. CASE Connect \/ ConnectFails
  BY <1>2 DEF LInv, Alone, Holds, ScopeLists, Joined, BlocksYet,
                  Quiet, Stages, AfterHandshake, Goto,
                  Connect, ConnectFails, NewSocket
<1>3. CASE OpenSession
  BY <1>3 DEF LInv, Alone, Holds, ScopeLists, Joined, BlocksYet,
                  Quiet, Stages, AfterHandshake, Goto,
                  OpenSession, NewSession
<1>4. CASE StartHandshake
  BY <1>4 DEF LInv, Alone, Holds, ScopeLists, Joined, BlocksYet,
                  Quiet, Stages, AfterHandshake, Goto,
                  StartHandshake, Handshake, HeldIsLive
<1>5. CASE EndHandshake
  BY <1>5 DEF LInv, Alone, Holds, ScopeLists, Joined, BlocksYet,
                  Quiet, Stages, AfterHandshake, Goto,
                  EndHandshake, HandshakeNative, FdFollows, HeldIsLive
<1>6. CASE OpenChannel
  BY <1>6 DEF LInv, Alone, Holds, ScopeLists, Joined, BlocksYet,
                  Quiet, Stages, AfterHandshake, Goto,
                  OpenChannel, NewChannel, NewHandle
<1> QED
  BY <1>1, <1>2, <1>3, <1>4, <1>5, <1>6

(* Calls that fail or change nothing of the wrappers.                        *)
LEMMA FailureKeeps ==
  ASSUME IInv, LInv,
         \/ CreateFails \/ NoSocket \/ AuthList \/ PasswordAuth \/ OpenChannelFails
         \/ Uncaught \/ Crash
  PROVE  LInv'
<1> USE LoginObjects, LoginAssumption
<1>1. CASE CreateFails \/ NoSocket \/ PasswordAuth \/ OpenChannelFails
  BY <1>1 DEF LInv, Alone, Holds, ScopeLists, Joined, BlocksYet,
                  Quiet, Stages, AfterHandshake, Goto,
                  CreateFails, NoSocket, PasswordAuth, OpenChannelFails, vars
<1>2. CASE AuthList
  BY <1>2 DEF LInv, Alone, Holds, ScopeLists, Joined, BlocksYet,
                  Quiet, Stages, AfterHandshake, Goto,
                  AuthList, Abort, vars
<1>3. CASE Uncaught \/ Crash
  BY <1>3 DEF LInv, Alone, Holds, ScopeLists, Joined, BlocksYet,
                  Quiet, Stages, AfterHandshake, Goto,
                  Uncaught, Crash, Abort, NullSession
<1> QED
  BY <1>1, <1>2, <1>3
(* Only the four objects of the login can be held.                           *)
LEMMA HeldByLogin ==
  ASSUME IInv, LInv
  PROVE  held \subseteq {Lib, socket, session, channel}
  BY DEF IInv, TypeOK, HeldIsLive, LInv, Alone

(* The locals are a list of what is held besides the channel.                *)
LEMMA LocalsListed ==
  ASSUME IInv, LInv
  PROVE  /\ Lists(Locals, held \ {channel})
         /\ Lists(Locals \o Members, held)
<1> USE LoginObjects
<1>1. Lists(Pointer(session), held \cap {session}) /\ Lists(Pointer(socket), held \cap {socket})
      /\ Lists(Pointer(Lib), held \cap {Lib}) /\ Lists(Members, held \cap {channel})
  BY OneListed DEF Members
<1>2. Lists(Pointer(session) \o Pointer(socket), (held \cap {session}) \cup (held \cap {socket}))
  BY <1>1, BothListed
<1>3. Lists((Pointer(session) \o Pointer(socket)) \o Pointer(Lib),
            ((held \cap {session}) \cup (held \cap {socket})) \cup (held \cap {Lib}))
  BY <1>1, <1>2, BothListed
<1>4. ((held \cap {session}) \cup (held \cap {socket})) \cup (held \cap {Lib}) = held \ {channel}
  BY HeldByLogin
<1>5. Lists(Locals, held \ {channel})
  BY <1>3, <1>4 DEF Locals
<1>6. Lists(Locals \o Members, (held \ {channel}) \cup (held \cap {channel}))
  BY <1>1, <1>5, BothListed
<1>7. (held \ {channel}) \cup (held \cap {channel}) = held
  OBVIOUS
<1> QED
  BY <1>5, <1>6, <1>7

(* The way out of the constructor, and main with the channel.                *)
LEMMA LeavingKeeps ==
  ASSUME IInv, LInv,
         \/ Shell \/ Throw \/ LeaveScope \/ Left \/ ClearBlocking \/ ReturnDrops \/ Return
  PROVE  LInv'
<1> USE LoginObjects, LoginAssumption
<1>1. CASE Shell
  <2>1. Lists(Locals, held \ {channel})
    BY LocalsListed
  <2> QED
    BY <1>1, <2>1 DEF LInv, Alone, Holds, ScopeLists, Joined, BlocksYet, Quiet,
                      Stages, AfterHandshake, Goto, Shell, Lists, vars
<1>2. CASE Throw
  <2>1. Lists(Locals \o Members, held)
    BY LocalsListed
  <2> QED
    BY <1>2, <2>1 DEF LInv, Alone, Holds, ScopeLists, Joined, BlocksYet, Quiet,
                      Stages, AfterHandshake, Goto, Throw, Lists, vars
<1>3. CASE LeaveScope
  <2>1. CASE pc = "leave"
    <3>1. Head(scope) \in held \ {channel} /\ Lists(Tail(scope), (held \ {channel}) \ {Head(scope)})
      BY <1>3, <2>1, HeadListed DEF LeaveScope, LInv, ScopeLists
    <3>2. held' = held \ {Head(scope)} /\ scope' = Tail(scope) /\ pc' = "leave"
      BY <1>3, <2>1 DEF LeaveScope, Drop
    <3>3. (held \ {channel}) \ {Head(scope)} = held' \ {channel}
      BY <3>2
    <3>4. Lists(scope', held' \ {channel})
      BY <3>1, <3>2, <3>3
    <3> QED
      BY <1>3, <2>1, <3>1, <3>2, <3>4
      DEF LInv, Alone, Holds, ScopeLists, Joined, BlocksYet, Quiet, Stages,
          AfterHandshake, LeaveScope, Drop, Lists
  <2>2. CASE pc = "unwind"
    <3>1. Lists(Tail(scope), held \ {Head(scope)})
      BY <1>3, <2>2, HeadListed DEF LeaveScope, LInv, ScopeLists
    <3>2. held' = held \ {Head(scope)} /\ scope' = Tail(scope) /\ pc' = "unwind"
      BY <1>3, <2>2 DEF LeaveScope, Drop
    <3> QED
      BY <1>3, <2>2, <3>1, <3>2
      DEF LInv, Alone, Holds, ScopeLists, Joined, BlocksYet, Quiet, Stages,
          AfterHandshake, LeaveScope, Drop, Lists
  <2> QED
    BY <1>3, <2>1, <2>2 DEF LeaveScope
<1>4. CASE Left
  <2>1. ASSUME NEW A, Lists(<<>>, A) PROVE A = {}
    BY <2>1 DEF Lists
  <2>2. /\ pc = "leave" => held \ {channel} = {}
        /\ pc = "unwind" => held = {}
    BY <1>4, <2>1 DEF Left, LInv, ScopeLists
  <2>3. ClientRuns'
    BY <1>4 DEF Left, ClientRuns, Dying, Doomed, Owned, Alive, vars
  <2> QED
    BY <1>4, <2>2, <2>3 DEF LInv, Alone, Holds, ScopeLists, Joined, BlocksYet, Quiet,
                            Stages, AfterHandshake, Goto, Left, vars
<1>5. CASE ClearBlocking \/ ReturnDrops \/ Return
  BY <1>5 DEF LInv, Alone, Holds, ScopeLists, Joined, BlocksYet,
                  Quiet, Stages, AfterHandshake, Goto,
                  ClearBlocking, ReturnDrops, Return, SetBlocking, Drop, Exit
<1> QED
  BY <1>1, <1>2, <1>3, <1>4, <1>5

(* Destructors take nothing from the client, and what the client holds, or   *)
(* the channel it holds needs, is not destroyed.                             *)
LEMMA DestructorsKeep ==
  ASSUME IInv, LInv, Destroy
  PROVE  LInv'
<1> USE LoginObjects, LoginAssumption
<1>1. UNCHANGED <<pc, scope, held, parent, fd, natFd, startup, blocking, calling, status, swapped>>
  BY DEF Destroy, ExitLib, CloseSocket, FreeChannel, FreeHandle, FreeSession,
         ReleaseSock, ReleaseLib, ReleaseSession
<1>2. phase' \in [Obj -> {"none", "live", "members", "dead", "failed"}]
      /\ \A o \in Obj : phase'[o] # phase[o] => phase[o] \in {"live", "members"} /\ Dying(o)
  BY DEF IInv, TypeOK, Destroy, ExitLib, CloseSocket, FreeChannel, FreeHandle, FreeSession,
         ReleaseSock, ReleaseLib, ReleaseSession, Dying, Doomed
<1>3. \/ sockOf' = sockOf
      \/ phase[session] = "members" /\ sockOf' = [sockOf EXCEPT ![session] = None]
  BY DEF Destroy, ExitLib, CloseSocket, FreeChannel, FreeHandle, FreeSession,
         ReleaseSock, ReleaseLib, ReleaseSession
<1>4. phase'[session] = "dead" /\ phase[session] # "dead" => sockOf'[session] = None
  BY DEF IInv, TypeOK, Destroy, ExitLib, CloseSocket, FreeChannel, FreeHandle, FreeSession,
         ReleaseSock, ReleaseLib, ReleaseSession
<1>5. session \in held \/ channel \in held => phase[session] = "live"
  BY DEF IInv, HeldIsLive, OwnersStand, Alive, LInv, Joined
<1>6. ~Quiet \/ pc # "failed"
  BY DEF Quiet, ClientRuns, Destroy, ExitLib, CloseSocket, FreeChannel, FreeHandle, FreeSession,
         ReleaseSock, ReleaseLib, ReleaseSession, Dying
<1>7. Alone'
  BY <1>2 DEF LInv, Alone
<1>8. Joined'
  BY <1>1, <1>2, <1>3, <1>4, <1>5 DEF LInv, Joined, Holds, AfterHandshake, IInv, TypeOK
<1> QED
  BY <1>1, <1>6, <1>7, <1>8 DEF LInv, Holds, ScopeLists, BlocksYet, Quiet, Stages, Lists

(* Every step of the login, and a step of nobody.                            *)
LEMMA LoginStep == IInv /\ LInv /\ [LNext]_lvars => LInv'
<1> SUFFICES ASSUME IInv, LInv, [LNext]_lvars PROVE LInv'
  OBVIOUS
<1>1. CASE UNCHANGED lvars
  BY <1>1 DEF lvars, vars, LInv, Alone, Holds, ScopeLists, Lists, Joined, BlocksYet, Quiet,
              ClientRuns, Dying, Doomed, Owned, Alive
<1> QED
  BY <1>1, BuildKeeps, FailureKeeps, LeavingKeeps, DestructorsKeep, Zenon DEF LNext

(* What is held and listed at each stage, for any number of other objects.   *)
THEOREM LoginInvariant == LSpec => []LInv
  BY InitLogin, LoginStep, LoginKeepsInvariant, PTL DEF LSpec

-----------------------------------------------------------------------------
(* The properties of the login.                                              *)

(* What is on its way out of scope is held, once each, so that no pointer is *)
(* let go of twice.                                                          *)
THEOREM LoginTypeCorrect == LSpec => []LTypeOK
<1>1. ASSUME NEW s, NEW A, Lists(s, A)
      PROVE  s \in Seq(Obj) /\ \A i, j \in DOMAIN s : s[i] \in A /\ (s[i] = s[j] => i = j)
  BY <1>1 DEF Lists
<1>2. ASSUME LInv PROVE \E A \in SUBSET held : Lists(scope, A)
  BY <1>2, NothingListed DEF LInv, ScopeLists
<1>3. ASSUME LInv PROVE LTypeOK
  <2>1. PICK A \in SUBSET held : Lists(scope, A)
    BY <1>2, <1>3
  <2> QED
    BY <1>1, <1>3, <2>1 DEF LInv, Stages, LTypeOK
<1> QED
  BY <1>3, LoginInvariant, PTL

(* Main, which holds the channel alone, has the session, the socket and the  *)
(* library alive under it, and the session's descriptor is that socket's,    *)
(* and open: what the locals of the constructor let go of, the channel keeps.*)
THEOREM ConnectionKept == LSpec => []ChannelKeepsConnection
<1> USE LoginObjects, LoginAssumption
<1>1. ASSUME IInv, LInv, pc \in {"made", "loop"}
      PROVE  /\ held = {channel}
             /\ \A o \in {channel, session, socket, Lib} : phase[o] = "live" /\ ~Dying(o)
             /\ native[channel] = "open" /\ native[session] = "open"
             /\ session \notin swapped
             /\ natFd[session] = fd[socket] /\ natFd[session] \in openFds
  <2>1. held = {channel}
    BY <1>1 DEF LInv, Holds
  <2>2. phase[channel] = "live" /\ native[channel] = "open" /\ parent[channel] = session
    BY <1>1, <2>1 DEF IInv, HeldIsLive, NativeFollows, LInv, Joined
  <2>3. phase[session] = "live" /\ native[session] = "open"
    BY <1>1, <2>2 DEF IInv, OwnersStand, Alive
  <2>4. sockOf[session] = socket /\ natFd[session] = fd[socket]
    BY <1>1 DEF LInv, Joined, AfterHandshake
  <2>5. phase[socket] = "live" /\ phase[Lib] = "live"
    BY <1>1, <2>3, <2>4 DEF IInv, OwnersStand, Alive, Obj
  <2>6. \A o \in {channel, session, socket, Lib} : Owned(o)
    BY <2>1, <2>2, <2>3, <2>4 DEF Owned, Alive
  <2>7. natFd[session] \in openFds
    BY <1>1, <2>4, <2>5 DEF IInv, SocketsHaveFds
  <2> QED
    BY <1>1, <2>1, <2>2, <2>3, <2>4, <2>5, <2>6, <2>7 DEF Dying, Doomed, LInv, Joined
<1>2. IInv /\ LInv => ChannelKeepsConnection
  BY <1>1 DEF ChannelKeepsConnection
<1> QED
  BY <1>2, LoginInvariant, LoginKeepsInvariant, PTL

(* A caller that catches the exception of a login, whichever call threw it,  *)
(* finds no pointer, no native object and no descriptor left, but for that   *)
(* of a socket whose connect failed.                                         *)
THEOREM FailedLoginIsClean == LSpec => []FailedLoginLeavesNothing
<1> USE LoginObjects, LoginAssumption, DistinctObjects
<1>1. ASSUME IInv, LInv, pc = "failed"
      PROVE  /\ held = {}
             /\ \A o \in {channel, session, socket} : ~Alive(o)
             /\ native[session] \in {"none", "freed"}
             /\ native[channel] \in {"none", "freed"}
             /\ phase[socket] # "failed" => openFds = {}
  <2>1. held = {} /\ \A o \in Obj : ~Dying(o)
    BY <1>1 DEF LInv, Holds, Quiet, ClientRuns
  <2>2. \A o \in Obj : phase[o] # "members" /\ (phase[o] = "live" => Owned(o))
    BY <2>1 DEF Dying, Doomed
  <2>3. \A h \in Handle : ~Alive(h)
    BY <2>1, <2>2 DEF Owned, Alive, Obj, Handle
  <2>4. \A s \in Sessions : ~Alive(s)
    BY <2>1, <2>2, <2>3 DEF Owned, Alive, Obj, Handle
  <2>5. sockOf[session] = None
    BY <1>1, <2>4 DEF IInv, TypeOK, NativeFollows, Alive, LInv, Joined
  <2>6. \A s \in Sessions : sockOf[s] = None
    BY <1>1, <2>5 DEF IInv, NativeFollows, LInv, Alone, Obj
  <2>7. \A k \in Sockets : phase[k] # "live"
    BY <2>1, <2>2, <2>6 DEF Owned, Obj, Handle
  <2>8. blocking[session]
    BY <1>1 DEF LInv, BlocksYet
  <2>9. native[session] \in {"none", "freed"}
    BY <1>1, <2>4, <2>8 DEF IInv, TypeOK, NativeFollows, OrphansWait, Alive
  <2>10. native[channel] \in {"none", "freed"}
    BY <1>1, <2>3, <2>9 DEF IInv, TypeOK, NativeFollows, OrphansWait, Alive, LInv, Joined
  <2>11. phase[socket] # "failed" => openFds = {}
    BY <1>1, <2>7 DEF IInv, FdsAccounted, LInv, Alone, Obj
  <2> QED
    BY <2>1, <2>3, <2>4, <2>7, <2>9, <2>10, <2>11, <1>1 DEF IInv, SocketsHaveFds, Alive
<1>2. IInv /\ LInv => FailedLoginLeavesNothing
  BY <1>1 DEF FailedLoginLeavesNothing
<1> QED
  BY <1>2, LoginInvariant, LoginKeepsInvariant, PTL
=============================================================================
