------------------------------- MODULE Handles -------------------------------
(* Lifetimes of the C++ wrapper objects of src/libssh2/*.hpp (Libssh2,       *)
(* Socket, Session, Channel, Listener) and of the native resources they own: *)
(* libssh2_init, a descriptor, a LIBSSH2_SESSION, a LIBSSH2_CHANNEL or a     *)
(* LIBSSH2_LISTENER.  A client holds shared_ptrs and calls the operations in *)
(* any order; dropping the last reference runs a destructor, whose body      *)
(* frees the native resource and whose members are then released one at a    *)
(* time, which may run further destructors.  Each of those is a step here.   *)
EXTENDS Naturals, FiniteSets

CONSTANTS
    Lib,        \* the singleton object behind Libssh2::ptr
    Sockets,    \* identities of Socket objects, each constructed at most once
    Sessions,   \* identities of Session objects
    Channels,   \* identities of Channel objects
    Listeners,  \* identities of Listener objects
    Fds,        \* the descriptors the process may have open
    None        \* a null reference

Handle == Channels \cup Listeners
Obj == {Lib} \cup Sockets \cup Sessions \cup Handle

ASSUME DistinctObjects ==
    /\ Lib \notin Sockets \cup Sessions \cup Handle
    /\ Sockets \cap Sessions = {}
    /\ Sockets \cap Handle = {}
    /\ Sessions \cap Handle = {}
    /\ None \notin Obj \cup Fds

VARIABLES
    phase,       \* where each wrapper object is in its life
    held,        \* the objects the client holds a shared_ptr to
    static,      \* Libssh2::ptr is set
    sockOf,      \* Session::sock
    parent,      \* Channel::session, Listener::session
    native,      \* the native object a Session, Channel or Listener wraps
    fd,          \* Socket::sock
    openFds,     \* the descriptors open in the process
    natFd,       \* the descriptor the native session reads and writes
    startup,     \* how far libssh2_session_handshake got on each session
    blocking,    \* the blocking mode of each native session
    calling,     \* the session inside Session::handshake, or None
    status,      \* of the process
    swapped      \* history: the sessions that were handed another socket while
                 \* their startup was under way; no action looks at it

vars == <<phase, held, static, sockOf, parent, native, fd, openFds, natFd,
          startup, blocking, calling, status, swapped>>

-----------------------------------------------------------------------------
(* Ownership.  An object owns what its shared_ptr members point to until the *)
(* members are released, after the body of its destructor ("members").       *)

Alive(o) == phase[o] \in {"live", "members"}

(* Faulty variant: a Channel or Listener keeps a raw pointer to its Session. *)
OwnedNotByHandle(o) ==
    \/ o \in held
    \/ o = Lib /\ (static \/ \E s \in Sessions : Alive(s))
    \/ o \in Sockets /\ \E s \in Sessions : sockOf[s] = o

(* Faulty variant: a Session remembers the descriptor and not the Socket.    *)
OwnedNotBySession(o) ==
    \/ o \in held
    \/ o = Lib /\ (static \/ \E s \in Sessions : Alive(s))
    \/ o \in Sessions /\ \E h \in Handle : Alive(h) /\ parent[h] = o

Owned(o) ==
    \/ o \in held
    \/ o = Lib /\ (static \/ \E s \in Sessions : Alive(s))
    \/ o \in Sockets /\ \E s \in Sessions : sockOf[s] = o
    \/ o \in Sessions /\ \E h \in Handle : Alive(h) /\ parent[h] = o

(* The last reference is gone: the next step is the destructor's body.       *)
Doomed(o) == phase[o] = "live" /\ ~Owned(o)
Dying(o) == Doomed(o) \/ phase[o] = "members"

(* Destructors nest: the one that a release triggered runs to its end before *)
(* the releasing one goes on.  A session destroys sockets and the library    *)
(* object, a channel or a listener destroys sessions.                        *)
Innermost(o) ==
    /\ o \in Sessions \cup Handle => \A p \in Sockets \cup {Lib} : ~Dying(p)
    /\ o \in Handle => \A p \in Sessions : ~Dying(p)

(* The client thread runs when no destructor and no call is under way.       *)
ClientRuns ==
    /\ status = "run"
    /\ calling = None
    /\ \A o \in Obj : ~Dying(o)

Init ==
    /\ phase = [o \in Obj |-> "none"]
    /\ held = {}
    /\ static = FALSE
    /\ sockOf = [s \in Sessions |-> None]
    /\ parent = [h \in Handle |-> None]
    /\ native = [o \in Sessions \cup Handle |-> "none"]
    /\ fd = [k \in Sockets |-> None]
    /\ openFds = {}
    /\ natFd = [s \in Sessions |-> None]
    /\ startup = [s \in Sessions |-> "idle"]
    /\ blocking = [s \in Sessions |-> TRUE]
    /\ calling = None
    /\ status = "run"
    /\ swapped = {}

-----------------------------------------------------------------------------
(* Client operations.  One that throws before it has changed anything (no    *)
(* descriptor left, libssh2_init failing, a NULL channel or listener) leaves *)
(* the state as it is and is no action; Channel and Listener constructors    *)
(* that throw only release a session pointer their caller still holds.       *)

(* Libssh2::create *)
CreateLib ==
    /\ ClientRuns
    /\ phase' = IF static THEN phase ELSE [phase EXCEPT ![Lib] = "live"]
    /\ static' = TRUE
    /\ held' = held \cup {Lib}
    /\ UNCHANGED <<sockOf, parent, native, fd, openFds, natFd, startup,
                   blocking, calling, status, swapped>>

(* Socket::create: ::socket, then connect when a host is given.  A connect   *)
(* that fails throws out of the constructor: ~Socket does not run and the    *)
(* descriptor stays open.                                                    *)
NewSocket(k, f, connected) ==
    /\ ClientRuns
    /\ phase[k] = "none"
    /\ f \notin openFds
    /\ fd' = [fd EXCEPT ![k] = f]
    /\ openFds' = openFds \cup {f}
    /\ phase' = [phase EXCEPT ![k] = IF connected THEN "live" ELSE "failed"]
    /\ held' = IF connected THEN held \cup {k} ELSE held
    /\ UNCHANGED <<static, sockOf, parent, native, natFd, startup, blocking,
                   calling, status, swapped>>

(* Libssh2::new_session: the result of libssh2_session_init is not checked.  *)
NewSession(s, allocated) ==
    /\ ClientRuns
    /\ Lib \in held
    /\ phase[s] = "none"
    /\ phase' = [phase EXCEPT ![s] = "live"]
    /\ native' = [native EXCEPT ![s] = IF allocated THEN "open" ELSE "null"]
    /\ held' = held \cup {s}
    /\ UNCHANGED <<static, sockOf, parent, fd, openFds, natFd, startup,
                   blocking, calling, status, swapped>>

(* Session::handshake, first statement: sock = _sock releases the socket the *)
(* session had, also when a startup has begun on that one and this one is    *)
(* another.                                                                  *)
Handshake(s, k) ==
    /\ ClientRuns
    /\ {s, k} \subseteq held
    /\ sockOf' = [sockOf EXCEPT ![s] = k]
    /\ calling' = s
    /\ swapped' = IF startup[s] = "begun" /\ sockOf[s] # k THEN swapped \cup {s} ELSE swapped
    /\ UNCHANGED <<phase, held, static, parent, native, fd, openFds, natFd,
                   startup, blocking, status>>

(* Session::handshake, second statement: libssh2_session_handshake takes the *)
(* descriptor unless a startup has begun, which goes on with the one it was  *)
(* begun with.  A failure and an EAGAIN are the same false to the client,    *)
(* and both leave the startup where it is.                                   *)
(* Faulty variant: the Socket is passed and not its descriptor.              *)
HandshakeNativeSocket(s, ok) ==
    /\ calling = s
    /\ \A o \in Obj : ~Dying(o)
    /\ native[s] = "open"
    /\ natFd' = [natFd EXCEPT ![s] = IF startup[s] = "begun" THEN @ ELSE sockOf[s]]
    /\ startup' = [startup EXCEPT ![s] = IF ok THEN "up" ELSE "begun"]
    /\ swapped' = IF startup[s] = "begun" THEN swapped ELSE swapped \ {s}
    /\ calling' = None
    /\ UNCHANGED <<phase, held, static, sockOf, parent, native, fd, openFds,
                   blocking, status>>

HandshakeNative(s, ok) ==
    /\ calling = s
    /\ \A o \in Obj : ~Dying(o)
    /\ native[s] = "open"
    /\ natFd' = [natFd EXCEPT ![s] = IF startup[s] = "begun" THEN @ ELSE fd[sockOf[s]]]
    /\ startup' = [startup EXCEPT ![s] = IF ok THEN "up" ELSE "begun"]
    /\ swapped' = IF startup[s] = "begun" THEN swapped ELSE swapped \ {s}
    /\ calling' = None
    /\ UNCHANGED <<phase, held, static, sockOf, parent, native, fd, openFds,
                   blocking, status>>

(* A Channel or a Listener takes the session pointer, then makes its native  *)
(* object, for which the transport has to be up.                             *)
NewHandle(s, h) ==
    /\ ClientRuns
    /\ s \in held
    /\ native[s] = "open" /\ startup[s] = "up"
    /\ phase[h] = "none"
    /\ phase' = [phase EXCEPT ![h] = "live"]
    /\ native' = [native EXCEPT ![h] = "open"]
    /\ parent' = [parent EXCEPT ![h] = s]
    /\ held' = held \cup {h}
    /\ UNCHANGED <<static, sockOf, fd, openFds, natFd, startup, blocking,
                   calling, status, swapped>>

(* Session::new_channel and Session::new_channel_tcpip                       *)
NewChannel(s, c) == NewHandle(s, c)

(* Session::new_listener                                                     *)
NewListener(s, l) == NewHandle(s, l)

(* set_blocking and clear_blocking of Session, and of Channel, where they    *)
(* act on the session of the channel.                                        *)
SetBlocking(o, mode) ==
    LET s == IF o \in Sessions THEN o ELSE parent[o] IN
    /\ ClientRuns
    /\ o \in held \cap (Sessions \cup Channels)
    /\ native[s] = "open"
    /\ blocking' = [blocking EXCEPT ![s] = mode]
    /\ UNCHANGED <<phase, held, static, sockOf, parent, native, fd, openFds,
                   natFd, startup, calling, status, swapped>>

(* The client's own pointer goes out of scope or is reset.                   *)
Drop(o) ==
    /\ ClientRuns
    /\ o \in held
    /\ held' = held \ {o}
    /\ UNCHANGED <<phase, static, sockOf, parent, native, fd, openFds, natFd,
                   startup, blocking, calling, status, swapped>>

(* main returns, its locals gone: Libssh2::ptr is destroyed.                 *)
Exit ==
    /\ ClientRuns
    /\ held = {}
    /\ static' = FALSE
    /\ status' = "ended"
    /\ UNCHANGED <<phase, held, sockOf, parent, native, fd, openFds, natFd,
                   startup, blocking, calling, swapped>>

(* The process dies in client code, of an exception that is not caught or of *)
(* a signal: no destructor runs.                                             *)
Abort ==
    /\ ClientRuns
    /\ status' = "crashed"
    /\ UNCHANGED <<phase, held, static, sockOf, parent, native, fd, openFds,
                   natFd, startup, blocking, calling, swapped>>

-----------------------------------------------------------------------------
(* Destructors.                                                              *)

(* ~Libssh2: libssh2_exit *)
ExitLib ==
    /\ Doomed(Lib)
    /\ phase' = [phase EXCEPT ![Lib] = "dead"]
    /\ UNCHANGED <<held, static, sockOf, parent, native, fd, openFds, natFd,
                   startup, blocking, calling, status, swapped>>

(* ~Socket: close(sock) *)
(* Faulty variant: no close.                                                 *)
CloseSocketNot(k) ==
    /\ Doomed(k)
    /\ phase' = [phase EXCEPT ![k] = "dead"]
    /\ UNCHANGED <<held, static, sockOf, parent, native, fd, openFds, natFd,
                   startup, blocking, calling, status, swapped>>

CloseSocket(k) ==
    /\ Doomed(k)
    /\ phase' = [phase EXCEPT ![k] = "dead"]
    /\ openFds' = openFds \ {fd[k]}
    /\ UNCHANGED <<held, static, sockOf, parent, native, fd, natFd, startup,
                   blocking, calling, status, swapped>>

(* The destructors of Channel and Listener free the native object and ignore *)
(* the result: an EAGAIN leaves that object with its native session.         *)
FreeHandle(h, again) ==
    /\ Doomed(h) /\ Innermost(h)
    /\ again => ~blocking[parent[h]]
    /\ native' = [native EXCEPT ![h] = IF again THEN "orphan" ELSE "freed"]
    /\ phase' = [phase EXCEPT ![h] = "members"]
    /\ UNCHANGED <<held, static, sockOf, parent, fd, openFds, natFd, startup,
                   blocking, calling, status, swapped>>

(* ~Channel: libssh2_channel_free *)
FreeChannel(c, again) == FreeHandle(c, again)

(* ~Listener: libssh2_channel_forward_cancel *)
CancelListener(l, again) == FreeHandle(l, again)

(* ~Session: libssh2_session_free, its result ignored.  It first frees the   *)
(* channels and listeners the native session still has, and gives up with    *)
(* EAGAIN when one of those does.                                            *)
Orphans(s) == {h \in Handle : native[h] = "orphan" /\ parent[h] = s}

(* Faulty variant: only the session itself is freed.                         *)
FreeSessionAlone(s, again) ==
    /\ Doomed(s) /\ Innermost(s)
    /\ native[s] = "open"
    /\ again => ~blocking[s] /\ Orphans(s) # {}
    /\ native' = [native EXCEPT ![s] = IF again THEN "orphan" ELSE "freed"]
    /\ phase' = [phase EXCEPT ![s] = "members"]
    /\ UNCHANGED <<held, static, sockOf, parent, fd, openFds, natFd, startup,
                   blocking, calling, status, swapped>>

FreeSession(s, again) ==
    /\ Doomed(s) /\ Innermost(s)
    /\ native[s] = "open"
    /\ again => ~blocking[s] /\ Orphans(s) # {}
    /\ native' = [o \in Sessions \cup Handle |->
                    IF again THEN IF o = s THEN "orphan" ELSE native[o]
                    ELSE IF o \in {s} \cup Orphans(s) THEN "freed" ELSE native[o]]
    /\ phase' = [phase EXCEPT ![s] = "members"]
    /\ UNCHANGED <<held, static, sockOf, parent, fd, openFds, natFd, startup,
                   blocking, calling, status, swapped>>

(* The members of a Session, last declared first: sock, then _libssh2.       *)
ReleaseSock(s) ==
    /\ phase[s] = "members" /\ Innermost(s)
    /\ sockOf[s] # None
    /\ sockOf' = [sockOf EXCEPT ![s] = None]
    /\ UNCHANGED <<phase, held, static, parent, native, fd, openFds, natFd,
                   startup, blocking, calling, status, swapped>>

ReleaseLib(s) ==
    /\ phase[s] = "members" /\ Innermost(s)
    /\ sockOf[s] = None
    /\ phase' = [phase EXCEPT ![s] = "dead"]
    /\ UNCHANGED <<held, static, sockOf, parent, native, fd, openFds, natFd,
                   startup, blocking, calling, status, swapped>>

(* The member of a Channel or a Listener: session.                           *)
ReleaseSession(h) ==
    /\ phase[h] = "members" /\ Innermost(h)
    /\ phase' = [phase EXCEPT ![h] = "dead"]
    /\ UNCHANGED <<held, static, sockOf, parent, native, fd, openFds, natFd,
                   startup, blocking, calling, status, swapped>>

(* A native call is handed the NULL of a failed libssh2_session_init.  (The  *)
(* other calls a client could make on it end it in the same way: Abort.)     *)
NullSession(s) ==
    /\ status = "run"
    /\ native[s] = "null"
    /\ \/ calling = s /\ \A o \in Obj : ~Dying(o)
       \/ Doomed(s) /\ Innermost(s)
    /\ status' = "crashed"
    /\ UNCHANGED <<phase, held, static, sockOf, parent, native, fd, openFds,
                   natFd, startup, blocking, calling, swapped>>

Client ==
    \/ CreateLib
    \/ \E k \in Sockets, f \in Fds, connected \in BOOLEAN : NewSocket(k, f, connected)
    \/ \E s \in Sessions, allocated \in BOOLEAN : NewSession(s, allocated)
    \/ \E s \in Sessions, k \in Sockets : Handshake(s, k)
    \/ \E s \in Sessions, c \in Channels : NewChannel(s, c)
    \/ \E s \in Sessions, l \in Listeners : NewListener(s, l)
    \/ \E o \in Sessions \cup Channels, mode \in BOOLEAN : SetBlocking(o, mode)
    \/ \E o \in Obj : Drop(o)
    \/ Exit
    \/ Abort

(* The steps of a call or of a cascade of destructors already under way.     *)
Unwind ==
    \/ ExitLib
    \/ \E k \in Sockets : CloseSocket(k)
    \/ \E c \in Channels, again \in BOOLEAN : FreeChannel(c, again)
    \/ \E l \in Listeners, again \in BOOLEAN : CancelListener(l, again)
    \/ \E s \in Sessions, again \in BOOLEAN : FreeSession(s, again)
    \/ \E s \in Sessions : ReleaseSock(s)
    \/ \E s \in Sessions : ReleaseLib(s)
    \/ \E h \in Handle : ReleaseSession(h)
    \/ \E s \in Sessions, ok \in BOOLEAN : HandshakeNative(s, ok)
    \/ \E s \in Sessions : NullSession(s)

Next == Client \/ Unwind

Spec == Init /\ [][Next]_vars

-----------------------------------------------------------------------------
(* Properties.                                                               *)

TypeOK ==
    /\ phase \in [Obj -> {"none", "live", "members", "dead", "failed"}]
    /\ held \subseteq Obj
    /\ static \in BOOLEAN
    /\ sockOf \in [Sessions -> Sockets \cup {None}]
    /\ parent \in [Handle -> Sessions \cup {None}]
    /\ native \in [Sessions \cup Handle -> {"none", "null", "open", "orphan", "freed"}]
    /\ fd \in [Sockets -> Fds \cup {None}]
    /\ openFds \subseteq Fds
    /\ natFd \in [Sessions -> Fds \cup {None}]
    /\ startup \in [Sessions -> {"idle", "begun", "up"}]
    /\ blocking \in [Sessions -> BOOLEAN]
    /\ calling \in Sessions \cup {None}
    /\ status \in {"run", "ended", "crashed"}
    /\ swapped \subseteq Sessions

(* Every object that is a client's to use, or whose destructor is about to   *)
(* make its native call, sits on what that call needs: a channel or listener *)
(* on a session whose native object is not freed, a session on an            *)
(* initialised library.  It is what the shared_ptr members are there for.    *)
StandsOnLive ==
    /\ \A h \in Handle : phase[h] = "live" =>
          /\ native[h] = "open"
          /\ phase[parent[h]] = "live"
          /\ native[parent[h]] = "open"
    /\ \A s \in Sessions : Alive(s) => phase[Lib] = "live"

(* The descriptor a native session writes to is open and is that of the      *)
(* Socket its wrapper keeps, so that the CLOSE a dying channel sends reaches *)
(* its own peer and never a descriptor closed or taken by somebody else.     *)
(* Between the two statements of handshake nothing is written.  One thing    *)
(* alone undoes it, and for that session alone: another socket handed to it  *)
(* before its startup was complete, which the class takes.                   *)
WritesOwnSocket ==
    \A s \in Sessions \ swapped :
        phase[s] = "live" /\ natFd[s] # None /\ calling # s =>
            /\ sockOf[s] # None
            /\ phase[sockOf[s]] = "live"
            /\ natFd[s] = fd[sockOf[s]]
            /\ natFd[s] \in openFds

(* Each open descriptor belongs to one Socket that is not destroyed, or to   *)
(* one whose constructor threw in connect: close runs once per descriptor,   *)
(* and connect failures are the only leak of descriptors.                    *)
FdsAccounted ==
    LET Holders == {k \in Sockets : phase[k] \in {"live", "failed"}} IN
    /\ openFds = {fd[k] : k \in Holders}
    /\ \A k, l \in Holders : fd[k] = fd[l] => k = l

(* A native object outlives its wrapper only with a session whose blocking   *)
(* mode was off when it died: a program that dies with every session         *)
(* blocking has freed all of them, the ones an earlier EAGAIN left behind    *)
(* included, and has closed the library.                                     *)
CleanExit ==
    status = "ended" /\ (\A o \in Obj : ~Dying(o)) =>
        /\ phase[Lib] # "live"
        /\ \A o \in Sessions \cup Handle : native[o] # "open"
        /\ (\A s \in Sessions : blocking[s]) =>
              \A o \in Sessions \cup Handle : native[o] # "orphan"

(* libssh2_session_free runs after every wrapper of its channels and         *)
(* listeners has freed its own, and the library is closed after the last     *)
(* session and socket: the reverse of the order of creation.  (A session     *)
(* whose socket was swapped under its startup has let go of the descriptor   *)
(* it uses.)                                                                 *)
ReverseOrder ==
    [][ /\ \A s \in Sessions : phase[s] = "live" /\ phase'[s] = "members" =>
              \A h \in Handle : parent[h] = s => native[h] # "open"
        /\ \A k \in Sockets : phase[k] = "live" /\ phase'[k] = "dead" =>
              \A s \in Sessions \ swapped :
                  native[s] = "open" /\ natFd[s] = fd[k] => calling = s
        /\ phase[Lib] = "live" /\ phase'[Lib] = "dead" =>
              \A s \in Sessions : native[s] # "open"
      ]_vars

-----------------------------------------------------------------------------
(* The inductive invariant behind them: what references and destructors      *)
(* maintain from one step to the next.                                       *)

(* The client points to live objects, and is inside a call on one it holds.  *)
HeldIsLive ==
    /\ \A o \in held : phase[o] = "live"
    /\ calling # None => calling \in held /\ sockOf[calling] # None
    /\ status = "ended" => held = {} /\ ~static /\ calling = None

(* Natives follow the phase of their wrappers.                               *)
NativeFollows ==
    /\ \A h \in Handle :
          /\ phase[h] = "none" => native[h] = "none" /\ parent[h] = None
          /\ phase[h] = "live" => native[h] = "open"
          /\ phase[h] \in {"members", "dead"} => native[h] \in {"orphan", "freed"}
          /\ phase[h] # "none" => parent[h] \in Sessions
          /\ phase[h] # "failed"
    /\ \A s \in Sessions :
          /\ phase[s] = "none" => native[s] = "none" /\ natFd[s] = None
                                    /\ sockOf[s] = None /\ startup[s] = "idle"
          /\ phase[s] = "live" => native[s] \in {"open", "null"}
          /\ phase[s] \in {"members", "dead"} => native[s] \in {"orphan", "freed"}
          /\ phase[s] # "failed"

(* What an owner points to is live until the owner lets go of it.            *)
OwnersStand ==
    /\ \A h \in Handle : Alive(h) => phase[parent[h]] = "live" /\ native[parent[h]] = "open"
    /\ \A s \in Sessions : sockOf[s] # None => phase[sockOf[s]] = "live"
    /\ \A s \in Sessions : Alive(s) => phase[Lib] = "live"
    /\ static => phase[Lib] = "live"

(* The native session's descriptor is that of the socket kept for it.        *)
FdFollows ==
    \A s \in Sessions \ swapped :
        phase[s] = "live" /\ (startup[s] = "begun" \/ (natFd[s] # None /\ calling # s)) =>
            sockOf[s] # None /\ natFd[s] = fd[sockOf[s]]

SocketsHaveFds ==
    /\ \A k \in Sockets : phase[k] \in {"live", "failed"} => fd[k] \in openFds
    /\ \A k \in Sockets : phase[k] # "members"
    /\ phase[Lib] # "members"

(* A native object left by an EAGAIN has its session, still to be freed or   *)
(* left in turn; a session that was left was not blocking.                   *)
OrphansWait ==
    /\ \A h \in Handle : native[h] = "orphan" => native[parent[h]] \in {"open", "orphan"}
    /\ \A s \in Sessions : native[s] = "orphan" => ~blocking[s]

IInv ==
    /\ TypeOK
    /\ HeldIsLive
    /\ NativeFollows
    /\ OwnersStand
    /\ FdFollows
    /\ SocketsHaveFds
    /\ FdsAccounted
    /\ OrphansWait
=============================================================================
