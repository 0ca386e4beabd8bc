--------------------------- MODULE HandlesProofs ---------------------------
(* IInv of Handles is inductive, for any numbers of objects and descriptors, *)
(* and the safety properties of Handles follow from it.  One lemma for each  *)
(* action, in the order of Handles; each has a step for every conjunct of    *)
(* IInv that the action can disturb, and one for the rest.                   *)
EXTENDS Handles, TLAPS

(* The library object becomes live, held and static at once.                 *)
LEMMA CreateLibInv ==
    ASSUME IInv, CreateLib
    PROVE  IInv'
<1>1. TypeOK'
  BY DEF IInv, TypeOK, Obj, CreateLib
<1>2. HeldIsLive'
  BY DEF IInv, TypeOK, HeldIsLive, OwnersStand, ClientRuns, Obj, CreateLib
<1>3. NativeFollows'
  BY DistinctObjects DEF IInv, NativeFollows, CreateLib
<1>4. OwnersStand'
  BY DistinctObjects DEF IInv, TypeOK, OwnersStand, Alive, Obj, CreateLib
<1>5. FdFollows'
  BY DistinctObjects DEF IInv, FdFollows, CreateLib
<1>6. SocketsHaveFds'
  BY DistinctObjects DEF IInv, SocketsHaveFds, CreateLib
<1>7. FdsAccounted'
  BY DistinctObjects DEF IInv, FdsAccounted, CreateLib
<1>8. OrphansWait'
  BY DEF IInv, OrphansWait, CreateLib
<1> QED
  BY <1>1, <1>2, <1>3, <1>4, <1>5, <1>6, <1>7, <1>8 DEF IInv

(* A new socket takes a descriptor nobody has; one whose connect failed      *)
(* keeps it and is held by nobody.                                           *)
LEMMA NewSocketInv ==
    ASSUME IInv, NEW k \in Sockets, NEW f \in Fds, NEW connected \in BOOLEAN,
           NewSocket(k, f, connected)
    PROVE  IInv'
<1>1. TypeOK'
  BY DEF IInv, TypeOK, Obj, NewSocket
<1>2. HeldIsLive'
  BY DEF IInv, TypeOK, HeldIsLive, ClientRuns, Obj, NewSocket
<1>3. NativeFollows'
  BY DistinctObjects DEF IInv, NativeFollows, NewSocket
<1>4. OwnersStand'
  BY DistinctObjects DEF IInv, OwnersStand, Alive, NewSocket
<1>5. FdFollows'
  BY DEF IInv, NativeFollows, OwnersStand, FdFollows, NewSocket
<1>6. SocketsHaveFds'
  BY DEF IInv, TypeOK, SocketsHaveFds, NewSocket
<1>7. FdsAccounted'
  BY DEF IInv, TypeOK, FdsAccounted, Obj, NewSocket
<1>8. OrphansWait'
  BY DEF IInv, OrphansWait, NewSocket
<1> QED
  BY <1>1, <1>2, <1>3, <1>4, <1>5, <1>6, <1>7, <1>8 DEF IInv

(* A new session has no socket and no descriptor yet.                        *)
LEMMA NewSessionInv ==
    ASSUME IInv, NEW s \in Sessions, NEW allocated \in BOOLEAN,
           NewSession(s, allocated)
    PROVE  IInv'
<1>1. TypeOK'
  BY DEF IInv, TypeOK, Obj, NewSession
<1>2. HeldIsLive'
  BY DEF IInv, TypeOK, HeldIsLive, Obj, NewSession
<1>3. NativeFollows'
  BY DistinctObjects DEF IInv, TypeOK, NativeFollows, Obj, NewSession
<1>4. OwnersStand'
  BY DistinctObjects DEF IInv, HeldIsLive, OwnersStand, Alive, NewSession
<1>5. FdFollows'
  BY DEF IInv, NativeFollows, FdFollows, NewSession
<1>6. SocketsHaveFds'
  BY DistinctObjects DEF IInv, SocketsHaveFds, NewSession
<1>7. FdsAccounted'
  BY DistinctObjects DEF IInv, FdsAccounted, NewSession
<1>8. OrphansWait'
  BY DEF IInv, NativeFollows, OrphansWait, NewSession
<1> QED
  BY <1>1, <1>2, <1>3, <1>4, <1>5, <1>6, <1>7, <1>8 DEF IInv

(* The session's socket becomes one the client holds; FdFollows says nothing *)
(* of the session until the native call, unless its startup had begun, and   *)
(* then the socket is the same, or the session is one of the swapped.        *)
LEMMA HandshakeInv ==
    ASSUME IInv, NEW s \in Sessions, NEW k \in Sockets,
           Handshake(s, k)
    PROVE  IInv'
<1>1. TypeOK'
  BY DEF IInv, TypeOK, Handshake
<1>2. HeldIsLive'
  BY DistinctObjects DEF IInv, TypeOK, HeldIsLive, Handshake
<1>3. NativeFollows'
  BY DEF IInv, HeldIsLive, NativeFollows, Handshake
<1>4. OwnersStand'
  BY DEF IInv, HeldIsLive, OwnersStand, Alive, Handshake
<1>5. FdFollows'
  BY DistinctObjects DEF IInv, FdFollows, ClientRuns, Obj, Handshake
<1>6. SocketsHaveFds' /\ FdsAccounted' /\ OrphansWait'
  BY DEF IInv, SocketsHaveFds, FdsAccounted, OrphansWait, Handshake
<1> QED
  BY <1>1, <1>2, <1>3, <1>4, <1>5, <1>6 DEF IInv

(* The native session takes the descriptor of the socket kept for it.        *)
LEMMA HandshakeNativeInv ==
    ASSUME IInv, NEW s \in Sessions, NEW ok \in BOOLEAN,
           HandshakeNative(s, ok)
    PROVE  IInv'
<1>1. TypeOK'
  BY DistinctObjects DEF IInv, TypeOK, HeldIsLive, Obj, HandshakeNative
<1>2. HeldIsLive'
  BY DEF IInv, HeldIsLive, HandshakeNative
<1>3. NativeFollows'
  BY DEF IInv, NativeFollows, HandshakeNative
<1>4. FdFollows'
  BY DistinctObjects DEF IInv, TypeOK, HeldIsLive, FdFollows, Obj,
     HandshakeNative
<1>5. OwnersStand' /\ SocketsHaveFds' /\ FdsAccounted' /\ OrphansWait'
  BY DEF IInv, OwnersStand, SocketsHaveFds, FdsAccounted, OrphansWait,
     Alive, HandshakeNative
<1> QED
  BY <1>1, <1>2, <1>3, <1>4, <1>5 DEF IInv

(* A channel or a listener is born on a session the client holds.            *)
LEMMA NewHandleInv ==
    ASSUME IInv, NEW s \in Sessions, NEW h \in Handle,
           NewHandle(s, h)
    PROVE  IInv'
<1>1. TypeOK'
  BY DEF IInv, TypeOK, Obj, NewHandle
<1>2. HeldIsLive'
  BY DEF IInv, TypeOK, HeldIsLive, Obj, NewHandle
<1>3. NativeFollows'
  BY DEF IInv, TypeOK, NativeFollows, Obj, NewHandle
<1>4. OwnersStand'
  BY DEF IInv, TypeOK, NativeFollows, OwnersStand, Alive, NewHandle
<1>5. FdFollows'
  BY DEF IInv, NativeFollows, FdFollows, NewHandle
<1>6. SocketsHaveFds'
  BY DistinctObjects DEF IInv, SocketsHaveFds, NewHandle
<1>7. FdsAccounted'
  BY DistinctObjects DEF IInv, FdsAccounted, NewHandle
<1>8. OrphansWait'
  BY DEF IInv, OrphansWait, NewHandle
<1> QED
  BY <1>1, <1>2, <1>3, <1>4, <1>5, <1>6, <1>7, <1>8 DEF IInv

(* Only a session whose native object is open changes its mode, so no        *)
(* orphan's does.                                                            *)
LEMMA SetBlockingInv ==
    ASSUME IInv, NEW o \in Sessions \cup Channels, NEW mode \in BOOLEAN,
           SetBlocking(o, mode)
    PROVE  IInv'
<1>1. TypeOK'
  BY DEF IInv, TypeOK, SetBlocking
<1>2. OrphansWait'
  BY DEF IInv, OrphansWait, SetBlocking
<1>3. HeldIsLive' /\ NativeFollows' /\ OwnersStand' /\ FdFollows' /\ SocketsHaveFds' /\ FdsAccounted'
  BY DEF IInv, HeldIsLive, NativeFollows, OwnersStand, FdFollows,
     SocketsHaveFds, FdsAccounted, Alive, SetBlocking
<1> QED
  BY <1>1, <1>2, <1>3 DEF IInv

(* Dropping a pointer changes no phase: the destructor is a step of its own. *)
LEMMA DropInv ==
    ASSUME IInv, NEW o \in Obj,
           Drop(o)
    PROVE  IInv'
<1>1. TypeOK'
  BY DEF IInv, TypeOK, Drop
<1>2. HeldIsLive'
  BY DEF IInv, HeldIsLive, ClientRuns, Drop
<1>3. NativeFollows' /\ OwnersStand' /\ FdFollows' /\ SocketsHaveFds' /\ FdsAccounted' /\ OrphansWait'
  BY DEF IInv, NativeFollows, OwnersStand, FdFollows, SocketsHaveFds,
     FdsAccounted, OrphansWait, Alive, Drop
<1> QED
  BY <1>1, <1>2, <1>3 DEF IInv

(* At the end nothing is held.                                               *)
LEMMA ExitInv ==
    ASSUME IInv, Exit
    PROVE  IInv'
<1>1. TypeOK'
  BY DEF IInv, TypeOK, Exit
<1>2. HeldIsLive'
  BY DEF IInv, HeldIsLive, Exit
<1>3. OwnersStand'
  BY DEF IInv, OwnersStand, Alive, Exit
<1>4. NativeFollows' /\ FdFollows' /\ SocketsHaveFds' /\ FdsAccounted' /\ OrphansWait'
  BY DEF IInv, NativeFollows, FdFollows, SocketsHaveFds, FdsAccounted,
     OrphansWait, Exit
<1> QED
  BY <1>1, <1>2, <1>3, <1>4 DEF IInv

LEMMA AbortInv ==
    ASSUME IInv, Abort
    PROVE  IInv'
<1>1. TypeOK'
  BY DEF IInv, TypeOK, Abort
<1>2. HeldIsLive'
  BY DEF IInv, HeldIsLive, Abort
<1>3. NativeFollows' /\ OwnersStand' /\ FdFollows' /\ SocketsHaveFds' /\ FdsAccounted' /\ OrphansWait'
  BY DEF IInv, NativeFollows, OwnersStand, FdFollows, SocketsHaveFds,
     FdsAccounted, OrphansWait, Alive, Abort
<1> QED
  BY <1>1, <1>2, <1>3 DEF IInv

(* No session is alive when the library is closed.                           *)
LEMMA ExitLibInv ==
    ASSUME IInv, ExitLib
    PROVE  IInv'
<1>1. TypeOK'
  BY DEF IInv, TypeOK, ExitLib
<1>2. HeldIsLive'
  BY DEF IInv, HeldIsLive, Doomed, Owned, ExitLib
<1>3. NativeFollows'
  BY DistinctObjects DEF IInv, NativeFollows, ExitLib
<1>4. OwnersStand'
  BY DEF IInv, TypeOK, NativeFollows, OwnersStand, Alive, Doomed, Owned,
     ExitLib
<1>5. FdFollows'
  BY DEF IInv, FdFollows, ExitLib
<1>6. SocketsHaveFds'
  BY DEF IInv, SocketsHaveFds, ExitLib
<1>7. FdsAccounted'
  BY DistinctObjects DEF IInv, FdsAccounted, ExitLib
<1>8. OrphansWait'
  BY DEF IInv, OrphansWait, ExitLib
<1> QED
  BY <1>1, <1>2, <1>3, <1>4, <1>5, <1>6, <1>7, <1>8 DEF IInv

(* No session has the socket when it is closed, and no other socket has its  *)
(* descriptor.                                                               *)
LEMMA CloseSocketInv ==
    ASSUME IInv, NEW k \in Sockets,
           CloseSocket(k)
    PROVE  IInv'
<1>1. TypeOK'
  BY DEF IInv, TypeOK, CloseSocket
<1>2. HeldIsLive'
  BY DEF IInv, HeldIsLive, Doomed, Owned, CloseSocket
<1>3. NativeFollows'
  BY DistinctObjects DEF IInv, NativeFollows, CloseSocket
<1>4. OwnersStand'
  BY DEF IInv, NativeFollows, OwnersStand, Alive, Doomed, Owned, CloseSocket
<1>5. FdFollows'
  BY DEF IInv, FdFollows, CloseSocket
<1>6. SocketsHaveFds'
  BY DEF IInv, TypeOK, SocketsHaveFds, FdsAccounted, Doomed, Obj,
     CloseSocket
<1>7. FdsAccounted'
  BY DEF IInv, TypeOK, FdsAccounted, Doomed, Obj, CloseSocket
<1>8. OrphansWait'
  BY DEF IInv, OrphansWait, CloseSocket
<1> QED
  BY <1>1, <1>2, <1>3, <1>4, <1>5, <1>6, <1>7, <1>8 DEF IInv

(* The session under a dying channel or listener is still live.              *)
LEMMA FreeHandleInv ==
    ASSUME IInv, NEW h \in Handle, NEW again \in BOOLEAN,
           FreeHandle(h, again)
    PROVE  IInv'
<1>1. TypeOK'
  BY DEF IInv, TypeOK, FreeHandle
<1>2. HeldIsLive'
  BY DEF IInv, HeldIsLive, Doomed, Owned, FreeHandle
<1>3. NativeFollows'
  BY DEF IInv, TypeOK, NativeFollows, Doomed, Obj, FreeHandle
<1>4. OwnersStand'
  BY DEF IInv, TypeOK, NativeFollows, OwnersStand, Alive, Doomed, Owned,
     FreeHandle
<1>5. FdFollows'
  BY DEF IInv, FdFollows, FreeHandle
<1>6. SocketsHaveFds'
  BY DistinctObjects DEF IInv, SocketsHaveFds, FreeHandle
<1>7. FdsAccounted'
  BY DistinctObjects DEF IInv, FdsAccounted, FreeHandle
<1>8. OrphansWait'
  BY DistinctObjects DEF IInv, NativeFollows, OwnersStand, OrphansWait,
     Alive, Doomed, FreeHandle
<1> QED
  BY <1>1, <1>2, <1>3, <1>4, <1>5, <1>6, <1>7, <1>8 DEF IInv

(* No channel or listener is alive on a dying session.                       *)
LEMMA FreeSessionInv ==
    ASSUME IInv, NEW s \in Sessions, NEW again \in BOOLEAN,
           FreeSession(s, again)
    PROVE  IInv'
<1>1. TypeOK'
  BY DEF IInv, TypeOK, FreeSession
<1>2. HeldIsLive'
  BY DEF IInv, HeldIsLive, Doomed, Owned, FreeSession
<1>3. NativeFollows'
  BY DEF IInv, TypeOK, NativeFollows, Orphans, Obj, FreeSession
<1>4. OwnersStand'
  BY DEF IInv, TypeOK, NativeFollows, OwnersStand, Orphans, Alive, Doomed,
     Owned, FreeSession
<1>5. FdFollows'
  BY DEF IInv, FdFollows, FreeSession
<1>6. SocketsHaveFds'
  BY DistinctObjects DEF IInv, SocketsHaveFds, FreeSession
<1>7. FdsAccounted'
  BY DistinctObjects DEF IInv, FdsAccounted, FreeSession
<1>8. OrphansWait'
  BY DistinctObjects DEF IInv, NativeFollows, OrphansWait, Orphans,
     FreeSession
<1> QED
  BY <1>1, <1>2, <1>3, <1>4, <1>5, <1>6, <1>7, <1>8 DEF IInv

(* Only a session past its destructor's body lets its socket go.             *)
LEMMA ReleaseSockInv ==
    ASSUME IInv, NEW s \in Sessions,
           ReleaseSock(s)
    PROVE  IInv'
<1>1. TypeOK'
  BY DEF IInv, TypeOK, ReleaseSock
<1>2. HeldIsLive'
  BY DEF IInv, HeldIsLive, ReleaseSock
<1>3. NativeFollows'
  BY DEF IInv, NativeFollows, ReleaseSock
<1>4. OwnersStand'
  BY DEF IInv, OwnersStand, Alive, ReleaseSock
<1>5. FdFollows'
  BY DEF IInv, FdFollows, ReleaseSock
<1>6. SocketsHaveFds' /\ FdsAccounted' /\ OrphansWait'
  BY DEF IInv, SocketsHaveFds, FdsAccounted, OrphansWait, ReleaseSock
<1> QED
  BY <1>1, <1>2, <1>3, <1>4, <1>5, <1>6 DEF IInv

LEMMA ReleaseLibInv ==
    ASSUME IInv, NEW s \in Sessions,
           ReleaseLib(s)
    PROVE  IInv'
<1>1. TypeOK'
  BY DEF IInv, TypeOK, ReleaseLib
<1>2. HeldIsLive'
  BY DEF IInv, HeldIsLive, ReleaseLib
<1>3. NativeFollows'
  BY DEF IInv, NativeFollows, ReleaseLib
<1>4. OwnersStand'
  BY DEF IInv, OwnersStand, Alive, ReleaseLib
<1>5. FdFollows'
  BY DEF IInv, FdFollows, ReleaseLib
<1>6. SocketsHaveFds'
  BY DEF IInv, SocketsHaveFds, ReleaseLib
<1>7. FdsAccounted'
  BY DEF IInv, FdsAccounted, ReleaseLib
<1>8. OrphansWait'
  BY DEF IInv, OrphansWait, ReleaseLib
<1> QED
  BY <1>1, <1>2, <1>3, <1>4, <1>5, <1>6, <1>7, <1>8 DEF IInv

LEMMA ReleaseSessionInv ==
    ASSUME IInv, NEW h \in Handle,
           ReleaseSession(h)
    PROVE  IInv'
<1>1. TypeOK'
  BY DEF IInv, TypeOK, ReleaseSession
<1>2. HeldIsLive'
  BY DEF IInv, HeldIsLive, ReleaseSession
<1>3. NativeFollows'
  BY DEF IInv, NativeFollows, ReleaseSession
<1>4. OwnersStand'
  BY DEF IInv, OwnersStand, Alive, ReleaseSession
<1>5. FdFollows'
  BY DEF IInv, FdFollows, ReleaseSession
<1>6. SocketsHaveFds'
  BY DEF IInv, SocketsHaveFds, ReleaseSession
<1>7. FdsAccounted'
  BY DEF IInv, FdsAccounted, ReleaseSession
<1>8. OrphansWait'
  BY DEF IInv, OrphansWait, ReleaseSession
<1> QED
  BY <1>1, <1>2, <1>3, <1>4, <1>5, <1>6, <1>7, <1>8 DEF IInv

LEMMA NullSessionInv ==
    ASSUME IInv, NEW s \in Sessions,
           NullSession(s)
    PROVE  IInv'
<1>1. TypeOK'
  BY DEF IInv, TypeOK, NullSession
<1>2. HeldIsLive'
  BY DEF IInv, HeldIsLive, NullSession
<1>3. NativeFollows' /\ OwnersStand' /\ FdFollows' /\ SocketsHaveFds' /\ FdsAccounted' /\ OrphansWait'
  BY DEF IInv, NativeFollows, OwnersStand, FdFollows, SocketsHaveFds,
     FdsAccounted, OrphansWait, Alive, NullSession
<1> QED
  BY <1>1, <1>2, <1>3 DEF IInv
-----------------------------------------------------------------------------
LEMMA InitInv == Init => IInv
<1> SUFFICES ASSUME Init PROVE IInv
  OBVIOUS
<1>1. TypeOK
  BY DEF Init, TypeOK
<1>2. HeldIsLive /\ NativeFollows /\ FdFollows
  BY DEF Init, HeldIsLive, NativeFollows, FdFollows, Obj, Handle
<1>3. OwnersStand
  BY DEF Init, OwnersStand, Alive, Obj, Handle
<1>4. SocketsHaveFds /\ FdsAccounted /\ OrphansWait
  BY DEF Init, SocketsHaveFds, FdsAccounted, OrphansWait, Obj, Handle
<1> QED
  BY <1>1, <1>2, <1>3, <1>4 DEF IInv

LEMMA StutterInv == IInv /\ UNCHANGED vars => IInv'
  BY DEF vars, IInv, TypeOK, HeldIsLive, NativeFollows, OwnersStand, FdFollows,
         SocketsHaveFds, FdsAccounted, OrphansWait, Alive

(* IInv is inductive: every step of a client, of a call or of a destructor   *)
(* keeps it.                                                                 *)
LEMMA NextInv == IInv /\ [Next]_vars => IInv'
<1> SUFFICES ASSUME IInv, [Next]_vars PROVE IInv'
  OBVIOUS
<1>1. CASE Client
  BY <1>1, CreateLibInv, NewSocketInv, NewSessionInv, HandshakeInv, NewHandleInv,
     SetBlockingInv, DropInv, ExitInv, AbortInv
  DEF Client, NewChannel, NewListener, Handle
<1>2. CASE Unwind
  BY <1>2, ExitLibInv, CloseSocketInv, FreeHandleInv, FreeSessionInv,
     ReleaseSockInv, ReleaseLibInv, ReleaseSessionInv, HandshakeNativeInv,
     NullSessionInv
  DEF Unwind, FreeChannel, CancelListener, Handle
<1>3. CASE UNCHANGED vars
  BY <1>3, StutterInv
<1> QED
  BY <1>1, <1>2, <1>3 DEF Next

(* The inductive invariant of the wrapper classes holds throughout.          *)
THEOREM InductiveInvariant == Spec => []IInv
  BY InitInv, NextInv, PTL DEF Spec

(* Every variable keeps its type: in particular the native session is only   *)
(* ever given a descriptor, never the null of a socket that is gone.         *)
THEOREM TypeCorrect == Spec => []TypeOK
<1>1. IInv => TypeOK
  BY DEF IInv
<1> QED
  BY <1>1, InductiveInvariant, PTL

(* A live Channel or Listener has a native object on a session that is live  *)
(* and not freed, and a live Session an initialised library: no native call, *)
(* a destructor's included, is made on something already freed.              *)
THEOREM NoDanglingHandle == Spec => []StandsOnLive
<1>1. IInv => StandsOnLive
  BY DEF IInv, StandsOnLive, NativeFollows, OwnersStand, Alive
<1> QED
  BY <1>1, InductiveInvariant, PTL

(* The native session of a live Session reads and writes the open descriptor *)
(* of the Socket kept for it, and so never one that was closed and reused.   *)
THEOREM OwnDescriptor == Spec => []WritesOwnSocket
<1>1. IInv => WritesOwnSocket
  BY DEF IInv, TypeOK, WritesOwnSocket, FdFollows, OwnersStand, SocketsHaveFds
<1> QED
  BY <1>1, InductiveInvariant, PTL

(* Open descriptors and Sockets that are live, or whose connect failed, are  *)
(* in one-to-one correspondence: nothing is closed twice, and nothing leaks  *)
(* but by a failed connect.                                                  *)
THEOREM DescriptorsAccounted == Spec => []FdsAccounted
<1>1. IInv => FdsAccounted
  BY DEF IInv
<1> QED
  BY <1>1, InductiveInvariant, PTL

(* When main has returned and the destructors have run, the library is       *)
(* closed, every wrapped native object has been freed or left by an EAGAIN,  *)
(* and none was left if every session ended in blocking mode.                *)
THEOREM ExitIsClean == Spec => []CleanExit
<1>1. ASSUME IInv, status = "ended", \A o \in Obj : ~Dying(o)
      PROVE  /\ \A h \in Handle : ~Alive(h)
             /\ \A s \in Sessions : ~Alive(s)
             /\ phase[Lib] # "live"
  <2>1. held = {} /\ ~static
    BY <1>1 DEF IInv, HeldIsLive
  <2>2. ASSUME NEW h \in Handle PROVE ~Alive(h)
    BY <1>1, <2>1, DistinctObjects DEF Dying, Doomed, Owned, Alive, Obj
  <2>3. ASSUME NEW s \in Sessions PROVE ~Alive(s)
    BY <1>1, <2>1, <2>2, DistinctObjects DEF Dying, Doomed, Owned, Alive, Obj
  <2>4. phase[Lib] # "live"
    BY <1>1, <2>1, <2>3, DistinctObjects DEF Dying, Doomed, Owned, Obj
  <2> QED
    BY <2>2, <2>3, <2>4
<1>2. IInv => CleanExit
  <2> SUFFICES ASSUME IInv, status = "ended", \A o \in Obj : ~Dying(o)
               PROVE  /\ phase[Lib] # "live"
                      /\ \A o \in Sessions \cup Handle : native[o] # "open"
                      /\ (\A s \in Sessions : blocking[s]) =>
                            \A o \in Sessions \cup Handle : native[o] # "orphan"
    BY DEF CleanExit
  <2>1. \A o \in Sessions \cup Handle : native[o] # "open"
    BY <1>1 DEF IInv, TypeOK, NativeFollows, Alive, Obj
  <2>2. ASSUME \A s \in Sessions : blocking[s], NEW s \in Sessions
        PROVE  native[s] # "orphan"
    BY <2>2 DEF IInv, OrphansWait
  <2>3. ASSUME \A s \in Sessions : blocking[s], NEW h \in Handle
        PROVE  native[h] # "orphan"
    <3>1. native[h] = "orphan" => parent[h] \in Sessions
      BY DEF IInv, TypeOK, NativeFollows, Obj
    <3> QED
      BY <2>1, <2>2, <2>3, <3>1 DEF IInv, OrphansWait
  <2> QED
    BY <1>1, <2>1, <2>2, <2>3
<1> QED
  BY <1>2, InductiveInvariant, PTL

(* A native session is freed after its channels and listeners, a descriptor  *)
(* closed after the native session that uses it, and the library after all:  *)
(* an action property, from IInv in the state before the step.               *)
THEOREM DestroyedInReverse == Spec => ReverseOrder
<1> DEFINE Ordered ==
      /\ \A s \in Sessions : phase[s] = "live" /\ phase'[s] = "members" =>
            \A h \in Handle : parent[h] = s => native[h] # "open"
      /\ \A k \in Sockets : phase[k] = "live" /\ phase'[k] = "dead" =>
            \A s \in Sessions \ swapped :
                native[s] = "open" /\ natFd[s] = fd[k] => calling = s
      /\ phase[Lib] = "live" /\ phase'[Lib] = "dead" =>
            \A s \in Sessions : native[s] # "open"
<1>1. ASSUME IInv, NEW k \in Sockets, CloseSocket(k) PROVE Ordered
  <2>1. ASSUME NEW s \in Sessions \ swapped, native[s] = "open", natFd[s] = fd[k]
        PROVE  calling = s
    <3>1. phase[k] = "live" /\ sockOf[s] # k
      BY <1>1 DEF CloseSocket, Doomed, Owned
    <3>2. phase[s] = "live" /\ natFd[s] # None
      BY <1>1, <2>1, <3>1, DistinctObjects DEF IInv, TypeOK, NativeFollows, SocketsHaveFds, Obj
    <3>3. SUFFICES ASSUME calling # s PROVE FALSE
      OBVIOUS
    <3>4. sockOf[s] \in Sockets /\ phase[sockOf[s]] = "live" /\ fd[sockOf[s]] = fd[k]
      BY <1>1, <2>1, <3>2, <3>3 DEF IInv, TypeOK, FdFollows, OwnersStand
    <3> QED
      BY <1>1, <3>1, <3>4 DEF IInv, FdsAccounted
  <2>2. \A o \in Obj : phase'[o] # phase[o] => o = k
    BY <1>1 DEF IInv, TypeOK, CloseSocket
  <2> QED
    BY <1>1, <2>1, <2>2, DistinctObjects DEF IInv, TypeOK, Obj
<1>2. ASSUME IInv, ExitLib PROVE Ordered
  BY <1>2, DistinctObjects DEF IInv, TypeOK, NativeFollows, Alive, ExitLib, Doomed, Owned, Obj
<1>3. ASSUME IInv, NEW s \in Sessions, NEW again \in BOOLEAN, FreeSession(s, again)
      PROVE  Ordered
  <2>1. \A h \in Handle : parent[h] = s => native[h] # "open"
    BY <1>3, DistinctObjects
    DEF IInv, TypeOK, NativeFollows, Alive, FreeSession, Doomed, Owned, Obj
  <2> QED
    BY <1>3, <2>1, DistinctObjects DEF IInv, TypeOK, FreeSession, Obj
<1>4. ASSUME IInv, Next,
             \A k \in Sockets : ~CloseSocket(k),
             ~ExitLib,
             \A s \in Sessions, again \in BOOLEAN : ~FreeSession(s, again)
      PROVE  Ordered
  <2>1. ASSUME Client PROVE Ordered
    BY <1>4, <2>1, DistinctObjects
    DEF IInv, TypeOK, Obj, Client, CreateLib, NewSocket, NewSession, Handshake,
        NewHandle, NewChannel, NewListener, Handle, SetBlocking, Drop, Exit, Abort
  <2>2. ASSUME Unwind PROVE Ordered
    BY <1>4, <2>2, DistinctObjects
    DEF IInv, TypeOK, Obj, Unwind, FreeHandle, FreeChannel, CancelListener, Handle, ReleaseSock, ReleaseLib,
        ReleaseSession, HandshakeNative, NullSession
  <2> QED
    BY <1>4, <2>1, <2>2 DEF Next
<1>5. ASSUME IInv, Next PROVE Ordered
  <2>1. CASE \E k \in Sockets : CloseSocket(k)
    BY <1>1, <1>5, <2>1
  <2>2. CASE ExitLib
    BY <1>2, <1>5, <2>2
  <2>3. CASE \E s \in Sessions, again \in BOOLEAN : FreeSession(s, again)
    BY <1>3, <1>5, <2>3
  <2> HIDE DEF Ordered
  <2> QED
    BY <1>4, <1>5, <2>1, <2>2, <2>3
<1>6. ASSUME IInv, [Next]_vars PROVE [Ordered]_vars
  <2> HIDE DEF Ordered
  <2> QED
    BY <1>5, <1>6
<1>7. [][Ordered]_vars => ReverseOrder
  BY DEF ReverseOrder
<1> HIDE DEF Ordered
<1> QED
  BY <1>6, <1>7, InductiveInvariant, PTL DEF Spec
=============================================================================
