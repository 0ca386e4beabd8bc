-------------------------- MODULE ShellClientProofs --------------------------
(* The interactive loop, for streams and buffers of any length.  Output: what *)
(* is neither on the screen nor queued has not been read yet, and an EOF that *)
(* libssh2 has seen has nothing behind it.  Input: what was sent and what     *)
(* waits, joined, loses a key only where a write fails.                       *)
EXTENDS ShellClient, StreamLemmas

ShellTypes ==
    /\ pc \in {"noecho", "nocanon", "check", "read", "select", "write",
              "echo", "canon", "exited"}
    /\ sent \in Seq(Bytes) /\ net \in Seq(Bytes) /\ queue \in Seq(Bytes)
    /\ screen \in Seq(Bytes) /\ typed \in Seq(Bytes) /\ tty \in Seq(Bytes)
    /\ stdio \in Seq(Bytes) /\ remoteIn \in Seq(Bytes)
    /\ stray \subseteq BufLen .. Len(screen)
    /\ hand \in Bytes \cup {None}
    /\ pc = "write" <=> hand # None
    /\ closing \in BOOLEAN /\ eof \in BOOLEAN /\ lost \in BOOLEAN
    /\ modes \subseteq {"echo", "icanon"}

(* A NUL cuts what is printed: without one, nothing is lost on the way.      *)
OutputInv ==
    /\ Nul \notin Bytes => Flows(sent, screen, queue, net)
    /\ eof => closing /\ net = <<>>
    /\ pc \in {"echo", "canon", "exited"} => eof /\ queue = <<>>

ModesInv ==
    /\ pc = "canon" => "echo" \in modes
    /\ pc = "exited" => modes = {"echo", "icanon"}

ShellInv == ShellTypes /\ OutputInv /\ ModesInv /\ InputInOrder

-----------------------------------------------------------------------------
(* The keys on their way: four streams that follow each other.               *)

Joined(r, h, s, t) == ((r \o h) \o s) \o t

LEMMA JoinedType ==
    ASSUME NEW S, NEW r \in Seq(S), NEW h \in Seq(S), NEW s \in Seq(S), NEW t \in Seq(S)
    PROVE  /\ Joined(r, h, s, t) \in Seq(S)
           /\ Len(Joined(r, h, s, t)) = ((Len(r) + Len(h)) + Len(s)) + Len(t)
BY DEF Joined

(* A key that is typed comes last.                                           *)
ComesLast(r, h, s, t, d) == Joined(r, h, s, Append(t, d)) = Append(Joined(r, h, s, t), d)

LEMMA JoinedTyped ==
    ASSUME NEW S, NEW r \in Seq(S), NEW h \in Seq(S), NEW s \in Seq(S), NEW t \in Seq(S),
           NEW d \in S
    PROVE  ComesLast(r, h, s, t, d)
<1> DEFINE front == (r \o h) \o s
<1>1. front \in Seq(S)
  OBVIOUS
<1> HIDE DEF front
<1>2. AppendsToLast(front, t, d)
  BY <1>1, AppendAssociative
<1> QED
  BY <1>2 DEF ComesLast, Joined, front, AppendsToLast

(* A key that is written goes from the hand to the remote.                   *)
LEMMA JoinedWritten ==
    ASSUME NEW S, NEW r \in Seq(S), NEW s \in Seq(S), NEW t \in Seq(S), NEW d \in S
    PROVE  Joined(Append(r, d), <<>>, s, t) = Joined(r, <<d>>, s, t)
<1>1. Append(r, d) \o <<>> = r \o <<d>>
  OBVIOUS
<1> QED
  BY <1>1 DEF Joined

(* A key that is taken from the buffer goes to the hand, ...                 *)
LEMMA JoinedTaken ==
    ASSUME NEW S, NEW r \in Seq(S), NEW s \in Seq(S), NEW t \in Seq(S), s # <<>>
    PROVE  Joined(r, <<Head(s)>>, Tail(s), t) = Joined(r, <<>>, s, t)
<1>1. (r \o <<Head(s)>>) \o Tail(s) = (r \o <<>>) \o s
  OBVIOUS
<1> QED
  BY <1>1 DEF Joined

(* ... or from the terminal, when the buffer is empty.                       *)
LEMMA JoinedFetched ==
    ASSUME NEW S, NEW r \in Seq(S), NEW t \in Seq(S), t # <<>>
    PROVE  Joined(r, <<Head(t)>>, Tail(t), <<>>) = Joined(r, <<>>, <<>>, t)
<1>1. (r \o <<Head(t)>>) \o Tail(t) = r \o t
  OBVIOUS
<1>2. ((r \o <<Head(t)>>) \o Tail(t)) \o <<>> = (r \o <<Head(t)>>) \o Tail(t)
  OBVIOUS
<1>3. (r \o <<>>) \o <<>> = r
  OBVIOUS
<1> QED
  BY <1>1, <1>2, <1>3 DEF Joined

(* v is u with its k-th element left out.                                    *)
Without(v, u, k) ==
    /\ k \in 1 .. Len(u)
    /\ Len(u) = Len(v) + 1
    /\ \A i \in 1 .. Len(v) : v[i] = u[IF i < k THEN i ELSE i + 1]

LEMMA JoinedDropped ==
    ASSUME NEW S, NEW r \in Seq(S), NEW s \in Seq(S), NEW t \in Seq(S), NEW d \in S
    PROVE  Without(Joined(r, <<>>, s, t), Joined(r, <<d>>, s, t), Len(r) + 1)
<1> DEFINE one == <<d>>
           nil == <<>>
           u == Joined(r, one, s, t)
           v == Joined(r, nil, s, t)
<1>1. one \in Seq(S) /\ Len(one) = 1 /\ nil \in Seq(S) /\ Len(nil) = 0
  OBVIOUS
<1> HIDE DEF one, nil
<1>2. /\ u \in Seq(S) /\ Len(u) = ((Len(r) + Len(one)) + Len(s)) + Len(t)
      /\ v \in Seq(S) /\ Len(v) = ((Len(r) + Len(nil)) + Len(s)) + Len(t)
  <2>1. one \in Seq(S) /\ nil \in Seq(S)
    BY <1>1
  <2>2. u \in Seq(S) /\ Len(u) = ((Len(r) + Len(one)) + Len(s)) + Len(t)
    BY <2>1, JoinedType
  <2>3. v \in Seq(S) /\ Len(v) = ((Len(r) + Len(nil)) + Len(s)) + Len(t)
    BY <2>1, JoinedType
  <2> QED
    BY <2>2, <2>3
<1>3. Len(u) = Len(v) + 1 /\ Len(r) + 1 \in 1 .. Len(u) /\ Len(v) \in Nat
  <2>1. Len(r) \in Nat /\ Len(s) \in Nat /\ Len(t) \in Nat
    OBVIOUS
  <2> HIDE DEF u, v
  <2> QED
    BY <1>1, <1>2, <2>1
<1>4. ASSUME NEW i \in 1 .. Len(v) PROVE v[i] = u[IF i < Len(r) + 1 THEN i ELSE i + 1]
  BY <1>2, <1>4 DEF Joined, one, nil
<1> QED
  BY <1>3, <1>4 DEF Without, one, nil

(* The order of the keys.                                                    *)
LEMMA EmbedsAppend ==
    ASSUME NEW S, NEW u \in Seq(S), NEW w \in Seq(S), NEW d \in S, Embeds(u, w)
    PROVE  Embeds(Append(u, d), Append(w, d))
<1> DEFINE uu == Append(u, d)
           ww == Append(w, d)
<1>1. /\ DOMAIN u = 1 .. Len(u) /\ DOMAIN w = 1 .. Len(w)
      /\ DOMAIN uu = 1 .. Len(u) + 1 /\ DOMAIN ww = 1 .. Len(w) + 1
      /\ Len(u) \in Nat /\ Len(w) \in Nat
      /\ \A i \in 1 .. Len(u) : uu[i] = u[i]
      /\ \A i \in 1 .. Len(w) : ww[i] = w[i]
      /\ uu[Len(u) + 1] = d /\ ww[Len(w) + 1] = d
  OBVIOUS
<1> PICK f \in [DOMAIN u -> DOMAIN w] :
        /\ \A i \in DOMAIN u : w[f[i]] = u[i]
        /\ \A i, j \in DOMAIN u : i < j => f[i] < f[j]
  BY DEF Embeds
<1> DEFINE g == [i \in DOMAIN uu |-> IF i = Len(u) + 1 THEN Len(w) + 1 ELSE f[i]]
<1> HIDE DEF uu, ww
<1>2. g \in [DOMAIN uu -> DOMAIN ww]
  BY <1>1
<1>3. \A i \in DOMAIN uu : ww[g[i]] = uu[i]
  BY <1>1
<1>4. \A i, j \in DOMAIN uu : i < j => g[i] < g[j]
  BY <1>1
<1> QED
  BY <1>2, <1>3, <1>4 DEF Embeds, uu, ww

LEMMA EmbedsWithout ==
    ASSUME NEW S, NEW u \in Seq(S), NEW v \in Seq(S), NEW w \in Seq(S), NEW k,
           Embeds(u, w), Without(v, u, k)
    PROVE  Embeds(v, w)
<1>1. /\ DOMAIN u = 1 .. Len(u) /\ DOMAIN v = 1 .. Len(v) /\ DOMAIN w = 1 .. Len(w)
      /\ Len(v) \in Nat /\ Len(u) = Len(v) + 1 /\ k \in 1 .. Len(u)
      /\ \A i \in 1 .. Len(v) : v[i] = u[IF i < k THEN i ELSE i + 1]
  <2>1. /\ DOMAIN u = 1 .. Len(u) /\ DOMAIN v = 1 .. Len(v) /\ DOMAIN w = 1 .. Len(w)
        /\ Len(v) \in Nat
    OBVIOUS
  <2> QED
    BY <2>1 DEF Without
<1> PICK f \in [DOMAIN u -> DOMAIN w] :
        /\ \A i \in DOMAIN u : w[f[i]] = u[i]
        /\ \A i, j \in DOMAIN u : i < j => f[i] < f[j]
  BY DEF Embeds
<1> DEFINE g == [i \in DOMAIN v |-> f[IF i < k THEN i ELSE i + 1]]
<1>2. g \in [DOMAIN v -> DOMAIN w]
  BY <1>1
<1>3. \A i \in DOMAIN v : w[g[i]] = v[i]
  BY <1>1
<1>4. \A i, j \in DOMAIN v : i < j => g[i] < g[j]
  BY <1>1
<1> QED
  BY <1>2, <1>3, <1>4 DEF Embeds

-----------------------------------------------------------------------------
(* What each step does to the keys.                                          *)

LEMMA ReachedType ==
    ASSUME ShellTypes
    PROVE  /\ Reached = Joined(remoteIn, Hand, stdio, tty)
           /\ Hand \in Seq(Bytes) /\ Reached \in Seq(Bytes)
<1>1. Hand \in Seq(Bytes)
  BY DEF ShellTypes, Hand
<1>2. Joined(remoteIn, Hand, stdio, tty) \in Seq(Bytes)
  BY <1>1, JoinedType DEF ShellTypes
<1> QED
  BY <1>1, <1>2, Zenon DEF Reached, Joined

LEMMA ReachedNext ==
    ASSUME ShellTypes'
    PROVE  Reached' \in Seq(Bytes)
<1>1. Hand' \in Seq(Bytes)
  BY DEF ShellTypes, Hand
<1>2. Joined(remoteIn', Hand', stdio', tty') \in Seq(Bytes)
  BY <1>1, JoinedType DEF ShellTypes
<1> QED
  BY <1>2 DEF Reached, Joined

KeyStays == typed' = typed /\ Reached' = Reached

KeyTyped ==
    \E b \in Bytes : typed' = Append(typed, b) /\ Reached' = Append(Reached, b)

KeyLost ==
    /\ typed' = typed
    /\ \E k \in Nat : Without(Reached', Reached, k)
    /\ Nul \in Bytes \/ (pc = "write" /\ (lost \/ WriteMayBlock))

LEMMA TypesKey ==
    ASSUME ShellTypes, NEW b \in Bytes, Types(b)
    PROVE  KeyTyped
<1>1. /\ typed' = Append(typed, b) /\ tty' = Append(tty, b)
      /\ remoteIn' = remoteIn /\ Hand' = Hand /\ stdio' = stdio
  BY DEF Types, Hand
<1>2. Reached = Joined(remoteIn, Hand, stdio, tty) /\ Hand \in Seq(Bytes)
  BY ReachedType
<1>3. ComesLast(remoteIn, Hand, stdio, tty, b)
  <2>1. /\ remoteIn \in Seq(Bytes) /\ Hand \in Seq(Bytes) /\ stdio \in Seq(Bytes)
        /\ tty \in Seq(Bytes)
    BY <1>2 DEF ShellTypes
  <2> QED
    BY <2>1, JoinedTyped
<1>4. Reached' = Joined(remoteIn, Hand, stdio, Append(tty, b))
  BY <1>1 DEF Reached, Joined
<1> QED
  BY <1>1, <1>2, <1>3, <1>4 DEF KeyTyped, ComesLast

LEMMA WriteKey ==
    ASSUME ShellTypes, Write
    PROVE  KeyStays
<1>1. /\ hand \in Bytes /\ Hand = <<hand>> /\ Hand' = <<>>
      /\ remoteIn' = Append(remoteIn, hand) /\ UNCHANGED <<typed, stdio, tty>>
  BY DEF Write, ShellTypes, Hand
<1>2. Joined(Append(remoteIn, hand), <<>>, stdio, tty) = Joined(remoteIn, <<hand>>, stdio, tty)
  BY <1>1, JoinedWritten DEF ShellTypes
<1> QED
  BY <1>1, <1>2 DEF KeyStays, Reached, Joined

LEMMA WriteFailsKey ==
    ASSUME ShellTypes, WriteFails
    PROVE  KeyLost
<1>1. /\ hand \in Bytes /\ Hand = <<hand>> /\ Hand' = <<>>
      /\ UNCHANGED <<typed, remoteIn, stdio, tty>>
      /\ pc = "write" /\ (lost \/ WriteMayBlock)
  BY DEF WriteFails, ShellTypes, Hand
<1>2. Without(Joined(remoteIn, <<>>, stdio, tty), Joined(remoteIn, <<hand>>, stdio, tty),
              Len(remoteIn) + 1)
  BY <1>1, JoinedDropped DEF ShellTypes
<1>3. /\ Reached = Joined(remoteIn, <<hand>>, stdio, tty)
      /\ Reached' = Joined(remoteIn, <<>>, stdio, tty)
  BY <1>1 DEF Reached, Joined
<1>4. Len(remoteIn) + 1 \in Nat
  BY DEF ShellTypes
<1> QED
  BY <1>1, <1>2, <1>3, <1>4 DEF KeyLost

LEMMA GetCharKey ==
    ASSUME ShellTypes, GetChar
    PROVE  KeyStays \/ KeyLost
<1> DEFINE buffered == IF stdio # <<>> THEN stdio ELSE tty
           left == IF stdio # <<>> THEN tty ELSE <<>>
           h == Head(buffered)
<1>1. /\ buffered \in Seq(Bytes) /\ buffered # <<>> /\ left \in Seq(Bytes)
      /\ remoteIn \in Seq(Bytes) /\ tty \in Seq(Bytes) /\ stdio \in Seq(Bytes)
  BY DEF GetChar, ShellTypes
<1>2. h \in Bytes /\ Tail(buffered) \in Seq(Bytes)
  BY <1>1
<1>3. /\ Hand = <<>> /\ stdio' = Tail(buffered) /\ tty' = left
      /\ hand' = IF h = Nul THEN None ELSE h
      /\ UNCHANGED <<typed, remoteIn>>
  BY DEF GetChar, ShellTypes, Hand
<1>4. Reached = Joined(remoteIn, <<h>>, Tail(buffered), left)
  <2>1. CASE stdio # <<>>
    <3>1. Joined(remoteIn, <<Head(stdio)>>, Tail(stdio), tty)
            = Joined(remoteIn, <<>>, stdio, tty)
      BY <1>1, <2>1, JoinedTaken
    <3> QED
      BY <1>3, <2>1, <3>1 DEF Reached, Joined
  <2>2. CASE stdio = <<>>
    <3>1. Joined(remoteIn, <<Head(tty)>>, Tail(tty), <<>>) = Joined(remoteIn, <<>>, <<>>, tty)
      BY <1>1, <2>2, JoinedFetched
    <3> QED
      BY <1>3, <2>2, <3>1 DEF Reached, Joined
  <2> QED
    BY <2>1, <2>2
<1> HIDE DEF buffered, left, h
<1>5. CASE h = Nul
  <2>1. Reached' = Joined(remoteIn, <<>>, Tail(buffered), left)
    BY <1>3, <1>5 DEF Reached, Joined, Hand
  <2>2. Without(Joined(remoteIn, <<>>, Tail(buffered), left),
                Joined(remoteIn, <<h>>, Tail(buffered), left), Len(remoteIn) + 1)
    BY <1>1, <1>2, JoinedDropped
  <2>3. Len(remoteIn) + 1 \in Nat
    BY <1>1
  <2> QED
    BY <1>2, <1>3, <1>4, <1>5, <2>1, <2>2, <2>3 DEF KeyLost
<1>6. CASE h # Nul
  <2>1. Hand' = <<h>>
    BY <1>2, <1>3, <1>6, ShellAssumption DEF Hand
  <2> QED
    BY <1>3, <1>4, <2>1 DEF KeyStays, Reached, Joined
<1> QED
  BY <1>5, <1>6

LEMMA KeySteps ==
    ASSUME ShellTypes, [Next]_vars
    PROVE  KeyStays \/ KeyTyped \/ KeyLost
<1>1. ASSUME Next, ~GetChar, ~Write, ~WriteFails, \A b \in Bytes : ~Types(b)
      PROVE  UNCHANGED <<typed, inVars>>
  BY <1>1 DEF Next, Main, World, StopEcho, StopCanon, CheckEof, Read, ReadError,
     NothingTyped, RestoreEcho, RestoreCanon, RemoteWrites, RemoteCloses, Disconnect
<1>2. ASSUME UNCHANGED <<typed, inVars>> PROVE KeyStays
  BY <1>2 DEF inVars, KeyStays, Reached, Hand
<1>3. ASSUME UNCHANGED vars PROVE UNCHANGED <<typed, inVars>>
  BY <1>3 DEF vars, inVars
<1> QED
  BY <1>1, <1>2, <1>3, TypesKey, WriteKey, WriteFailsKey, GetCharKey

LEMMA OrderKept ==
    ASSUME ShellInv, ShellTypes', [Next]_vars
    PROVE  InputInOrder'
<1>1. /\ Reached \in Seq(Bytes) /\ Reached' \in Seq(Bytes) /\ typed \in Seq(Bytes)
      /\ Embeds(Reached, typed)
  <2>1. Reached' \in Seq(Bytes)
    BY ReachedNext
  <2> QED
    BY <2>1, ReachedType DEF ShellInv, ShellTypes, InputInOrder
<1>2. CASE KeyStays
  BY <1>1, <1>2 DEF KeyStays, InputInOrder
<1>3. CASE KeyTyped
  <2> PICK b \in Bytes : typed' = Append(typed, b) /\ Reached' = Append(Reached, b)
    BY <1>3 DEF KeyTyped
  <2>1. Embeds(Append(Reached, b), Append(typed, b))
    BY <1>1, EmbedsAppend
  <2> QED
    BY <2>1 DEF InputInOrder
<1>4. CASE KeyLost
  <2> PICK k \in Nat : Without(Reached', Reached, k)
    BY <1>4 DEF KeyLost
  <2>1. Embeds(Reached', typed)
    BY <1>1, EmbedsWithout
  <2> QED
    BY <1>4, <2>1 DEF KeyLost, InputInOrder
<1> QED
  BY <1>2, <1>3, <1>4, KeySteps DEF ShellInv

-----------------------------------------------------------------------------
(* The types, the output and the modes.                                      *)

Rest == ShellTypes /\ OutputInv /\ ModesInv

LEMMA ShellInitInv ==
    Init => ShellInv
<1> SUFFICES ASSUME Init PROVE ShellInv
  OBVIOUS
<1>1. ShellTypes
  <2>1. /\ sent \in Seq(Bytes) /\ net \in Seq(Bytes) /\ queue \in Seq(Bytes)
        /\ screen \in Seq(Bytes) /\ typed \in Seq(Bytes) /\ tty \in Seq(Bytes)
        /\ stdio \in Seq(Bytes) /\ remoteIn \in Seq(Bytes)
    BY DEF Init
  <2>2. /\ pc = "noecho" /\ hand = None /\ stray = {} /\ modes = {"echo", "icanon"}
        /\ closing \in BOOLEAN /\ eof \in BOOLEAN /\ lost \in BOOLEAN
    BY DEF Init
  <2> QED
    BY <2>1, <2>2 DEF ShellTypes
<1>2. Flows(<<>>, <<>>, <<>>, <<>>)
  BY DEF Flows
<1>3. OutputInv /\ ModesInv
  BY <1>2 DEF Init, OutputInv, ModesInv
<1>4. InputInOrder
  <2>1. Reached = <<>> /\ typed = <<>>
    BY DEF Init, Reached, Hand
  <2>2. [i \in {} |-> i] \in [DOMAIN <<>> -> DOMAIN <<>>] /\ DOMAIN <<>> = {}
    OBVIOUS
  <2>3. Embeds(<<>>, <<>>)
    BY <2>2 DEF Embeds
  <2> QED
    BY <2>1, <2>3 DEF InputInOrder
<1> QED
  BY <1>1, <1>3, <1>4 DEF ShellInv

(* What printf makes of a chunk is a front of it, and all of it without a NUL. *)
LEMMA PrintedFacts ==
    ASSUME NEW chunk \in Seq(Bytes), NEW shown \in Printed(chunk)
    PROVE  /\ shown \in Seq(Bytes)
           /\ Nul \notin Bytes => shown = chunk
           /\ RunsOn(chunk) => Len(shown) = BufLen
<1>1. CASE Nuls(chunk) = {}
  BY <1>1 DEF Printed, RunsOn
<1>2. CASE Nuls(chunk) # {}
  <2>1. PICK i \in Nuls(chunk) : shown = SubSeq(chunk, 1, i - 1)
    BY <1>2 DEF Printed
  <2>2. i \in 1 .. Len(chunk) /\ chunk[i] = Nul
    BY <2>1 DEF Nuls
  <2>3. shown \in Seq(Bytes) /\ Nul \in Bytes
    BY <2>1, <2>2
  <2> QED
    BY <1>2, <2>3 DEF RunsOn
<1> QED
  BY <1>1, <1>2

LEMMA ReadInv ==
    ASSUME Rest, Read
    PROVE  Rest'
<1> DEFINE have == queue \o net
           m == IF Len(have) < BufLen THEN Len(have) ELSE BufLen
           chunk == SubSeq(have, 1, m)
           left == SubSeq(have, m + 1, Len(have))
<1>1. /\ pc = "read" /\ pc' = "select" /\ queue' = left /\ net' = <<>> /\ eof' = closing
      /\ UNCHANGED <<sent, closing, lost, typed, tty, stdio, hand, remoteIn, modes>>
  BY DEF Read, inVars
<1>2. PICK shown \in Printed(chunk) :
          screen' = screen \o shown
  BY DEF Read
<1>3. stray' = stray \/ (RunsOn(chunk) /\ stray' = stray \cup {Len(screen')})
  BY DEF Read
<1>4. /\ queue \in Seq(Bytes) /\ net \in Seq(Bytes) /\ screen \in Seq(Bytes)
      /\ stray \subseteq BufLen .. Len(screen) /\ BufLen \in Nat
      /\ hand = None /\ closing \in BOOLEAN /\ eof \in BOOLEAN
  BY <1>1, ShellAssumption DEF Rest, ShellTypes
<1>5. have \in Seq(Bytes) /\ m \in 0 .. Len(have)
  BY <1>4
<1> HIDE DEF have, m
<1>6. /\ chunk \in Seq(Bytes) /\ left \in Seq(Bytes) /\ chunk \o left = have
  BY <1>5, FrontAndRest
<1> HIDE DEF chunk, left
<1>7. /\ shown \in Seq(Bytes)
      /\ Nul \notin Bytes => shown = chunk
      /\ RunsOn(chunk) => Len(shown) = BufLen
  BY <1>6, PrintedFacts
<1>8. screen' \in Seq(Bytes) /\ Len(screen') = Len(screen) + Len(shown)
  <2>1. screen \o shown \in Seq(Bytes) /\ Len(screen \o shown) = Len(screen) + Len(shown)
    <3>1. screen \in Seq(Bytes) /\ shown \in Seq(Bytes)
      BY <1>4, <1>7
    <3> QED
      BY <3>1
  <2> QED
    BY <1>2, <2>1
<1>9. stray' \subseteq BufLen .. Len(screen')
  <2>1. Len(screen) \in Nat /\ Len(shown) \in Nat
    BY <1>4, <1>7
  <2>2. stray \subseteq BufLen .. Len(screen')
    BY <1>4, <1>8, <2>1
  <2>3. RunsOn(chunk) => Len(screen') \in BufLen .. Len(screen')
    BY <1>4, <1>7, <1>8, <2>1
  <2> QED
    BY <1>3, <2>2, <2>3
<1>10. ShellTypes'
  <2>1. queue' \in Seq(Bytes) /\ net' \in Seq(Bytes) /\ eof' \in BOOLEAN
    BY <1>1, <1>4, <1>6
  <2> QED
    BY <1>1, <1>4, <1>8, <1>9, <2>1 DEF Rest, ShellTypes
<1>11. Nul \notin Bytes => Flows(sent, screen', left, <<>>)
  <2> SUFFICES ASSUME Nul \notin Bytes PROVE Flows(sent, screen \o chunk, left, <<>>)
    BY <1>2, <1>7
  <2>1. net \o <<>> = net /\ <<>> \in Seq(Bytes)
    BY <1>4
  <2>2. Flows(sent, screen, queue, net \o <<>>)
    BY <2>1 DEF Rest, OutputInv
  <2>3. Flows(sent, screen, queue \o net, <<>>)
    BY <1>4, <2>1, <2>2, FlowFills
  <2>4. Flows(sent, screen, chunk \o left, <<>>)
    BY <1>6, <2>3 DEF have
  <2> QED
    BY <1>4, <1>6, <2>1, <2>4, FlowPasses
<1>12. OutputInv'
  BY <1>1, <1>11 DEF OutputInv
<1>13. ModesInv'
  BY <1>1 DEF ModesInv
<1> QED
  BY <1>10, <1>12, <1>13 DEF Rest

LEMMA ReadErrorInv ==
    ASSUME Rest, ReadError
    PROVE  Rest'
<1>1. /\ pc = "read" /\ pc' = "select"
      /\ UNCHANGED <<sent, closing, lost, screen, stray, typed, tty, stdio, hand,
                     remoteIn, modes>>
  BY DEF ReadError, inVars
<1>2. CASE UNCHANGED <<queue, net, eof>>
  <2>1. ShellTypes'
    BY <1>1, <1>2 DEF Rest, ShellTypes
  <2>2. OutputInv' /\ ModesInv'
    BY <1>1, <1>2 DEF Rest, OutputInv, ModesInv
  <2> QED
    BY <2>1, <2>2 DEF Rest
<1>3. CASE queue' = queue \o net /\ net' = <<>> /\ eof' = closing
  <2>1. /\ queue \in Seq(Bytes) /\ net \in Seq(Bytes)
    BY DEF Rest, ShellTypes
  <2>2. queue \o net \in Seq(Bytes) /\ net \o <<>> = net /\ <<>> \in Seq(Bytes)
    BY <2>1
  <2>3. ShellTypes'
    BY <1>1, <1>3, <2>2 DEF Rest, ShellTypes
  <2>4. Nul \notin Bytes => Flows(sent, screen, queue \o net, <<>>)
    <3> SUFFICES ASSUME Nul \notin Bytes PROVE Flows(sent, screen, queue \o net, <<>>)
      OBVIOUS
    <3>1. Flows(sent, screen, queue, net \o <<>>)
      BY <2>2 DEF Rest, OutputInv
    <3> QED
      BY <2>1, <2>2, <3>1, FlowFills
  <2>5. OutputInv'
    BY <1>1, <1>3, <2>4 DEF OutputInv
  <2>6. ModesInv'
    BY <1>1 DEF ModesInv
  <2> QED
    BY <2>3, <2>5, <2>6 DEF Rest
<1> QED
  BY <1>2, <1>3 DEF ReadError

(* The keys do not touch the output.                                         *)
LEMMA KeysInv ==
    ASSUME Rest, GetChar \/ NothingTyped \/ Write \/ WriteFails
    PROVE  Rest'
<1>1. /\ UNCHANGED <<sent, closing, net, lost, queue, eof, screen, stray, typed, modes>>
      /\ pc \in {"select", "write"} /\ pc' \in {"check", "write"}
  BY DEF GetChar, NothingTyped, Write, WriteFails, remoteVars, outVars
<1>2. /\ tty' \in Seq(Bytes) /\ stdio' \in Seq(Bytes) /\ remoteIn' \in Seq(Bytes)
      /\ hand' \in Bytes \cup {None} /\ (pc' = "write" <=> hand' # None)
  <2>1. CASE GetChar
    <3> DEFINE buffered == IF stdio # <<>> THEN stdio ELSE tty
    <3>1. buffered \in Seq(Bytes) /\ buffered # <<>>
      BY <2>1 DEF Rest, ShellTypes, GetChar
    <3>2. Head(buffered) \in Bytes /\ Tail(buffered) \in Seq(Bytes)
      BY <3>1
    <3>3. /\ stdio' = Tail(buffered) /\ remoteIn' = remoteIn
          /\ hand' = IF Head(buffered) = Nul THEN None ELSE Head(buffered)
          /\ pc' = IF Head(buffered) = Nul THEN "check" ELSE "write"
          /\ tty' = IF stdio # <<>> THEN tty ELSE <<>>
      BY <2>1 DEF GetChar
    <3> HIDE DEF buffered
    <3>4. tty' \in Seq(Bytes)
      BY <3>3 DEF Rest, ShellTypes
    <3> QED
      BY <3>2, <3>3, <3>4, ShellAssumption DEF Rest, ShellTypes
  <2>2. CASE NothingTyped
    BY <2>2 DEF NothingTyped, inVars, Rest, ShellTypes
  <2>3. CASE Write
    <3>1. Append(remoteIn, hand) \in Seq(Bytes)
      BY <2>3 DEF Write, Rest, ShellTypes
    <3> QED
      BY <2>3, <3>1 DEF Write, Rest, ShellTypes
  <2>4. CASE WriteFails
    BY <2>4 DEF WriteFails, Rest, ShellTypes
  <2> QED
    BY <2>1, <2>2, <2>3, <2>4
<1>3. ShellTypes'
  BY <1>1, <1>2 DEF Rest, ShellTypes
<1>4. OutputInv' /\ ModesInv'
  BY <1>1 DEF Rest, OutputInv, ModesInv
<1> QED
  BY <1>3, <1>4 DEF Rest

(* The way in, the test of the loop, and the way out.                        *)
LEMMA EndsInv ==
    ASSUME Rest, StopEcho \/ StopCanon \/ CheckEof \/ RestoreEcho \/ RestoreCanon
    PROVE  Rest'
<1>1. UNCHANGED <<remoteVars, outVars, typed, inVars>>
  BY DEF StopEcho, StopCanon, CheckEof, RestoreEcho, RestoreCanon
<1>2. /\ modes' \subseteq {"echo", "icanon"}
      /\ pc # "write" /\ pc' \in {"nocanon", "check", "read", "echo", "canon", "exited"}
  BY DEF StopEcho, StopCanon, CheckEof, RestoreEcho, RestoreCanon, Rest, ShellTypes
<1>3. ShellTypes'
  BY <1>1, <1>2 DEF remoteVars, outVars, inVars, Rest, ShellTypes
<1>4. OutputInv'
  <2>1. pc' \in {"echo", "canon", "exited"} => eof /\ queue = <<>>
    BY DEF StopEcho, StopCanon, CheckEof, RestoreEcho, RestoreCanon, IsEof, Rest, OutputInv
  <2> QED
    BY <1>1, <2>1 DEF remoteVars, outVars, Rest, OutputInv
<1>5. ModesInv'
  BY DEF StopEcho, StopCanon, CheckEof, RestoreEcho, RestoreCanon, Rest, ShellTypes, ModesInv
<1> QED
  BY <1>3, <1>4, <1>5 DEF Rest

(* The remote, the network and the user act at any time.                     *)
LEMMA WorldInv ==
    ASSUME Rest, World
    PROVE  Rest'
<1>1. ASSUME NEW b \in Bytes, RemoteWrites(b) PROVE Rest'
  <2>1. /\ ~closing /\ sent' = Append(sent, b) /\ net' = Append(net, b)
        /\ UNCHANGED <<pc, closing, lost, queue, eof, screen, stray, typed, tty, stdio,
                       hand, remoteIn, modes>>
    BY <1>1 DEF RemoteWrites, outVars, inVars
  <2>2. /\ sent \in Seq(Bytes) /\ net \in Seq(Bytes) /\ queue \in Seq(Bytes)
        /\ screen \in Seq(Bytes)
    BY DEF Rest, ShellTypes
  <2>3. sent' \in Seq(Bytes) /\ net' \in Seq(Bytes)
    BY <2>1, <2>2
  <2>4. ShellTypes'
    BY <2>1, <2>3 DEF Rest, ShellTypes
  <2>5. ASSUME Nul \notin Bytes PROVE Flows(Append(sent, b), screen, queue, Append(net, b))
    <3>1. Flows(sent, screen, queue, net)
      BY <2>5 DEF Rest, OutputInv
    <3> QED
      BY <2>2, <3>1, FlowGrows
  <2>6. OutputInv' /\ ModesInv'
    BY <2>1, <2>5 DEF Rest, OutputInv, ModesInv
  <2> QED
    BY <2>4, <2>6 DEF Rest
<1>2. ASSUME NEW b \in Bytes, Types(b) PROVE Rest'
  <2>1. /\ typed' = Append(typed, b) /\ tty' = Append(tty, b)
        /\ UNCHANGED <<pc, sent, closing, net, lost, queue, eof, screen, stray, stdio,
                       hand, remoteIn, modes>>
    BY <1>2 DEF Types, remoteVars, outVars
  <2>2. typed' \in Seq(Bytes) /\ tty' \in Seq(Bytes)
    <3>1. typed \in Seq(Bytes) /\ tty \in Seq(Bytes)
      BY DEF Rest, ShellTypes
    <3> QED
      BY <2>1, <3>1
  <2>3. ShellTypes'
    BY <2>1, <2>2 DEF Rest, ShellTypes
  <2>4. OutputInv' /\ ModesInv'
    BY <2>1 DEF Rest, OutputInv, ModesInv
  <2> QED
    BY <2>3, <2>4 DEF Rest
<1>3. ASSUME RemoteCloses \/ Disconnect PROVE Rest'
  <2>1. /\ UNCHANGED <<pc, sent, net, queue, eof, screen, stray, typed, tty, stdio,
                       hand, remoteIn, modes>>
        /\ closing' \in BOOLEAN /\ lost' \in BOOLEAN /\ (closing => closing')
    BY <1>3 DEF RemoteCloses, Disconnect, outVars, inVars, Rest, ShellTypes
  <2>2. ShellTypes'
    BY <2>1 DEF Rest, ShellTypes
  <2>3. OutputInv' /\ ModesInv'
    BY <2>1 DEF Rest, OutputInv, ModesInv
  <2> QED
    BY <2>2, <2>3 DEF Rest
<1> QED
  BY <1>1, <1>2, <1>3 DEF World

LEMMA ShellNextInv ==
    ShellInv /\ [Next]_vars => ShellInv'
<1> SUFFICES ASSUME ShellInv, [Next]_vars PROVE ShellInv'
  OBVIOUS
<1>1. Rest
  BY DEF ShellInv, Rest
<1>2. Rest'
  <2>1. CASE Next
    BY <1>1, <2>1, ReadInv, ReadErrorInv, KeysInv, EndsInv, WorldInv DEF Next, Main
  <2>2. CASE UNCHANGED vars
    <3>1. UNCHANGED <<pc, sent, closing, net, queue, eof, lost, screen, stray, typed, tty,
                      stdio, hand, remoteIn, modes>>
      BY <2>2 DEF vars
    <3> QED
      BY <1>1, <3>1 DEF Rest, ShellTypes, OutputInv, ModesInv
  <2> QED
    BY <2>1, <2>2
<1>3. ShellTypes'
  BY <1>2 DEF Rest
<1>4. InputInOrder'
  BY <1>3, OrderKept
<1> QED
  BY <1>2, <1>4 DEF ShellInv, Rest

(* Both streams are accounted for at every step.                             *)
THEOREM ShellInvariant == Spec => []ShellInv
<1> QED
  BY ShellInitInv, ShellNextInv, PTL DEF Spec

-----------------------------------------------------------------------------
(* The properties of the run.                                                *)

(* Types; main is about to write exactly when it holds a key.                *)
THEOREM ShellTypeCorrect == Spec => []TypeOK
<1>1. ShellInv => TypeOK
  BY DEF ShellInv, ShellTypes, TypeOK, Buffer
<1> QED
  BY <1>1, ShellInvariant, PTL

(* Whatever is read when, in pieces of any size: without a NUL, the screen   *)
(* and what is on its way to it are what the remote wrote.                   *)
THEOREM NoOutputLost ==
    ASSUME Nul \notin Bytes
    PROVE  Spec => []OutputConserved
<1>1. ShellInv => OutputConserved
  <2> SUFFICES ASSUME ShellInv PROVE OutputConserved
    OBVIOUS
  <2>1. Flows(sent, screen, queue, net)
    BY DEF ShellInv, OutputInv
  <2>2. screen \in Seq(Bytes) /\ queue \in Seq(Bytes) /\ net \in Seq(Bytes)
    BY DEF ShellInv, ShellTypes
  <2>3. (screen \o queue) \o net = screen \o (queue \o net)
    BY <2>2
  <2> QED
    BY <2>1, <2>3 DEF Flows, OutputConserved
<1> QED
  BY <1>1, ShellInvariant, PTL

(* Keys reach the remote in the order they were typed, and none twice.       *)
THEOREM KeysInOrder == Spec => []InputInOrder
<1>1. ShellInv => InputInOrder
  BY DEF ShellInv
<1> QED
  BY <1>1, ShellInvariant, PTL

(* When the loop is over, all the remote wrote is on the screen; when the    *)
(* program is over, the terminal is as it was.                               *)
THEOREM LeftWithAllShown ==
    ASSUME Nul \notin Bytes
    PROVE  Spec => []LeavesWhenShown
<1>1. ShellInv => LeavesWhenShown
  <2> SUFFICES ASSUME ShellInv PROVE LeavesWhenShown
    OBVIOUS
  <2>1. ASSUME pc \in {"echo", "canon", "exited"} PROVE closing /\ screen = sent
    <3>1. Flows(sent, screen, <<>>, <<>>) /\ closing /\ screen \in Seq(Bytes)
      BY <2>1 DEF ShellInv, ShellTypes, OutputInv
    <3> QED
      BY <3>1, FlowEnds
  <2>2. pc = "exited" => modes = {"echo", "icanon"}
    BY DEF ShellInv, ModesInv
  <2> QED
    BY <2>1, <2>2 DEF LeavesWhenShown
<1> QED
  BY <1>1, ShellInvariant, PTL

(* No step leaves out a key but a write that fails, and that leaves out one. *)
THEOREM OnlyWritesLoseKeys ==
    ASSUME Nul \notin Bytes
    PROVE  Spec => KeysKept
<1>1. ShellInv /\ [Next]_vars =>
          [Missing' # Missing =>
              pc = "write" /\ (lost \/ WriteMayBlock) /\ Missing' = Missing + 1]_vars
  <2> SUFFICES ASSUME ShellInv, [Next]_vars, Missing' # Missing
               PROVE  pc = "write" /\ (lost \/ WriteMayBlock) /\ Missing' = Missing + 1
    OBVIOUS
  <2>1. ShellTypes /\ typed \in Seq(Bytes) /\ Reached \in Seq(Bytes)
    BY ReachedType DEF ShellInv, ShellTypes
  <2>2. ~KeyStays
    BY DEF KeyStays, Missing
  <2>3. ~KeyTyped
    <3> SUFFICES ASSUME NEW b \in Bytes, typed' = Append(typed, b),
                        Reached' = Append(Reached, b)
                 PROVE  FALSE
      BY DEF KeyTyped
    <3>1. Len(typed') = Len(typed) + 1 /\ Len(Reached') = Len(Reached) + 1
      BY <2>1
    <3>2. Len(typed) \in Nat /\ Len(Reached) \in Nat
      BY <2>1
    <3> QED
      BY <3>1, <3>2 DEF Missing
  <2>4. KeyLost
    BY <2>1, <2>2, <2>3, KeySteps
  <2>5. typed' = typed /\ Len(Reached) = Len(Reached') + 1
    BY <2>4 DEF KeyLost, Without
  <2>6. Len(typed) \in Nat /\ Len(Reached) \in Nat
    BY <2>1
  <2>7. Len(Reached') \in Nat
    <3>1. Reached' \in Seq(Bytes)
      BY ShellNextInv, ReachedNext DEF ShellInv
    <3> QED
      BY <3>1
  <2> QED
    BY <2>4, <2>5, <2>6, <2>7 DEF KeyLost, Missing
<1> QED
  BY <1>1, ShellInvariant, PTL DEF Spec, KeysKept
=============================================================================
