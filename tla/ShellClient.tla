----------------------------- MODULE ShellClient -----------------------------
(* The interactive loop of main in src/ssh.cpp, on the channel SSH::SSH gave *)
(* it: the remote shell's output on its way to the screen, the user's keys   *)
(* on their way to the remote, the end of the stream, the loss of the        *)
(* connection, and the terminal modes.  The loop runs beside the remote, the *)
(* network and the user, who may act between any two of its calls.           *)
EXTENDS Naturals, Sequences

CONSTANTS
    Bytes,          \* what the remote writes and the user types
    Nul,            \* the byte 0, a member of Bytes or not
    None,           \* no byte
    BufLen,         \* the size of obuf
    MaxOut, MaxIn,  \* bounds on what the remote writes and the user types
    WriteMayBlock,  \* the send window may be full: write returns EAGAIN
    MayDisconnect   \* the connection may break

ASSUME ShellAssumption ==
    /\ None \notin Bytes
    /\ BufLen \in Nat \ {0} /\ MaxOut \in Nat /\ MaxIn \in Nat
    /\ WriteMayBlock \in BOOLEAN /\ MayDisconnect \in BOOLEAN

VARIABLES
    pc,        \* the call main is about to make
    sent,      \* what the remote has written, from the start
    closing,   \* the remote has sent its EOF
    net,       \* arrived from the remote and not yet seen by libssh2
    queue,     \* received packets' data that nobody has read
    eof,       \* the EOF of the channel has been received
    lost,      \* the connection is broken
    screen,    \* what main has printed of the remote's output
    stray,     \* the places in it where a print ran on into other memory
    typed,     \* what the user has typed, from the start
    tty,       \* typed, and still in the terminal's queue
    stdio,     \* taken from the terminal into the buffer of stdin
    hand,      \* the character getchar has returned
    remoteIn,  \* what the remote's shell was sent
    modes      \* the terminal modes that are on

vars == <<pc, sent, closing, net, queue, eof, lost, screen, stray, typed, tty,
          stdio, hand, remoteIn, modes>>

remoteVars == <<sent, closing, net, lost>>
outVars == <<queue, eof, screen, stray>>
inVars == <<tty, stdio, hand, remoteIn>>

Init ==
    /\ pc = "noecho"
    /\ sent = <<>> /\ closing = FALSE /\ net = <<>> /\ lost = FALSE
    /\ queue = <<>> /\ eof = FALSE /\ screen = <<>> /\ stray = {}
    /\ typed = <<>> /\ tty = <<>> /\ stdio = <<>> /\ hand = None
    /\ remoteIn = <<>>
    /\ modes = {"echo", "icanon"}

-----------------------------------------------------------------------------
(* The remote, the network and the user.                                     *)

RemoteWrites(b) ==
    /\ ~closing /\ ~lost
    /\ Len(sent) < MaxOut
    /\ sent' = Append(sent, b)
    /\ net' = Append(net, b)
    /\ UNCHANGED <<pc, closing, lost, outVars, typed, inVars, modes>>

RemoteCloses ==
    /\ ~closing /\ ~lost
    /\ closing' = TRUE
    /\ UNCHANGED <<pc, sent, net, lost, outVars, typed, inVars, modes>>

Disconnect ==
    /\ MayDisconnect
    /\ lost' = TRUE
    /\ UNCHANGED <<pc, sent, closing, net, outVars, typed, inVars, modes>>

Types(b) ==
    /\ Len(typed) < MaxIn
    /\ typed' = Append(typed, b)
    /\ tty' = Append(tty, b)
    /\ UNCHANGED <<pc, remoteVars, outVars, stdio, hand, remoteIn, modes>>

-----------------------------------------------------------------------------
(* libssh2, as main uses it.  A read takes in the packets that have arrived, *)
(* then hands out what is queued, as much as fits; with nothing queued it    *)
(* returns 0 or EAGAIN, and an error once the connection is broken.          *)
(* libssh2_channel_eof is true when the EOF has been received and nothing    *)
(* received is left to read.                                                 *)

(* Faulty variant: the EOF alone ends the loop.                              *)
IsEofUnread == eof

(* Faulty variant: keys that are buffered keep the loop going.               *)
IsEofQuiet == eof /\ queue = <<>> /\ stdio = <<>>

IsEof == eof /\ queue = <<>>

(* What printf("%s", obuf.data()) prints of a chunk: the bytes before the    *)
(* first NUL.  The zeroes obuf was filled with end a chunk shorter than obuf;*)
(* a full one without a NUL may run on into what follows in memory.          *)
Nuls(chunk) == {i \in DOMAIN chunk : chunk[i] = Nul}

Printed(chunk) ==
    IF Nuls(chunk) = {} THEN {chunk}
    ELSE {SubSeq(chunk, 1, i - 1) : i \in {j \in Nuls(chunk) : \A l \in Nuls(chunk) : j <= l}}

RunsOn(chunk) == Nuls(chunk) = {} /\ Len(chunk) = BufLen

-----------------------------------------------------------------------------
(* main.                                                                     *)

(* system("stty -echo"), system("stty -icanon")                              *)
StopEcho ==
    /\ pc = "noecho" /\ pc' = "nocanon"
    /\ modes' = modes \ {"echo"}
    /\ UNCHANGED <<remoteVars, outVars, typed, inVars>>

StopCanon ==
    /\ pc = "nocanon" /\ pc' = "check"
    /\ modes' = modes \ {"icanon"}
    /\ UNCHANGED <<remoteVars, outVars, typed, inVars>>

(* while(!channel->is_eof())                                                 *)
CheckEof ==
    /\ pc = "check"
    /\ pc' = IF IsEof THEN "echo" ELSE "read"
    /\ UNCHANGED <<remoteVars, outVars, typed, inVars, modes>>

(* channel->read(obuf) and the print of what it returned.                    *)
(* Faulty variant: what does not fit is thrown away.                         *)
ReadDropsRest ==
    /\ pc = "read" /\ pc' = "select"
    /\ ~lost
    /\ LET have == queue \o net
           m == IF Len(have) < BufLen THEN Len(have) ELSE BufLen
       IN \E shown \in Printed(SubSeq(have, 1, m)) : screen' = screen \o shown
    /\ stray' = stray
    /\ queue' = <<>>
    /\ net' = <<>>
    /\ eof' = closing
    /\ UNCHANGED <<sent, closing, lost, typed, inVars, modes>>

Read ==
    /\ pc = "read" /\ pc' = "select"
    /\ ~lost
    /\ LET have == queue \o net
           m == IF Len(have) < BufLen THEN Len(have) ELSE BufLen
           chunk == SubSeq(have, 1, m)
       IN
       /\ queue' = SubSeq(have, m + 1, Len(have))
       /\ \E shown \in Printed(chunk) : screen' = screen \o shown
       /\ \/ stray' = stray
          \/ RunsOn(chunk) /\ stray' = stray \cup {Len(screen')}
    /\ net' = <<>>
    /\ eof' = closing
    /\ UNCHANGED <<sent, closing, lost, typed, inVars, modes>>

(* A read error is printed, and the loop goes on.  What had arrived before   *)
(* the connection broke is queued or thrown away, and never handed out.      *)
ReadError ==
    /\ pc = "read" /\ pc' = "select"
    /\ lost
    /\ \/ UNCHANGED <<queue, net, eof>>
       \/ queue' = queue \o net /\ net' = <<>> /\ eof' = closing
    /\ UNCHANGED <<sent, closing, lost, screen, stray, typed, inVars, modes>>

(* select on descriptor 0 with no timeout sees the terminal's queue, not the *)
(* buffer of stdin; getchar takes from that buffer, which it fills with all  *)
(* the terminal has when it is empty.  A 0 is not passed on.                 *)
(* Faulty variant: the buffer of stdin is emptied after each character.      *)
GetCharFlushes ==
    /\ pc = "select"
    /\ tty # <<>>
    /\ tty' = <<>> /\ stdio' = <<>>
    /\ hand' = Head(tty)
    /\ pc' = "write"
    /\ UNCHANGED <<remoteVars, outVars, typed, remoteIn, modes>>

(* Faulty variant: new keys are put before the ones still buffered.          *)
GetCharNewest ==
    /\ pc = "select"
    /\ tty # <<>>
    /\ tty' = <<>>
    /\ stdio' = Tail(tty) \o stdio
    /\ hand' = Head(tty)
    /\ pc' = "write"
    /\ UNCHANGED <<remoteVars, outVars, typed, remoteIn, modes>>

GetChar ==
    /\ pc = "select"
    /\ tty # <<>>
    /\ LET buffered == IF stdio # <<>> THEN stdio ELSE tty IN
       /\ tty' = IF stdio # <<>> THEN tty ELSE <<>>
       /\ stdio' = Tail(buffered)
       /\ hand' = IF Head(buffered) = Nul THEN None ELSE Head(buffered)
       /\ pc' = IF Head(buffered) = Nul THEN "check" ELSE "write"
    /\ UNCHANGED <<remoteVars, outVars, typed, remoteIn, modes>>

NothingTyped ==
    /\ pc = "select" /\ pc' = "check"
    /\ tty = <<>>
    /\ UNCHANGED <<remoteVars, outVars, typed, inVars, modes>>

(* channel->write(char(c)).  A negative result is printed and the character  *)
(* forgotten, EAGAIN included.                                               *)
Write ==
    /\ pc = "write" /\ pc' = "check"
    /\ ~lost
    /\ remoteIn' = Append(remoteIn, hand)
    /\ hand' = None
    /\ UNCHANGED <<remoteVars, outVars, typed, tty, stdio, modes>>

(* Faulty variant: the character is kept, and nobody looks at it again.      *)
WriteFailsKeeps ==
    /\ pc = "write" /\ pc' = "check"
    /\ lost \/ WriteMayBlock
    /\ UNCHANGED <<remoteVars, outVars, typed, inVars, modes>>

WriteFails ==
    /\ pc = "write" /\ pc' = "check"
    /\ lost \/ WriteMayBlock
    /\ hand' = None
    /\ UNCHANGED <<remoteVars, outVars, typed, tty, stdio, remoteIn, modes>>

(* After the loop: system("stty echo"), system("stty icanon"), return.       *)
RestoreEcho ==
    /\ pc = "echo" /\ pc' = "canon"
    /\ modes' = modes \cup {"echo"}
    /\ UNCHANGED <<remoteVars, outVars, typed, inVars>>

RestoreCanon ==
    /\ pc = "canon" /\ pc' = "exited"
    /\ modes' = modes \cup {"icanon"}
    /\ UNCHANGED <<remoteVars, outVars, typed, inVars>>

Main ==
    \/ StopEcho \/ StopCanon \/ CheckEof \/ Read \/ ReadError \/ GetChar
    \/ NothingTyped \/ Write \/ WriteFails \/ RestoreEcho \/ RestoreCanon

World ==
    \/ \E b \in Bytes : RemoteWrites(b) \/ Types(b)
    \/ RemoteCloses
    \/ Disconnect

Next == Main \/ World

Spec == Init /\ [][Next]_vars

(* The loop runs on: no call in it blocks.  (select answers at once, getchar *)
(* is called when there is a character, the session does not block.)         *)
FairSpec == Spec /\ WF_vars(Main)

-----------------------------------------------------------------------------
(* Properties.                                                               *)

Buffer == Seq(Bytes)

TypeOK ==
    /\ pc \in {"noecho", "nocanon", "check", "read", "select", "write",
              "echo", "canon", "exited"}
    /\ {sent, net, queue, screen, typed, tty, stdio, remoteIn} \subseteq Buffer
    /\ stray \subseteq BufLen .. Len(screen)
    /\ hand \in Bytes \cup {None}
    /\ pc = "write" <=> hand # None
    /\ {closing, eof, lost} \subseteq BOOLEAN
    /\ modes \subseteq {"echo", "icanon"}

(* Output is neither lost, repeated nor reordered on its way to the screen,  *)
(* as long as the remote writes no NUL.  (What an unterminated buffer adds   *)
(* to it, at the places in stray, is none of it.)                            *)
OutputConserved == screen \o queue \o net = sent

(* Keys reach the remote in the order typed, none twice: what it was sent,   *)
(* followed by what waits in the buffers of this side, is what was typed     *)
(* with some keys left out.                                                  *)
Hand == IF hand = None THEN <<>> ELSE <<hand>>
Reached == remoteIn \o Hand \o stdio \o tty

Embeds(u, w) ==
    \E f \in [DOMAIN u -> DOMAIN w] :
        /\ \A i \in DOMAIN u : w[f[i]] = u[i]
        /\ \A i, j \in DOMAIN u : i < j => f[i] < f[j]

InputInOrder == Embeds(Reached, typed)

(* A key is left out by a write that fails and by nothing else, the reads    *)
(* ahead of getchar and the changes of the terminal included, one key at a   *)
(* time.  (A NUL that is typed is left out as well: Bytes has none here.)    *)
Missing == Len(typed) - Len(Reached)

KeysKept ==
    [][Missing' # Missing =>
          pc = "write" /\ (lost \/ WriteMayBlock) /\ Missing' = Missing + 1]_vars

(* The loop is left only when all the remote wrote is on the screen, even if *)
(* the EOF came with data still unread, and the program never ends with the  *)
(* terminal modes it changed.                                                *)
LeavesWhenShown ==
    /\ pc \in {"echo", "canon", "exited"} => closing /\ screen = sent
    /\ pc = "exited" => modes = {"echo", "icanon"}

(* When the remote closes the channel, the program ends, whatever is typed.  *)
EndsAtEof == closing ~> (pc = "exited" \/ lost)

-----------------------------------------------------------------------------
(* What the comments of main say and the code does not do.                   *)

(* "Accept inputs until disconnected": the loop ends with the connection.    *)
EndsWhenDisconnected == lost ~> pc = "exited"

(* "Input from stdin and send it to remote SSH": a typed key is sent in the  *)
(* end, unless the program ends first.                                       *)
InputSent == [](Len(typed) = MaxIn => <>(Len(remoteIn) = MaxIn \/ pc = "exited"))
=============================================================================
