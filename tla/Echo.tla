-------------------------------- MODULE Echo ---------------------------------
(* The loop of src/example/ssh2_echo.c: it writes Total bytes to a remote    *)
(* "cat" and counts what comes back, polling one channel for both.  All      *)
(* bytes are the same, so that counts are all there is.                      *)
EXTENDS Naturals

CONSTANTS
    Total,    \* totsize, what is to be written
    BufSize,  \* the size of buffer
    Window    \* what either side takes before the other has read any of it

VARIABLES
    turn,       \* what the loop does next
    revents,    \* what libssh2_poll reported
    act,        \* a read or a write was tried in this turn
    pollOut,    \* events has POLLOUT
    totwritten, \* bytes written
    totread,    \* bytes read
    eof,        \* the end of the stream has been sent
    catIn,      \* bytes on their way to cat
    queue,      \* bytes on their way back
    cat         \* "up", "done", "killed", or "lost" with the connection

echoVars == <<turn, revents, act, pollOut, totwritten, totread, eof, catIn, queue, cat>>
remoteVars == <<catIn, queue, cat>>

EchoInit ==
    /\ turn = "poll" /\ revents = {} /\ act = FALSE /\ pollOut = TRUE
    /\ totwritten = 0 /\ totread = 0 /\ eof = FALSE
    /\ catIn = 0 /\ queue = 0 /\ cat = "up"

Lesser(m, n) == IF m < n THEN m ELSE n
If(p, s) == IF p THEN s ELSE {}

-----------------------------------------------------------------------------
(* The loop.                                                                 *)

(* libssh2_poll takes in what has arrived, and reports it.  If it reports    *)
(* nothing or fails, the loop polls again: no step.                          *)
Poll ==
    /\ turn = "poll"
    /\ revents' = If(queue > 0, {"in"})
                  \cup If(pollOut /\ catIn < Window, {"out"})
                  \cup If(cat # "up", {"closed"})
    /\ revents' # {}
    /\ act' = FALSE
    /\ turn' = "read"
    /\ UNCHANGED <<pollOut, totwritten, totread, eof, remoteVars>>

(* Polls go on failing, or reporting nothing, from here on: the loop goes    *)
(* round for ever (ssh2_echo.c:255), whatever has become of the channel.     *)
PollBlind ==
    /\ turn = "poll"
    /\ turn' = "blind"
    /\ UNCHANGED <<revents, act, pollOut, totwritten, totread, eof, remoteVars>>

(* libssh2_channel_read: some of what is there, or EAGAIN.                   *)
Read ==
    /\ turn = "read" /\ "in" \in revents
    /\ \E n \in 0 .. Lesser(queue, BufSize) :
         queue' = queue - n /\ totread' = totread + n
    /\ act' = TRUE
    /\ turn' = "write"
    /\ UNCHANGED <<revents, pollOut, totwritten, eof, catIn, cat>>

NoRead ==
    /\ turn = "read" /\ "in" \notin revents
    /\ turn' = "write"
    /\ UNCHANGED <<revents, act, pollOut, totwritten, totread, eof, remoteVars>>

(* libssh2_channel_write: part of the buffer, or EAGAIN.                     *)
(* Faulty variant: always the whole buffer, also when less is left.          *)
WriteFullBuffer ==
    /\ turn = "write" /\ "out" \in revents /\ totwritten < Total
    /\ \E n \in 0 .. Lesser(BufSize, Window - catIn) :
         totwritten' = totwritten + n /\ catIn' = catIn + n
    /\ act' = TRUE
    /\ turn' = "check"
    /\ UNCHANGED <<revents, pollOut, totread, eof, queue, cat>>

Write ==
    /\ turn = "write" /\ "out" \in revents /\ totwritten < Total
    /\ \E n \in 0 .. Lesser(Lesser(Total - totwritten, BufSize), Window - catIn) :
         totwritten' = totwritten + n /\ catIn' = catIn + n
    /\ act' = TRUE
    /\ turn' = "check"
    /\ UNCHANGED <<revents, pollOut, totread, eof, queue, cat>>

(* libssh2_channel_send_eof.                                                 *)
SendEof ==
    /\ turn = "write" /\ "out" \in revents /\ totwritten = Total
    /\ eof' = TRUE /\ pollOut' = FALSE
    /\ act' = TRUE
    /\ turn' = "check"
    /\ UNCHANGED <<revents, totwritten, totread, remoteVars>>

(* It returns EAGAIN.                                                        *)
SendEofLater ==
    /\ turn = "write" /\ "out" \in revents /\ totwritten = Total
    /\ act' = TRUE
    /\ turn' = "check"
    /\ UNCHANGED <<revents, pollOut, totwritten, totread, eof, remoteVars>>

(* Faulty variant: nothing is read before all is written.                    *)
NoWriteBeforeRead ==
    /\ turn = "write" /\ "out" \notin revents
    /\ turn' = IF totwritten < Total THEN "write" ELSE "check"
    /\ UNCHANGED <<revents, act, pollOut, totwritten, totread, eof, remoteVars>>

NoWrite ==
    /\ turn = "write" /\ "out" \notin revents
    /\ turn' = "check"
    /\ UNCHANGED <<revents, act, pollOut, totwritten, totread, eof, remoteVars>>

(* The channel is closed: leave, but not in a turn that did something.       *)
(* Faulty variant: leave at once.                                            *)
CheckClosedAtOnce ==
    /\ turn = "check"
    /\ turn' = IF "closed" \in revents THEN "left" ELSE "poll"
    /\ UNCHANGED <<revents, act, pollOut, totwritten, totread, eof, remoteVars>>

CheckClosed ==
    /\ turn = "check"
    /\ turn' = IF "closed" \in revents /\ ~act THEN "left" ELSE "poll"
    /\ UNCHANGED <<revents, act, pollOut, totwritten, totread, eof, remoteVars>>

(* A read, a write or the EOF fails on a connection that is lost: exit(1).   *)
CallFails ==
    /\ turn \in {"read", "write"} /\ cat = "lost"
    /\ revents \cap {"in", "out"} # {}
    /\ turn' = "exit"
    /\ UNCHANGED <<revents, act, pollOut, totwritten, totread, eof, remoteVars>>

EchoLoop ==
    \/ Poll \/ Read \/ NoRead \/ Write \/ SendEof \/ SendEofLater \/ NoWrite
    \/ CheckClosed \/ CallFails

-----------------------------------------------------------------------------
(* The remote.  It answers what it has read within the window of the client, *)
(* and closes at the end of the stream.                                      *)

Echoes ==
    /\ cat = "up" /\ catIn > 0 /\ queue < Window
    /\ catIn' = catIn - 1 /\ queue' = queue + 1
    /\ UNCHANGED <<turn, revents, act, pollOut, totwritten, totread, eof, cat>>

CatEnds ==
    /\ cat = "up" /\ eof /\ catIn = 0
    /\ cat' = "done"
    /\ UNCHANGED <<turn, revents, act, pollOut, totwritten, totread, eof, catIn, queue>>

CatStops ==
    /\ cat = "up" /\ cat' \in {"killed", "lost"}
    /\ UNCHANGED <<turn, revents, act, pollOut, totwritten, totread, eof, catIn, queue>>

EchoNext == EchoLoop \/ PollBlind \/ Echoes \/ CatEnds \/ CatStops

-----------------------------------------------------------------------------
(* No more is read than was written, no more written than totsize, and       *)
(* neither side is sent more than its window.                                *)
EchoTypeOK ==
    /\ turn \in {"poll", "read", "write", "check", "left", "exit", "blind"}
    /\ revents \subseteq {"in", "out", "closed"}
    /\ act \in BOOLEAN /\ pollOut \in BOOLEAN /\ eof \in BOOLEAN
    /\ totwritten \in 0 .. Total /\ totread \in 0 .. totwritten
    /\ catIn \in 0 .. Window /\ queue \in 0 .. Window
    /\ cat \in {"up", "done", "killed", "lost"}

(* "don't leave loop until we have read all data" (ssh2_echo.c:324): when    *)
(* cat came to its end, the loop is left with all that was to be written     *)
(* written, and all of it read back.                                         *)
EchoComplete ==
    turn = "left" /\ cat = "done" => totwritten = Total /\ totread = Total
=============================================================================
