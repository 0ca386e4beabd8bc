------------------------------ MODULE Transfer -------------------------------
(* The transfer loops of the SFTP, SCP and exec examples: a file comes from  *)
(* a server (downloads) or goes to one (uploads) through a buffer, in calls  *)
(* that move part of what they were asked to, would block, or fail because   *)
(* the connection is lost.  A call that would block is repeated by all these *)
(* programs with the same arguments: it changes nothing and is no step.      *)
EXTENDS Naturals, Sequences

CONSTANTS
    Data,      \* bytes
    Status,    \* the byte an SCP server sends behind a file
    BufLen,    \* the size of mem
    MaxLen     \* the longest file

ASSUME TransferAssumption ==
    /\ Status \notin Data
    /\ BufLen \in Nat \ {0} /\ MaxLen \in Nat

(* The programs, named after their files.                                    *)
Sized == {"scp", "scp_nonblock"}
Downloads == Sized \cup {"sftp", "sftp_nonblock", "sftp_RW_nonblock", "ssh2_exec"}
BlockUploads == {"sftp_write", "sftp_append", "sftp_write_nonblock",
                 "scp_write", "scp_write_nonblock"}
Uploads == BlockUploads \cup {"sftp_write_sliding"}

VARIABLES
    program,   \* which of the loops this is
    pc,        \* the call the loop is about to make
    file,      \* the file to be copied
    arrived,   \* how much of it (and of what follows) the server has sent
    closed,    \* the server has nothing more to send and has said so
    lost,      \* the connection is broken: calls fail
    pos,       \* how much has been read of the file (got, in scp.c)
    rest,      \* what is in mem and not written yet
    out,       \* the destination; in sftp_append, what follows the old end
    err,       \* a call failed, timed out, took nothing, or a file ended
               \* before its size
    shortfall  \* history: a local read or write fell short of what it was
               \* asked for, which none of the programs looks at

vars == <<program, pc, file, arrived, closed, lost, pos, rest, out, err, shortfall>>

world == <<program, file, arrived, closed, lost>>

Upto(s, n) == SubSeq(s, 1, n)
After(s, n) == SubSeq(s, n + 1, Len(s))
Least(m, n) == IF m < n THEN m ELSE n

Files == UNION {[1 .. n -> Data] : n \in 0 .. MaxLen}

Starts(programs) ==
    /\ program \in programs
    /\ pc = IF program \in Downloads THEN "read" ELSE "fill"
    /\ file \in Files
    /\ arrived = 0 /\ closed = FALSE /\ lost = FALSE
    /\ pos = 0 /\ rest = <<>> /\ out = <<>> /\ err = FALSE /\ shortfall = FALSE

Init == Starts(Downloads \cup Uploads)

Leave(failed) == pc' = "done" /\ err' = (err \/ failed)

-----------------------------------------------------------------------------
(* The server and the network.                                               *)

Stream == IF program \in Sized THEN Append(file, Status) ELSE file

ServerSends ==
    /\ program \in Downloads
    /\ ~closed /\ ~lost
    /\ arrived < Len(Stream)
    /\ arrived' = arrived + 1
    /\ UNCHANGED <<program, pc, file, closed, lost, pos, rest, out, err, shortfall>>

(* An SCP server may stop before it has sent what it announced.              *)
ServerCloses ==
    /\ program \in Downloads
    /\ ~closed /\ ~lost
    /\ arrived = Len(Stream) \/ program \in Sized
    /\ closed' = TRUE
    /\ UNCHANGED <<program, pc, file, arrived, lost, pos, rest, out, err, shortfall>>

Break ==
    /\ lost' = TRUE
    /\ UNCHANGED <<program, pc, file, arrived, closed, pos, rest, out, err, shortfall>>

-----------------------------------------------------------------------------
(* Downloads.                                                                *)

(* The SCP programs stop at the size they were told, and never ask for more. *)
Complete == program \in Sized /\ pos = Len(file)

(* Faulty variant: a whole buffer is asked for.                              *)
AmountUnclamped == BufLen

Amount == IF program \in Sized THEN Least(BufLen, Len(file) - pos) ELSE BufLen

(* A read gets n bytes, and the local write of them takes m: all, some, or   *)
(* none when it fails.  Nobody looks at its result.  (ssh2_exec writes byte  *)
(* by byte, which is as if it had read byte by byte.  What fwrite has taken  *)
(* into its buffer counts as written.)                                       *)
ReadSome ==
    /\ pc = "read" /\ ~Complete
    /\ \E n \in 1 .. Least(Amount, arrived - pos) : \E m \in 0 .. n :
         /\ out' = out \o SubSeq(Stream, pos + 1, pos + m)
         /\ pos' = pos + n
         /\ shortfall' = (shortfall \/ m < n)
    /\ UNCHANGED <<world, pc, rest, err>>

(* The size is reached; without a size, a read returns 0.                    *)
ReadEnd ==
    /\ pc = "read"
    /\ \/ Complete
       \/ program \notin Sized /\ closed /\ pos = arrived
    /\ Leave(FALSE)
    /\ UNCHANGED <<world, pos, rest, out, shortfall>>

(* A read returns 0 before the size is reached.  scp_nonblock stops; scp     *)
(* adds the 0 to got and reads again, for ever: no step.                     *)
ReadShort ==
    /\ pc = "read" /\ program = "scp_nonblock"
    /\ ~Complete /\ closed /\ pos = arrived
    /\ Leave(TRUE)
    /\ UNCHANGED <<world, pos, rest, out, shortfall>>

(* Faulty variant: an error is waited out like an EAGAIN.                    *)
ReadFailsRetries == pc = "read" /\ lost /\ UNCHANGED vars

ReadFails ==
    /\ pc = "read" /\ ~Complete
    /\ lost
    /\ Leave(TRUE)
    /\ UNCHANGED <<world, pos, rest, out, shortfall>>

(* sftp_RW_nonblock waits ten seconds for the socket, and no longer.         *)
ReadTimesOut ==
    /\ pc = "read" /\ program = "sftp_RW_nonblock"
    /\ pos = arrived /\ ~closed
    /\ Leave(TRUE)
    /\ UNCHANGED <<world, pos, rest, out, shortfall>>

-----------------------------------------------------------------------------
(* Uploads.                                                                  *)

(* fread into mem, behind what is still in it (nothing, but in               *)
(* sftp_write_sliding).  It gets what there is room for, up to the end of    *)
(* the file, or less when reading fails.  If it gets nothing, and nothing is *)
(* left in mem, the loop is over: an error is taken for the end of the file. *)
(* Faulty variant: the room that is taken is not counted.                    *)
FillOverfull ==
    /\ pc = "fill"
    /\ LET asked == Least(BufLen, Len(file) - pos) IN
       \E n \in 0 .. asked :
         /\ rest' = rest \o SubSeq(file, pos + 1, pos + n)
         /\ pos' = pos + n
         /\ shortfall' = (shortfall \/ n < asked)
    /\ IF rest' = <<>> THEN Leave(FALSE) ELSE pc' = "write" /\ err' = err
    /\ UNCHANGED <<world, out>>

Fill ==
    /\ pc = "fill"
    /\ LET asked == Least(BufLen - Len(rest), Len(file) - pos) IN
       \E n \in 0 .. asked :
         /\ rest' = rest \o SubSeq(file, pos + 1, pos + n)
         /\ pos' = pos + n
         /\ shortfall' = (shortfall \/ n < asked)
    /\ IF rest' = <<>> THEN Leave(FALSE) ELSE pc' = "write" /\ err' = err
    /\ UNCHANGED <<world, out>>

(* A write takes some of what it is given.  The block loops write the rest   *)
(* before they read on, sftp_write_sliding moves it to the start of mem.     *)
WriteSome ==
    /\ pc = "write" /\ ~lost
    /\ \E n \in 1 .. Len(rest) :
         /\ out' = out \o Upto(rest, n)
         /\ rest' = After(rest, n)
    /\ pc' = IF rest' # <<>> /\ program \in BlockUploads THEN "write" ELSE "fill"
    /\ UNCHANGED <<world, pos, err, shortfall>>

(* A write takes nothing: the block loops repeat it, which is no step, and   *)
(* sftp_write_sliding leaves the loop, as after an error.                    *)
WriteNothing ==
    /\ pc = "write" /\ ~lost
    /\ program = "sftp_write_sliding"
    /\ Leave(TRUE)
    /\ UNCHANGED <<world, pos, rest, out, shortfall>>

(* An error ends the transfer, but in scp_write, where it ends the block     *)
(* alone and the loop goes on with the next.                                 *)
WriteFails ==
    /\ pc = "write" /\ lost
    /\ IF program = "scp_write"
       THEN pc' = "fill" /\ rest' = <<>> /\ err' = TRUE
       ELSE Leave(TRUE) /\ rest' = rest
    /\ UNCHANGED <<world, pos, out, shortfall>>

Loop ==
    \/ ReadSome \/ ReadEnd \/ ReadShort \/ ReadFails
    \/ Fill \/ WriteSome \/ WriteNothing \/ WriteFails

Next == Loop \/ ReadTimesOut \/ ServerSends \/ ServerCloses \/ Break

Spec == Init /\ [][Next]_vars

(* The program runs; a server sends its file, and the end of it, and takes   *)
(* what it is sent, sooner or later, unless the connection breaks.           *)
FairSpec == Spec /\ WF_vars(Loop) /\ WF_vars(ServerSends \/ ServerCloses)

-----------------------------------------------------------------------------
(* The upload of sftp_RW_nonblock.  After any write nread is 0 (nread -=     *)
(* nread) and what a short write left is forgotten; the inner loop goes on   *)
(* writing nothing until EAGAIN, then waits for the socket and reads the     *)
(* next block.                                                               *)

PutSome ==
    /\ pc = "write" /\ ~lost
    /\ \E n \in 0 .. Len(rest) : out' = out \o Upto(rest, n)
    /\ rest' = <<>>
    /\ UNCHANGED <<world, pc, pos, err, shortfall>>

PutAgain ==
    /\ pc = "write" /\ ~lost
    /\ rest' = <<>>
    /\ \/ pc' = "fill" /\ err' = err
       \/ Leave(TRUE)
    /\ UNCHANGED <<world, pos, out, shortfall>>

PutSpec ==
    /\ Starts({"sftp_RW_nonblock_put"})
    /\ [][Fill \/ PutSome \/ PutAgain \/ WriteFails \/ Break]_vars

-----------------------------------------------------------------------------
(* Properties.                                                               *)

(* Types, and the bounds of mem.                                             *)
TypeOK ==
    /\ pc \in {"read", "fill", "write", "done"}
    /\ pc \in {"fill", "write"} => program \notin Downloads
    /\ {file, rest} \subseteq Seq(Data)
    /\ out \in Seq(Data \cup {Status})
    /\ Len(rest) <= BufLen
    /\ arrived \in 0 .. Len(Stream)
    /\ pos \in 0 .. Len(Stream)
    /\ {closed, lost, err, shortfall} \subseteq BOOLEAN

(* Every loop is a copy: short reads, short writes, EAGAIN and failures at   *)
(* any point, of the connection and of the files here, leave the bytes of    *)
(* the file at the destination in order, none twice, and never the status    *)
(* byte of an SCP server.  An upload never leaves a hole; a download leaves  *)
(* one only where a local write fell short; and a loop that ends without     *)
(* having met an error has copied the whole file, unless a local call fell   *)
(* short.                                                                    *)
Verdict ==
    IF pc # "done" THEN "open" ELSE IF err THEN "cut" ELSE "whole"

(* How far a download has read, and how much of an upload has come out.      *)
Reached == IF program \in Downloads THEN pos ELSE Len(out)

AsCopy == INSTANCE Copy WITH in <- file, at <- Reached, verdict <- Verdict

IsCopy == AsCopy!Spec

(* Each transfer ends, and so does one whose connection breaks or whose      *)
(* server stops early, if a server goes on taking what it is sent.  The one  *)
(* exception is scp.c, when the server closes before it has sent what it     *)
(* announced: it then reads 0 for ever (scp.c:149).                          *)
TransferEnds ==
    <>(pc = "done" \/ (program = "scp" /\ closed /\ arrived < Len(file)))

(* "upload the temporarily stored data to the destination path": no data is  *)
(* left out on the way (sftp_RW_nonblock.c, 280-281), where every read of    *)
(* the stored data got what it asked for.                                    *)
UploadsStoredData == ~shortfall => out = Upto(file, Len(out))
=============================================================================
