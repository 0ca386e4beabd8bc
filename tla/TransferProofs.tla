--------------------------- MODULE TransferProofs ----------------------------
(* All transfer loops, for files, buffers and calls of any size: what has    *)
(* been read of the file and has not come out is in mem, as long as no call  *)
(* failed; after a failure nothing more comes out.                           *)
EXTENDS Transfer, StreamLemmas

TransferTypes ==
    /\ program \in Downloads \cup Uploads
    /\ pc \in {"read", "fill", "write", "done"}
    /\ pc = "read" => program \in Downloads
    /\ pc \in {"fill", "write"} => program \in Uploads
    /\ file \in Seq(Data) /\ rest \in Seq(Data) /\ out \in Seq(Data)
    /\ Len(rest) <= BufLen
    /\ arrived \in 0 .. Len(Stream)
    /\ pos \in 0 .. Len(file)
    /\ program \in Downloads => pos <= arrived
    /\ closed \in BOOLEAN /\ lost \in BOOLEAN /\ err \in BOOLEAN
    /\ shortfall \in BOOLEAN

(* Uploads never leave a hole, downloads none before a local write has       *)
(* fallen short.                                                             *)
Gapless == program \in Uploads \/ ~shortfall

(* scp_write goes on after a failure, and drops the block that failed: that  *)
(* the connection is lost for good is what keeps it from leaving a hole.     *)
Copied ==
    /\ Gapless => IsFront(out, file)
    /\ Gapless /\ ~err => Flows(file, out, rest, After(file, pos))
    /\ program \in Downloads => rest = <<>>
    /\ err => pc = "done" \/ (program \in Uploads /\ lost)
    /\ closed /\ program \in Downloads \ Sized => arrived = Len(file)

TransferInv == TransferTypes /\ Copied

-----------------------------------------------------------------------------
(* The programs, the stream and the buffer.                                  *)

LEMMA Kinds ==
    /\ \A p \in Downloads : p \notin Uploads /\ p # "scp_write"
    /\ Sized \subseteq Downloads
    /\ "scp_write" \in Uploads /\ "scp_nonblock" \in Sized
    /\ "sftp_RW_nonblock" \in Downloads
BY DEF Downloads, Uploads, BlockUploads, Sized

(* The server's stream begins with the file.                                 *)
LEMMA StreamFacts ==
    ASSUME file \in Seq(Data)
    PROVE  /\ Len(Stream) \in Len(file) .. Len(file) + 1
           /\ program \notin Sized => Len(Stream) = Len(file)
           /\ \A m, n \in Nat : m + n <= Len(file) =>
                  SubSeq(Stream, m + 1, m + n) = SubSeq(file, m + 1, m + n)
<1>1. CASE program \in Sized
  <2>1. Stream = Append(file, Status)
    BY <1>1 DEF Stream
  <2>2. Len(Append(file, Status)) = Len(file) + 1 /\ Len(file) \in Nat
    OBVIOUS
  <2>3. ASSUME NEW m \in Nat, NEW n \in Nat, m + n <= Len(file)
        PROVE  SubSeq(Append(file, Status), m + 1, m + n) = SubSeq(file, m + 1, m + n)
    BY <2>3
  <2> QED
    BY <1>1, <2>1, <2>2, <2>3
<1>2. CASE program \notin Sized
  <2>1. Stream = file /\ Len(file) \in Nat
    BY <1>2 DEF Stream
  <2> QED
    BY <1>2, <2>1
<1> QED
  BY <1>1, <1>2

(* Reading on splits what is left of the file.                               *)
ReadParts(n) ==
    /\ SubSeq(file, pos + 1, pos + n) \in Seq(Data)
    /\ Len(SubSeq(file, pos + 1, pos + n)) = n
    /\ After(file, pos + n) \in Seq(Data)
    /\ After(file, pos) = SubSeq(file, pos + 1, pos + n) \o After(file, pos + n)

LEMMA ReadOn ==
    ASSUME file \in Seq(Data), pos \in Nat, NEW n \in Nat, pos + n <= Len(file)
    PROVE  ReadParts(n)
<1>1. pos + n \in pos .. Len(file)
  OBVIOUS
<1>2. /\ SubSeq(file, pos + 1, pos + n) \in Seq(Data)
      /\ Len(SubSeq(file, pos + 1, pos + n)) = (pos + n) - pos
      /\ SubSeq(file, (pos + n) + 1, Len(file)) \in Seq(Data)
      /\ SubSeq(file, pos + 1, pos + n) \o SubSeq(file, (pos + n) + 1, Len(file))
           = SubSeq(file, pos + 1, Len(file))
  BY <1>1, AdjacentParts
<1>3. (pos + n) - pos = n
  OBVIOUS
<1> QED
  BY <1>2, <1>3, Zenon DEF ReadParts, After

-----------------------------------------------------------------------------
(* The steps.                                                                *)

LEMMA TransferInitInv ==
    Init => TransferInv
<1> SUFFICES ASSUME Init PROVE TransferInv
  OBVIOUS
<1>1. /\ program \in Downloads \cup Uploads
      /\ pc = IF program \in Downloads THEN "read" ELSE "fill"
      /\ arrived = 0 /\ closed = FALSE /\ lost = FALSE
      /\ pos = 0 /\ rest = <<>> /\ out = <<>> /\ err = FALSE /\ shortfall = FALSE
  BY DEF Init, Starts
<1>2. file \in Seq(Data)
  <2>1. PICK n \in 0 .. MaxLen : file \in [1 .. n -> Data]
    BY DEF Init, Starts, Files
  <2> QED
    BY <2>1, TransferAssumption, SeqDef
<1>3. rest \in Seq(Data) /\ out \in Seq(Data) /\ Len(rest) <= BufLen
  BY <1>1, TransferAssumption
<1>4. arrived \in 0 .. Len(Stream) /\ pos \in 0 .. Len(file) /\ pos <= arrived
  BY <1>1, <1>2, StreamFacts
<1>5. TransferTypes
  BY <1>1, <1>2, <1>3, <1>4, Kinds DEF TransferTypes
<1>6. IsFront(out, file)
  BY <1>1, <1>2 DEF IsFront
<1>7. Flows(file, out, rest, After(file, pos))
  <2>1. SubSeq(file, 1, Len(file)) = file /\ <<>> \o (<<>> \o file) = file
    BY <1>2
  <2> QED
    BY <1>1, <2>1 DEF Flows, After
<1> QED
  BY <1>1, <1>5, <1>6, <1>7 DEF TransferInv, Copied

(* A read takes the next bytes of the file, and passes on a start of them.   *)
ReadTakes(n, m) ==
    /\ pos' = pos + n
    /\ out' = out \o SubSeq(file, pos + 1, pos + m)
    /\ shortfall' = (shortfall \/ m < n)

LEMMA ReadSomeStep ==
    ASSUME TransferInv, ReadSome
    PROVE  /\ pc = "read" /\ program \in Downloads
           /\ \E n \in Nat : \E m \in 0 .. n :
                n > 0 /\ pos + n <= arrived /\ pos + n <= Len(file) /\ ReadTakes(n, m)
<1> PICK n \in 1 .. Least(Amount, arrived - pos) : \E m \in 0 .. n :
        /\ out' = out \o SubSeq(Stream, pos + 1, pos + m)
        /\ pos' = pos + n
        /\ shortfall' = (shortfall \/ m < n)
  BY DEF ReadSome
<1> PICK m \in 0 .. n :
        /\ out' = out \o SubSeq(Stream, pos + 1, pos + m)
        /\ pos' = pos + n
        /\ shortfall' = (shortfall \/ m < n)
  OBVIOUS
<1>1. /\ pc = "read" /\ ~Complete /\ program \in Downloads /\ file \in Seq(Data)
      /\ pos \in 0 .. Len(file) /\ arrived \in 0 .. Len(Stream)
  BY Kinds DEF ReadSome, TransferInv, TransferTypes
<1>2. /\ Len(Stream) \in Len(file) .. Len(file) + 1
      /\ program \notin Sized => Len(Stream) = Len(file)
  BY <1>1, StreamFacts
<1>3. n \in Nat /\ n > 0 /\ pos + n <= arrived /\ pos + n <= Len(file)
  <2>1. CASE program \in Sized
    BY <1>1, <1>2, <2>1, TransferAssumption DEF Least, Amount
  <2>2. CASE program \notin Sized
    BY <1>1, <1>2, <2>2, TransferAssumption DEF Least, Amount
  <2> QED
    BY <2>1, <2>2
<1>4. SubSeq(Stream, pos + 1, pos + m) = SubSeq(file, pos + 1, pos + m)
  <2>1. pos \in Nat /\ m \in Nat /\ pos + m <= Len(file)
    BY <1>1, <1>3
  <2>2. \A j, k \in Nat : j + k <= Len(file) =>
            SubSeq(Stream, j + 1, j + k) = SubSeq(file, j + 1, j + k)
    BY <1>1, StreamFacts
  <2> QED
    BY <2>1, <2>2, Zenon
<1>5. ReadTakes(n, m) /\ m \in 0 .. n
  BY <1>4 DEF ReadTakes
<1> QED
  BY <1>1, <1>3, <1>5

(* Where all that was read is passed on, nothing is left out.                *)
LEMMA ReadSomeFlows ==
    ASSUME file \in Seq(Data), out \in Seq(Data), pos \in Nat,
           NEW n \in Nat, n > 0, pos + n <= Len(file),
           Flows(file, out, <<>>, After(file, pos))
    PROVE  LET part == SubSeq(file, pos + 1, pos + n) IN
           /\ Flows(file, out \o part, <<>>, After(file, pos + n))
           /\ IsFront(out \o part, file)
<1> DEFINE part == SubSeq(file, pos + 1, pos + n)
<1>1. /\ part \in Seq(Data) /\ Len(part) = n /\ After(file, pos + n) \in Seq(Data)
      /\ After(file, pos) = part \o After(file, pos + n)
  <2>1. ReadParts(n)
    BY ReadOn
  <2> QED
    BY <2>1, Zenon DEF ReadParts
<1> HIDE DEF part
<1>2. Flows(file, out, part, After(file, pos + n))
  BY <1>1, FlowTakes
<1>3. part \o <<>> = part /\ <<>> \in Seq(Data)
  BY <1>1
<1>4. Flows(file, out, part \o <<>>, After(file, pos + n))
  BY <1>2, <1>3
<1>5. /\ Flows(file, out \o part, <<>>, After(file, pos + n))
      /\ IsFront(out \o part, file)
  BY <1>1, <1>3, <1>4, FlowPasses
<1> QED
  BY <1>5 DEF part

LEMMA ReadSomeInv ==
    ASSUME TransferInv, ReadSome
    PROVE  TransferInv'
<1>1. UNCHANGED <<program, file, arrived, closed, lost, pc, rest, err>>
  BY DEF ReadSome, world
<1>2. pc = "read" /\ program \in Downloads /\ program \notin Uploads
  BY ReadSomeStep, Kinds
<1> PICK n \in Nat : \E m \in 0 .. n :
        n > 0 /\ pos + n <= arrived /\ pos + n <= Len(file) /\ ReadTakes(n, m)
  BY ReadSomeStep
<1> PICK m \in 0 .. n :
        n > 0 /\ pos + n <= arrived /\ pos + n <= Len(file) /\ ReadTakes(n, m)
  OBVIOUS
<1>3. /\ file \in Seq(Data) /\ out \in Seq(Data) /\ rest = <<>> /\ err = FALSE
      /\ pos \in 0 .. Len(file) /\ shortfall \in BOOLEAN
  BY <1>2 DEF TransferInv, TransferTypes, Copied
<1>4. /\ pos' = pos + n /\ pos' \in 0 .. Len(file) /\ pos' <= arrived
      /\ shortfall' \in BOOLEAN /\ (~shortfall' => ~shortfall /\ m = n)
  <2>1. pos' = pos + n /\ shortfall' = (shortfall \/ m < n)
    BY DEF ReadTakes
  <2>2. pos + n \in 0 .. Len(file) /\ pos + n <= arrived
    BY <1>3
  <2>3. ~(m < n) => m = n
    OBVIOUS
  <2>4. shortfall' \in BOOLEAN /\ (~shortfall' => ~shortfall /\ ~(m < n))
    BY <1>3, <2>1
  <2> QED
    BY <2>1, <2>2, <2>3, <2>4
<1>5. out' \in Seq(Data)
  <2>1. SubSeq(file, pos + 1, pos + m) \in Seq(Data)
    BY <1>3
  <2> QED
    BY <1>3, <2>1 DEF ReadTakes
<1>6. Stream' = Stream
  BY <1>1 DEF Stream
<1>7. TransferTypes'
  BY <1>1, <1>4, <1>5, <1>6 DEF TransferInv, TransferTypes
<1>8. ~shortfall' => IsFront(out', file) /\ Flows(file, out', <<>>, After(file, pos'))
  <2> SUFFICES ASSUME ~shortfall'
               PROVE  IsFront(out', file) /\ Flows(file, out', <<>>, After(file, pos'))
    OBVIOUS
  <2>1. Flows(file, out, <<>>, After(file, pos))
    BY <1>3, <1>4 DEF TransferInv, Copied, Gapless
  <2>2. out' = out \o SubSeq(file, pos + 1, pos + n)
    BY <1>4 DEF ReadTakes
  <2>3. pos \in Nat
    BY <1>3
  <2> QED
    BY <1>3, <1>4, <2>1, <2>2, <2>3, ReadSomeFlows
<1>9. Copied'
  BY <1>1, <1>2, <1>3, <1>8 DEF TransferInv, Copied, Gapless, After
<1> QED
  BY <1>7, <1>9 DEF TransferInv

(* Leaving the loop changes nothing else; a failed write of scp_write drops  *)
(* what is in mem.                                                           *)
LEMMA LeaveInv ==
    ASSUME TransferInv,
           \/ ReadEnd \/ ReadShort \/ ReadFails \/ ReadTimesOut
           \/ WriteNothing \/ WriteFails
    PROVE  TransferInv'
<1>1. /\ UNCHANGED <<program, file, arrived, closed, lost, pos, out, shortfall>>
      /\ Stream' = Stream
  BY DEF ReadEnd, ReadShort, ReadFails, ReadTimesOut, WriteNothing, WriteFails, Leave, world, Stream
<1>2. ASSUME WriteFails, program = "scp_write" PROVE TransferInv'
  <2>1. pc' = "fill" /\ rest' = <<>> /\ err' = TRUE /\ lost /\ program \in Uploads
    BY <1>2, Kinds DEF WriteFails
  <2>2. <<>> \in Seq(Data) /\ Len(<<>>) <= BufLen
    BY TransferAssumption
  <2>3. TransferTypes'
    BY <1>1, <2>1, <2>2, Kinds DEF TransferInv, TransferTypes
  <2>4. Copied'
    BY <1>1, <2>1, Kinds DEF TransferInv, Copied, Gapless
  <2> QED
    BY <2>3, <2>4 DEF TransferInv
<1>3. ASSUME ~(WriteFails /\ program = "scp_write") PROVE TransferInv'
  <2>1. pc' = "done" /\ rest' = rest
    BY <1>3 DEF ReadEnd, ReadShort, ReadFails, ReadTimesOut, WriteNothing,
                  WriteFails, Leave
  <2>2. err' \in BOOLEAN /\ (err => err')
    <3>1. err \in BOOLEAN
      BY DEF TransferInv, TransferTypes
    <3>2. err' = (err \/ TRUE) \/ err' = (err \/ FALSE)
      BY <1>3 DEF ReadEnd, ReadShort, ReadFails, ReadTimesOut, WriteNothing,
                  WriteFails, Leave
    <3> QED
      BY <3>1, <3>2
  <2>3. TransferTypes'
    BY <1>1, <2>1, <2>2 DEF TransferInv, TransferTypes
  <2>4. Copied'
    BY <1>1, <2>1, <2>2 DEF TransferInv, Copied, Gapless, After
  <2> QED
    BY <2>3, <2>4 DEF TransferInv
<1> QED
  BY <1>2, <1>3

(* What is read of the file goes to mem behind what is there, all that is    *)
(* asked for or less.                                                        *)
Fills(n) ==
    /\ rest' = rest \o SubSeq(file, pos + 1, pos + n)
    /\ pos' = pos + n
    /\ shortfall' = (shortfall \/ n < Least(BufLen - Len(rest), Len(file) - pos))

LEMMA FillStep ==
    ASSUME TransferInv, Fill
    PROVE  /\ pc = "fill" /\ pc' \in {"done", "write"}
           /\ pc' = "done" => rest' = <<>>
           /\ err' = err
           /\ UNCHANGED <<program, file, arrived, closed, lost, out>>
           /\ \E n \in Nat :
                pos + n <= Len(file) /\ Len(rest) + n <= BufLen /\ Fills(n)
<1>1. /\ pc = "fill" /\ pc' \in {"done", "write"}
      /\ pc' = "done" => rest' = <<>>
      /\ err' \in {err, err \/ FALSE}
      /\ UNCHANGED <<program, file, arrived, closed, lost, out>>
  BY DEF Fill, Leave, world
<1>2. /\ file \in Seq(Data) /\ rest \in Seq(Data) /\ pos \in 0 .. Len(file)
      /\ Len(rest) <= BufLen /\ err \in BOOLEAN
  BY DEF TransferInv, TransferTypes
<1>3. PICK n \in 0 .. Least(BufLen - Len(rest), Len(file) - pos) : Fills(n)
  BY DEF Fill, Fills
<1>4. n \in Nat /\ pos + n <= Len(file) /\ Len(rest) + n <= BufLen
  BY <1>2, TransferAssumption DEF Least
<1>5. err' = err
  BY <1>1, <1>2
<1> QED
  BY <1>1, <1>3, <1>4, <1>5

LEMMA FillInv ==
    ASSUME TransferInv, Fill
    PROVE  TransferInv'
<1>1. /\ pc = "fill" /\ pc' \in {"done", "write"} /\ err' = err
      /\ UNCHANGED <<program, file, arrived, closed, lost, out>>
  BY FillStep
<1>2. /\ program \in Uploads /\ program \notin Downloads
      /\ file \in Seq(Data) /\ rest \in Seq(Data) /\ pos \in 0 .. Len(file)
      /\ Len(rest) <= BufLen /\ out \in Seq(Data)
      /\ err \in BOOLEAN /\ shortfall \in BOOLEAN
  BY <1>1, Kinds DEF TransferInv, TransferTypes
<1> PICK n \in Nat : pos + n <= Len(file) /\ Len(rest) + n <= BufLen /\ Fills(n)
  BY FillStep
<1> DEFINE part == SubSeq(file, pos + 1, pos + n)
<1>3. rest' = rest \o part /\ pos' = pos + n /\ shortfall' \in BOOLEAN
  BY <1>2 DEF Fills
<1>4. /\ part \in Seq(Data) /\ Len(part) = n /\ After(file, pos + n) \in Seq(Data)
      /\ After(file, pos) = part \o After(file, pos + n)
  <2>1. ReadParts(n)
    BY <1>2, ReadOn
  <2> QED
    BY <2>1, Zenon DEF ReadParts
<1> HIDE DEF part
<1>5. rest' \in Seq(Data) /\ Len(rest') = Len(rest) + n /\ Stream' = Stream
  <2>1. part \in Seq(Data) /\ Len(part) = n
    BY <1>4
  <2>2. rest \o part \in Seq(Data) /\ Len(rest \o part) = Len(rest) + Len(part)
    <3>1. rest \in Seq(Data)
      BY <1>2
    <3> QED
      BY <2>1, <3>1
  <2> QED
    BY <1>1, <1>3, <2>1, <2>2 DEF Stream
<1>6. TransferTypes'
  BY <1>1, <1>2, <1>3, <1>5 DEF TransferInv, TransferTypes
<1>7. ~err => Flows(file, out, rest', After(file, pos'))
  <2> SUFFICES ASSUME ~err PROVE Flows(file, out, rest \o part, After(file, pos + n))
    BY <1>3
  <2>1. Flows(file, out, rest, part \o After(file, pos + n))
    BY <1>2, <1>4 DEF TransferInv, Copied, Gapless
  <2> QED
    BY <1>2, <1>4, <2>1, FlowFills
<1>8. IsFront(out, file)
  BY <1>2 DEF TransferInv, Copied, Gapless
<1>9. Copied'
  BY <1>1, <1>2, <1>7, <1>8 DEF TransferInv, Copied, Gapless, After
<1> QED
  BY <1>6, <1>9 DEF TransferInv

(* A write passes on the front of mem.                                       *)
LEMMA WriteSomeStep ==
    ASSUME TransferInv, WriteSome
    PROVE  /\ out' \in Seq(Data) /\ Len(out') > Len(out)
           /\ rest' \in Seq(Data) /\ Len(rest') <= BufLen
           /\ IsFront(out', file)
           /\ Flows(file, out', rest', After(file, pos))
<1> PICK n \in 1 .. Len(rest) : out' = out \o Upto(rest, n) /\ rest' = After(rest, n)
  BY DEF WriteSome
<1>1. /\ rest \in Seq(Data) /\ out \in Seq(Data) /\ file \in Seq(Data)
      /\ pos \in 0 .. Len(file) /\ Len(rest) <= BufLen
  BY DEF TransferInv, TransferTypes
<1>2. Flows(file, out, rest, After(file, pos)) /\ err = FALSE
  BY Kinds DEF WriteSome, TransferInv, TransferTypes, Copied, Gapless
<1> DEFINE part == SubSeq(rest, 1, n)
           left == SubSeq(rest, n + 1, Len(rest))
<1>3. /\ part \in Seq(Data) /\ Len(part) = n
      /\ left \in Seq(Data) /\ Len(left) = Len(rest) - n
      /\ part \o left = rest
  BY <1>1, FrontAndRest
<1>4. out' = out \o part /\ rest' = left
  BY DEF Upto, After
<1>5. After(file, pos) \in Seq(Data)
  BY <1>1 DEF After
<1> HIDE DEF part, left
<1>6. Flows(file, out, part \o left, After(file, pos))
  BY <1>2, <1>3
<1>7. /\ out \o part \in Seq(Data)
      /\ Len(out \o part) = Len(out) + Len(part)
      /\ Flows(file, out \o part, left, After(file, pos))
      /\ IsFront(out \o part, file)
  BY <1>1, <1>3, <1>5, <1>6, FlowPasses
<1> QED
  BY <1>1, <1>3, <1>4, <1>7, TransferAssumption

LEMMA WriteSomeInv ==
    ASSUME TransferInv, WriteSome
    PROVE  TransferInv'
<1>1. /\ UNCHANGED <<program, file, arrived, closed, lost, pos, err, shortfall>>
      /\ pc = "write" /\ pc' \in {"write", "fill"} /\ Stream' = Stream
  BY DEF WriteSome, world, Stream
<1>2. /\ out' \in Seq(Data) /\ rest' \in Seq(Data) /\ Len(rest') <= BufLen
      /\ IsFront(out', file)
      /\ Flows(file, out', rest', After(file, pos))
  BY WriteSomeStep
<1>3. program \in Uploads /\ program \notin Downloads
  BY <1>1, Kinds DEF TransferInv, TransferTypes
<1>4. TransferTypes'
  BY <1>1, <1>2, <1>3 DEF TransferInv, TransferTypes
<1>5. Copied'
  BY <1>1, <1>2, <1>3 DEF TransferInv, TransferTypes, Copied, Gapless, After
<1> QED
  BY <1>4, <1>5 DEF TransferInv

(* The server sends, stops or is lost.                                       *)
LEMMA WorldInv ==
    ASSUME TransferInv, ServerSends \/ ServerCloses \/ Break
    PROVE  TransferInv'
<1>1. UNCHANGED <<program, pc, file, pos, rest, out, err, shortfall>> /\ Stream' = Stream
  BY DEF ServerSends, ServerCloses, Break, Stream
<1>2. /\ file \in Seq(Data) /\ arrived \in 0 .. Len(Stream) /\ Len(Stream) \in Nat
      /\ program \notin Sized => Len(Stream) = Len(file)
  BY StreamFacts DEF TransferInv, TransferTypes
<1>3. closed' \in BOOLEAN /\ lost' \in BOOLEAN /\ (lost => lost')
  BY DEF ServerSends, ServerCloses, Break, TransferInv, TransferTypes
<1>4. arrived' \in 0 .. Len(Stream) /\ arrived <= arrived'
  BY <1>2 DEF ServerSends, ServerCloses, Break
<1>5. closed' /\ program \in Downloads \ Sized => arrived' = Len(file)
  BY <1>2 DEF ServerSends, ServerCloses, Break, TransferInv, Copied
<1>6. TransferTypes'
  BY <1>1, <1>2, <1>3, <1>4 DEF TransferInv, TransferTypes
<1>7. Copied'
  BY <1>1, <1>3, <1>5 DEF TransferInv, Copied, Gapless, After
<1> QED
  BY <1>6, <1>7 DEF TransferInv

LEMMA TransferNextInv ==
    TransferInv /\ [Next]_vars => TransferInv'
<1> SUFFICES ASSUME TransferInv, [Next]_vars PROVE TransferInv'
  OBVIOUS
<1>1. CASE Next
  BY <1>1, ReadSomeInv, LeaveInv, FillInv, WriteSomeInv, WorldInv DEF Next, Loop
<1>2. CASE UNCHANGED vars
  <2>1. /\ UNCHANGED <<program, pc, file, arrived, closed, lost, pos, rest, out, err,
                       shortfall>>
        /\ Stream' = Stream
    BY <1>2 DEF vars, Stream
  <2> QED
    BY <2>1 DEF TransferInv, TransferTypes, Copied, Gapless, After
<1> QED
  BY <1>1, <1>2

(* What is in mem, and how far out and pos are, is known at every step.      *)
THEOREM TransferInvariant == Spec => []TransferInv
<1> QED
  BY TransferInitInv, TransferNextInv, PTL DEF Spec

-----------------------------------------------------------------------------
(* The properties of the run.                                                *)

(* Types and the bounds of mem hold for all loops; the status byte behind an *)
(* SCP server's file is never even in mem.                                   *)
THEOREM TransferTypeCorrect == Spec => []TypeOK
<1>1. TransferInv => TypeOK
  <2> SUFFICES ASSUME TransferInv PROVE TypeOK
    OBVIOUS
  <2>1. pc \in {"fill", "write"} => program \notin Downloads
    BY Kinds DEF TransferInv, TransferTypes
  <2>2. out \in Seq(Data \cup {Status}) /\ pos \in 0 .. Len(Stream)
    BY StreamFacts DEF TransferInv, TransferTypes
  <2> QED
    BY <2>1, <2>2 DEF TransferInv, TransferTypes, TypeOK
<1> QED
  BY <1>1, TransferInvariant, PTL

(* A loop that ends without an error has copied the whole file, unless a     *)
(* local call fell short.                                                    *)
LEMMA WholeAtEnd ==
    ASSUME TransferInv, ReadEnd \/ Fill, pc' = "done", ~err', ~shortfall'
    PROVE  out = file
<1>1. /\ file \in Seq(Data) /\ out \in Seq(Data) /\ rest \in Seq(Data)
      /\ pos \in 0 .. Len(file) /\ Len(rest) <= BufLen
      /\ err \in BOOLEAN /\ shortfall \in BOOLEAN
  BY DEF TransferInv, TransferTypes
<1>2. ~err /\ ~shortfall /\ rest = <<>> /\ pos = Len(file)
  <2>1. CASE ReadEnd
    <3>1. ~err /\ ~shortfall
      BY <1>1, <2>1 DEF ReadEnd, Leave
    <3> QED
      BY <2>1, <3>1 DEF ReadEnd, Complete, TransferInv, TransferTypes, Copied
  <2>2. CASE Fill
    <3>1. err' = err /\ rest' = <<>>
      BY <2>2, FillStep
    <3> PICK n \in Nat : pos + n <= Len(file) /\ Len(rest) + n <= BufLen /\ Fills(n)
      BY <2>2, FillStep
    <3> DEFINE part == SubSeq(file, pos + 1, pos + n)
    <3>2. /\ rest \o part = <<>> /\ ~shortfall
          /\ ~(n < Least(BufLen - Len(rest), Len(file) - pos))
      BY <1>1, <3>1 DEF Fills
    <3>3. part \in Seq(Data) /\ Len(part) = n
      <4>1. ReadParts(n)
        BY <1>1, ReadOn
      <4> QED
        BY <4>1, Zenon DEF ReadParts
    <3> HIDE DEF part
    <3>4. Len(rest) = 0 /\ n = 0 /\ rest = <<>>
      BY <1>1, <3>2, <3>3
    <3>5. pos = Len(file)
      BY <1>1, <3>2, <3>4, TransferAssumption DEF Least
    <3> QED
      BY <3>1, <3>2, <3>4, <3>5
  <2> QED
    BY <2>1, <2>2
<1>3. Flows(file, out, rest, After(file, pos))
  BY <1>2 DEF TransferInv, Copied, Gapless
<1>4. After(file, pos) = <<>>
  BY <1>1, <1>2 DEF After
<1> QED
  BY <1>1, <1>2, <1>3, <1>4, FlowEnds

(* What the refinement maps to the variables of Copy.                        *)
copied == <<file, out, Reached, shortfall, Verdict>>

(* A read whose bytes are all written extends the copy, and one whose local  *)
(* write falls short leaves some of them out.                                *)
LEMMA ReadCopies ==
    ASSUME TransferInv, ReadSome
    PROVE  AsCopy!Extend \/ AsCopy!FallShort
<1>1. pc = "read" /\ program \in Downloads
  BY ReadSomeStep
<1> PICK n \in Nat : \E m \in 0 .. n :
        n > 0 /\ pos + n <= arrived /\ pos + n <= Len(file) /\ ReadTakes(n, m)
  BY ReadSomeStep
<1> PICK m \in 0 .. n :
        n > 0 /\ pos + n <= arrived /\ pos + n <= Len(file) /\ ReadTakes(n, m)
  OBVIOUS
<1>2. pos \in Nat /\ Len(file) \in Nat /\ shortfall \in BOOLEAN
  BY DEF TransferInv, TransferTypes
<1>3. program' = program /\ file' = file /\ pc' = pc
  BY DEF ReadSome, world
<1>4. /\ Verdict = "open" /\ Verdict' = "open"
      /\ Reached = pos /\ Reached' = pos + n
  BY <1>1, <1>3 DEF Verdict, Reached, ReadTakes
<1>5. CASE m = n
  <2>1. shortfall' = shortfall /\ out' = out \o SubSeq(file, Reached + 1, Reached')
    BY <1>2, <1>4, <1>5 DEF ReadTakes
  <2>2. Reached' \in Reached + 1 .. Len(file)
    BY <1>2, <1>4
  <2> QED
    BY <1>3, <1>4, <2>1, <2>2 DEF AsCopy!Extend
<1>6. CASE m < n
  <2>1. shortfall' = TRUE /\ out' = out \o SubSeq(file, Reached + 1, pos + m)
    BY <1>2, <1>4, <1>6 DEF ReadTakes
  <2>2. Reached' \in Reached .. Len(file) /\ pos + m \in Reached .. Reached'
    BY <1>2, <1>4
  <2> QED
    BY <1>3, <1>4, <2>1, <2>2 DEF AsCopy!FallShort
<1> QED
  BY <1>5, <1>6

(* A write extends the copy.                                                 *)
LEMMA WriteCopies ==
    ASSUME TransferInv, WriteSome
    PROVE  AsCopy!Extend
<1>1. /\ pc = "write" /\ pc' \in {"write", "fill"} /\ UNCHANGED <<program, file, shortfall>>
  BY DEF WriteSome, world
<1>2. /\ program \in Uploads /\ program \notin Downloads
      /\ file \in Seq(Data) /\ out \in Seq(Data)
      /\ IsFront(out, file)
  BY <1>1, Kinds DEF TransferInv, TransferTypes, Copied, Gapless
<1>3. out' \in Seq(Data) /\ Len(out') > Len(out) /\ IsFront(out', file)
  BY WriteSomeStep
<1>4. /\ Len(out') \in Len(out) + 1 .. Len(file)
      /\ out' = out \o SubSeq(file, Len(out) + 1, Len(out'))
  BY <1>2, <1>3, FrontExtends
<1>5. /\ Verdict = "open" /\ Verdict' = "open"
      /\ Reached = Len(out) /\ Reached' = Len(out')
  BY <1>1, <1>2 DEF Verdict, Reached
<1> QED
  BY <1>1, <1>4, <1>5 DEF AsCopy!Extend

(* Reading the file shows only where it falls short.                         *)
LEMMA FillCopies ==
    ASSUME TransferInv, Fill, pc' # "done"
    PROVE  AsCopy!FallShort \/ UNCHANGED copied
<1>1. /\ pc = "fill" /\ pc' = "write" /\ UNCHANGED <<program, file, out>>
  BY FillStep
<1>2. /\ program \notin Downloads
      /\ file \in Seq(Data) /\ out \in Seq(Data)
      /\ IsFront(out, file) /\ shortfall \in BOOLEAN
  BY <1>1, Kinds DEF TransferInv, TransferTypes, Copied, Gapless
<1>3. shortfall' \in {shortfall, TRUE}
  <2> PICK n \in Nat : Fills(n)
    BY FillStep
  <2> QED
    BY <1>2 DEF Fills
<1>4. /\ Verdict = "open" /\ Verdict' = "open"
      /\ Reached = Len(out) /\ Reached' = Len(out)
  BY <1>1, <1>2 DEF Verdict, Reached
<1>5. CASE shortfall' = shortfall
  BY <1>1, <1>4, <1>5 DEF copied
<1>6. CASE shortfall' = TRUE
  <2>1. Len(out) \in Len(out) .. Len(file)
    BY <1>2 DEF IsFront
  <2>2. out \o SubSeq(file, Len(out) + 1, Len(out)) = out
    BY <1>2
  <2> QED
    BY <1>1, <1>4, <1>6, <2>1, <2>2 DEF AsCopy!FallShort
<1> QED
  BY <1>3, <1>5, <1>6

LEMMA CopySteps ==
    ASSUME TransferInv, Next
    PROVE  AsCopy!Next \/ UNCHANGED copied
<1>1. /\ err \in BOOLEAN /\ shortfall \in BOOLEAN
  BY DEF TransferInv, TransferTypes
<1>2. ASSUME \/ ReadEnd \/ ReadShort \/ ReadFails \/ ReadTimesOut
             \/ Fill \/ WriteNothing \/ WriteFails,
             pc' = "done"
      PROVE  AsCopy!Finish
  <2>1. UNCHANGED <<program, file, out>> /\ pc # "done"
    BY <1>2 DEF ReadEnd, ReadShort, ReadFails, ReadTimesOut, Fill, WriteNothing,
                WriteFails, world
  <2>2. shortfall' \in {shortfall, TRUE} /\ Reached' = Reached
    <3>1. CASE Fill
      <4> PICK n \in Nat : Fills(n)
        BY <3>1, FillStep
      <4>1. program \notin Downloads
        BY <3>1, Kinds DEF Fill, TransferInv, TransferTypes
      <4> QED
        BY <1>1, <2>1, <4>1 DEF Fills, Reached
    <3>2. CASE ~Fill
      BY <1>2, <2>1, <3>2 DEF ReadEnd, ReadShort, ReadFails, ReadTimesOut, WriteNothing,
                              WriteFails, Reached
    <3> QED
      BY <3>1, <3>2
  <2>3. ~err' /\ ~shortfall' => out = file
    <3>1. CASE ReadEnd \/ Fill
      BY <1>2, <3>1, WholeAtEnd
    <3>2. CASE ReadShort \/ ReadFails \/ ReadTimesOut \/ WriteNothing \/ WriteFails
      BY <1>2, <3>2 DEF ReadShort, ReadFails, ReadTimesOut, WriteNothing, WriteFails, Leave
    <3> QED
      BY <1>2, <3>1, <3>2
  <2>4. Verdict = "open" /\ Verdict' = IF err' THEN "cut" ELSE "whole"
    BY <1>2, <2>1 DEF Verdict
  <2>5. Verdict' \in {"cut"} \cup {v \in {"whole"} : out = file \/ shortfall'}
    BY <1>1, <2>2, <2>3, <2>4
  <2> QED
    BY <2>1, <2>2, <2>4, <2>5 DEF AsCopy!Finish
<1>3. ASSUME WriteFails, pc' # "done" PROVE UNCHANGED copied
  BY <1>3 DEF WriteFails, Leave, Verdict, Reached, copied, world
<1>4. ASSUME ServerSends \/ ServerCloses \/ Break PROVE UNCHANGED copied
  BY <1>4 DEF ServerSends, ServerCloses, Break, Verdict, Reached, copied
<1>5. ASSUME ReadEnd \/ ReadShort \/ ReadFails \/ ReadTimesOut \/ WriteNothing
      PROVE  pc' = "done"
  BY <1>5 DEF ReadEnd, ReadShort, ReadFails, ReadTimesOut, WriteNothing, Leave
<1> QED
  BY <1>2, <1>3, <1>4, <1>5, ReadCopies, WriteCopies, FillCopies DEF Next, Loop, AsCopy!Next

(* Every transfer loop implements the copy, whatever fails: the bytes of the *)
(* file come out in order, none twice; an upload leaves none out, a download *)
(* only what a local write did not take; and a loop that ends without having *)
(* met an error has copied the whole file, unless a local call fell short.   *)
THEOREM TransferImplementsCopy == Spec => IsCopy
<1>1. Init => AsCopy!Init
  <2> SUFFICES ASSUME Init PROVE AsCopy!Init
    OBVIOUS
  <2>1. out = <<>> /\ pos = 0 /\ shortfall = FALSE /\ pc # "done"
    BY DEF Init, Starts
  <2>2. Len(out) = 0
    BY <2>1
  <2> QED
    BY <2>1, <2>2 DEF AsCopy!Init, Verdict, Reached
<1>2. TransferInv /\ [Next]_vars => [AsCopy!Next]_<<file, out, Reached, shortfall, Verdict>>
  <2> SUFFICES ASSUME TransferInv, [Next]_vars
               PROVE  AsCopy!Next \/ UNCHANGED copied
    BY DEF copied
  <2>1. CASE Next
    BY <2>1, CopySteps
  <2>2. CASE UNCHANGED vars
    BY <2>2 DEF vars, Verdict, Reached, copied
  <2> QED
    BY <2>1, <2>2
<1> QED
  BY <1>1, <1>2, TransferInvariant, PTL DEF Spec, IsCopy, AsCopy!Spec
=============================================================================
