---------------------------- MODULE StreamLemmas -----------------------------
(* What the proofs about byte streams keep needing: a stream that is cut at  *)
(* some place, of which the front is passed on, and that grows at its end.   *)
EXTENDS Naturals, Sequences, SequenceTheorems, TLAPS

(* Two adjacent parts make one, empty parts included.                        *)
LEMMA AdjacentParts ==
    ASSUME NEW S, NEW s \in Seq(S), NEW m \in Nat, NEW n \in m .. Len(s)
    PROVE  /\ SubSeq(s, m + 1, n) \in Seq(S)
           /\ Len(SubSeq(s, m + 1, n)) = n - m
           /\ SubSeq(s, n + 1, Len(s)) \in Seq(S)
           /\ Len(SubSeq(s, n + 1, Len(s))) = Len(s) - n
           /\ SubSeq(s, m + 1, n) \o SubSeq(s, n + 1, Len(s)) = SubSeq(s, m + 1, Len(s))
<1>1. m + 1 \in 1 .. Len(s) + 1 /\ n \in (m + 1) - 1 .. Len(s) /\ Len(s) \in n .. Len(s)
  OBVIOUS
<1>2. SubSeq(s, m + 1, n) \o SubSeq(s, n + 1, Len(s)) = SubSeq(s, m + 1, Len(s))
  BY <1>1, ConcatAdjacentSubSeq, Zenon
<1>3. /\ SubSeq(s, m + 1, n) \in Seq(S)
      /\ Len(SubSeq(s, m + 1, n)) = n - m
      /\ SubSeq(s, n + 1, Len(s)) \in Seq(S)
      /\ Len(SubSeq(s, n + 1, Len(s))) = Len(s) - n
  OBVIOUS
<1> QED
  BY <1>2, <1>3

(* A stream is its front and its rest.                                       *)
LEMMA FrontAndRest ==
    ASSUME NEW S, NEW s \in Seq(S), NEW n \in 0 .. Len(s)
    PROVE  /\ SubSeq(s, 1, n) \in Seq(S)
           /\ Len(SubSeq(s, 1, n)) = n
           /\ SubSeq(s, n + 1, Len(s)) \in Seq(S)
           /\ Len(SubSeq(s, n + 1, Len(s))) = Len(s) - n
           /\ SubSeq(s, 1, n) \o SubSeq(s, n + 1, Len(s)) = s
<1>1. 1 \in 1 .. Len(s) + 1 /\ n \in 1 - 1 .. Len(s) /\ Len(s) \in n .. Len(s)
  OBVIOUS
<1>2. SubSeq(s, 1, n) \o SubSeq(s, n + 1, Len(s)) = SubSeq(s, 1, Len(s))
  BY <1>1, ConcatAdjacentSubSeq, Zenon
<1>3. SubSeq(s, 1, Len(s)) = s
  BY SubSeqFull, Zenon
<1>4. /\ SubSeq(s, 1, n) \in Seq(S)
      /\ Len(SubSeq(s, 1, n)) = n
      /\ SubSeq(s, n + 1, Len(s)) \in Seq(S)
      /\ Len(SubSeq(s, n + 1, Len(s))) = Len(s) - n
  OBVIOUS
<1> QED
  BY <1>2, <1>3, <1>4

-----------------------------------------------------------------------------
(* A stream on its way: out has come out, held is in a buffer, the rest      *)
(* waits.  The definitions stay hidden where the lemmas are used.            *)
Flows(given, out, held, waits) == given = out \o (held \o waits)

IsFront(out, given) == Len(out) <= Len(given) /\ out = SubSeq(given, 1, Len(out))

(* The front of what waits goes to the buffer, behind what is held.          *)
LEMMA FlowFills ==
    ASSUME NEW S, NEW given, NEW out, NEW held \in Seq(S), NEW part \in Seq(S),
           NEW left \in Seq(S), Flows(given, out, held, part \o left)
    PROVE  Flows(given, out, held \o part, left)
<1>1. held \o (part \o left) = (held \o part) \o left
  OBVIOUS
<1> QED
  BY <1>1, SMT DEF Flows

(* It goes to an empty buffer.                                               *)
LEMMA FlowTakes ==
    ASSUME NEW S, NEW given, NEW out, NEW part \in Seq(S), NEW left \in Seq(S),
           Flows(given, out, <<>>, part \o left)
    PROVE  Flows(given, out, part, left)
<1>1. <<>> \o (part \o left) = part \o left
  OBVIOUS
<1> QED
  BY <1>1, SMT DEF Flows

(* A part of what is held comes out, and what has come out is a front.       *)
LEMMA FlowPasses ==
    ASSUME NEW S, NEW given, NEW out \in Seq(S), NEW part \in Seq(S), NEW left \in Seq(S),
           NEW waits \in Seq(S), Flows(given, out, part \o left, waits)
    PROVE  /\ out \o part \in Seq(S)
           /\ Len(out \o part) = Len(out) + Len(part)
           /\ Flows(given, out \o part, left, waits)
           /\ IsFront(out \o part, given)
<1> DEFINE rest == left \o waits
<1>1. rest \in Seq(S) /\ (part \o left) \o waits = part \o rest
  OBVIOUS
<1>2. given = out \o ((part \o left) \o waits)
  BY DEF Flows
<1> HIDE DEF rest
<1>3. /\ out \o part \in Seq(S)
      /\ Len(out \o part) = Len(out) + Len(part)
      /\ (out \o part) \o rest = out \o (part \o rest)
      /\ Len(out \o part) <= Len(out \o (part \o rest))
      /\ out \o part = SubSeq(out \o (part \o rest), 1, Len(out \o part))
  BY <1>1
<1>4. given = out \o (part \o rest)
  BY <1>1, <1>2
<1>5. given = (out \o part) \o (left \o waits)
  BY <1>3, <1>4 DEF rest
<1>6. IsFront(out \o part, given)
  BY <1>3, <1>4 DEF IsFront
<1> QED
  BY <1>3, <1>5, <1>6 DEF Flows

(* What is appended to a stream is appended to its last part.                *)
AppendsToLast(s, t, d) == Append(s \o t, d) = s \o Append(t, d)

LEMMA AppendAssociative ==
    ASSUME NEW S, NEW s \in Seq(S), NEW t \in Seq(S), NEW d \in S
    PROVE  AppendsToLast(s, t, d)
BY DEF AppendsToLast

(* What is added to a stream is added to what waits.                         *)
LEMMA FlowGrows ==
    ASSUME NEW S, NEW given, NEW out \in Seq(S), NEW held \in Seq(S), NEW waits \in Seq(S),
           NEW d \in S, Flows(given, out, held, waits)
    PROVE  Flows(Append(given, d), out, held, Append(waits, d))
<1> DEFINE rest == held \o waits
<1>1. rest \in Seq(S)
  OBVIOUS
<1>2. AppendsToLast(held, waits, d)
  BY AppendAssociative
<1>3. given = out \o rest
  BY DEF Flows
<1>4. rest = held \o waits
  OBVIOUS
<1> HIDE DEF rest
<1>5. AppendsToLast(out, rest, d)
  BY <1>1, AppendAssociative
<1> QED
  BY <1>2, <1>3, <1>4, <1>5 DEF Flows, AppendsToLast

(* A stream that has flowed out is all there is.                             *)
LEMMA FlowEnds ==
    ASSUME NEW S, NEW given, NEW out \in Seq(S), Flows(given, out, <<>>, <<>>)
    PROVE  out = given
BY DEF Flows

(* Of two fronts of a stream the longer extends the other.                   *)
LEMMA FrontExtends ==
    ASSUME NEW S, NEW given \in Seq(S), NEW out \in Seq(S), NEW longer \in Seq(S),
           IsFront(out, given), IsFront(longer, given), Len(longer) > Len(out)
    PROVE  /\ Len(longer) \in Len(out) + 1 .. Len(given)
           /\ longer = out \o SubSeq(given, Len(out) + 1, Len(longer))
<1>1. /\ Len(out) \in Nat /\ Len(longer) \in Nat /\ Len(given) \in Nat
      /\ Len(longer) <= Len(given)
      /\ out = SubSeq(given, 1, Len(out)) /\ longer = SubSeq(given, 1, Len(longer))
  BY DEF IsFront
<1>2. PICK m \in Nat, n \in Nat : m = Len(out) /\ n = Len(longer)
  BY <1>1
<1>3. 1 \in 1 .. Len(given) + 1 /\ m \in 1 - 1 .. Len(given) /\ n \in m .. Len(given)
  BY <1>1, <1>2
<1>4. SubSeq(given, 1, m) \o SubSeq(given, m + 1, n) = SubSeq(given, 1, n)
  BY <1>3, ConcatAdjacentSubSeq, Zenon
<1>5. longer = out \o SubSeq(given, Len(out) + 1, Len(longer))
  BY <1>1, <1>2, <1>4, Zenon
<1>6. Len(longer) \in Len(out) + 1 .. Len(given)
  BY <1>1
<1> QED
  BY <1>5, <1>6

(* A front of a stream stays one when the stream grows.                      *)
LEMMA FrontGrows ==
    ASSUME NEW S, NEW given \in Seq(S), NEW out \in Seq(S), NEW d \in S,
           IsFront(out, given)
    PROVE  IsFront(out, Append(given, d))
BY DEF IsFront
=============================================================================
