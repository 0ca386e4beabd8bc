------------------------------ MODULE X11Proofs ------------------------------
(* The list of X11 clients, for any number of clients, connected in any       *)
(* number at a time: the walk and the callbacks that come during it keep the  *)
(* list in order, until remove_node is called on a node it cannot remove.     *)
EXTENDS X11, FiniteSetTheorems, TLAPS

X11Types ==
    /\ pc \in {"top", "poll", "walk", "serve", "send", "remove", "next",
              "stdin", "eof", "ended", "hung"}
    /\ list \in Seq(Clients) /\ Len(list) <= MaxNodes
    /\ pc \in {"serve", "send", "remove", "next"} => cur # None
    /\ sock \in [Clients -> {"none", "open", "closed", "refused"}]
    /\ freed \subseteq Clients /\ asked \subseteq Clients /\ pending \subseteq Clients
    /\ gone \subseteq Clients /\ display \subseteq Clients
    /\ shellEof \in BOOLEAN /\ misremoved \in BOOLEAN

Distinct == \A i, j \in DOMAIN list : list[i] = list[j] => i = j

OnList == cur \in Listed \cup {None}

OpenListed == \A c \in Clients : sock[c] = "open" <=> c \in Listed

(* A client that has a node, or had one, is not accepted again.              *)
Accepted == \A c \in Listed \cup freed : sock[c] # "none"

(* Only remove_node can make the list wrong.                                 *)
InOrder == pc # "hung" /\ OpenListed /\ Listed \cap freed = {}

Nodes == Accepted /\ (~misremoved => InOrder)

X11Inv == X11Types /\ Distinct /\ OnList /\ Nodes

-----------------------------------------------------------------------------
(* The list.                                                                 *)

LEMMA ListFacts ==
    ASSUME list \in Seq(Clients)
    PROVE  /\ Len(list) \in Nat /\ DOMAIN list = 1 .. Len(list)
           /\ \A i \in 1 .. Len(list) : list[i] \in Clients /\ list[i] \in Listed
           /\ \A c \in Listed : \E i \in 1 .. Len(list) : list[i] = c
           /\ Listed \subseteq Clients
BY DEF Listed

LEMMA PlaceFacts ==
    ASSUME list \in Seq(Clients), NEW c \in Listed
    PROVE  Place(c) \in 1 .. Len(list) /\ list[Place(c)] = c
<1>1. DOMAIN list = 1 .. Len(list) /\ \E i \in DOMAIN list : list[i] = c
  BY ListFacts
<1>2. Place(c) \in DOMAIN list /\ list[Place(c)] = c
  BY <1>1, Zenon DEF Place
<1> QED
  BY <1>1, <1>2

LEMMA FollowingFacts ==
    ASSUME list \in Seq(Clients), NEW c \in Listed, Distinct
    PROVE  /\ Following(c) \in Listed \cup {None}
           /\ Following(c) # c
           /\ Following(c) # None => Place(c) < Len(list)
<1>1. /\ Place(c) \in 1 .. Len(list) /\ list[Place(c)] = c /\ Len(list) \in Nat
      /\ DOMAIN list = 1 .. Len(list) /\ c \in Clients
  BY PlaceFacts, ListFacts
<1>2. CASE Place(c) < Len(list)
  <2>1. Following(c) = list[Place(c) + 1] /\ Place(c) + 1 \in 1 .. Len(list)
    BY <1>1, <1>2 DEF Following
  <2>2. list[Place(c) + 1] \in Listed
    BY <2>1, ListFacts
  <2>3. list[Place(c) + 1] # c
    BY <1>1, <2>1 DEF Distinct
  <2> QED
    BY <1>2, <2>1, <2>2, <2>3
<1>3. CASE ~(Place(c) < Len(list))
  BY <1>1, <1>3, X11Assumption DEF Following
<1> QED
  BY <1>2, <1>3

(* Without two nodes for a client, there are as many clients as nodes.       *)
LEMMA ListCardinality ==
    ASSUME list \in Seq(Clients), Distinct
    PROVE  Cardinality(Listed) = Len(list)
<1>1. Len(list) \in Nat /\ DOMAIN list = 1 .. Len(list)
  BY ListFacts
<1>2. list \in Bijection(1 .. Len(list), Listed)
  BY <1>1, ListFacts DEF Distinct, Bijection, Injection, Surjection, IsInjective
<1>3. ExistsBijection(1 .. Len(list), Listed)
  BY <1>2 DEF ExistsBijection
<1> QED
  BY <1>1, <1>3, FS_CountingElements

-----------------------------------------------------------------------------
(* The steps.                                                                *)

LEMMA X11InitInv ==
    Init => X11Inv
<1> SUFFICES ASSUME Init PROVE X11Inv
  OBVIOUS
<1>1. /\ pc = "top" /\ list = <<>> /\ freed = {} /\ cur = None
      /\ asked = {} /\ pending = {} /\ gone = {} /\ display = {}
      /\ sock = [c \in Clients |-> "none"] /\ shellEof = FALSE /\ misremoved = FALSE
  BY DEF Init
<1>2. list \in Seq(Clients) /\ Len(list) = 0 /\ DOMAIN list = {}
  BY <1>1
<1>3. X11Types
  <2>1. sock \in [Clients -> {"none", "open", "closed", "refused"}]
    BY <1>1
  <2>2. Len(list) <= MaxNodes
    BY <1>2, X11Assumption
  <2> QED
    BY <1>1, <1>2, <2>1, <2>2 DEF X11Types
<1>4. Listed = {}
  BY <1>2 DEF Listed
<1> QED
  BY <1>1, <1>2, <1>3, <1>4 DEF X11Inv, Distinct, OnList, Nodes, Accepted, InOrder, OpenListed

(* Steps that change no node.                                                *)
LEMMA QuietInv ==
    ASSUME X11Inv, UNCHANGED <<list, freed, sock, misremoved>>, X11Types', OnList',
           (pc' = "hung") = (pc = "hung")
    PROVE  X11Inv'
<1>1. Listed' = Listed
  BY DEF Listed
<1>2. Distinct' /\ Nodes'
  BY <1>1 DEF X11Inv, Distinct, Nodes, Accepted, InOrder, OpenListed
<1> QED
  BY <1>2 DEF X11Inv

LEMMA WorldInv ==
    ASSUME X11Inv, World
    PROVE  X11Inv'
<1>1. UNCHANGED <<pc, list, freed, cur, sock, misremoved>>
  BY DEF World, Connects, ClientWrites, ClientCloses, DisplayCloses, ShellCloses, nodes
<1>2. /\ asked' \subseteq Clients /\ pending' \subseteq Clients /\ gone' \subseteq Clients
      /\ display' \subseteq Clients /\ shellEof' \in BOOLEAN
  BY DEF X11Inv, X11Types, World, Connects, ClientWrites, ClientCloses, DisplayCloses,
     ShellCloses, nodes, world
<1>3. X11Types'
  BY <1>1, <1>2 DEF X11Inv, X11Types
<1>4. OnList'
  BY <1>1 DEF X11Inv, OnList, Listed
<1> QED
  BY <1>1, <1>3, <1>4, QuietInv

(* A client is accepted while main stands in a call.                         *)
LEMMA CallbackInv ==
    ASSUME X11Inv, NEW c \in Clients, Callback(c)
    PROVE  X11Inv'
<1>1. /\ pc \in {"poll", "serve", "send", "stdin"} /\ sock[c] = "none"
      /\ Len(list) < MaxNodes
      /\ UNCHANGED <<pc, freed, cur, pending, asked, gone, display, shellEof, misremoved>>
  BY DEF Callback, InLibssh2, world
<1>2. /\ list \in Seq(Clients) /\ c \notin Listed /\ c \notin freed
      /\ sock \in [Clients -> {"none", "open", "closed", "refused"}]
  BY <1>1 DEF X11Inv, X11Types, Nodes, Accepted
<1>3. CASE sock' = [sock EXCEPT ![c] = "open"] /\ list' = Append(list, c)
  <2>1. /\ list' \in Seq(Clients) /\ Len(list') = Len(list) + 1
        /\ DOMAIN list = 1 .. Len(list) /\ DOMAIN list' = 1 .. Len(list) + 1
        /\ \A i \in 1 .. Len(list) : list'[i] = list[i]
        /\ list'[Len(list) + 1] = c
        /\ Len(list) \in Nat
    BY <1>2, <1>3
  <2>2. Listed' = Listed \cup {c}
    BY <2>1 DEF Listed
  <2>3. X11Types'
    BY <1>1, <1>2, <1>3, <2>1, X11Assumption DEF X11Inv, X11Types
  <2>4. Distinct'
    <3>1. \A i \in 1 .. Len(list) : list[i] # c
      BY <1>2, ListFacts
    <3> QED
      BY <2>1, <3>1 DEF X11Inv, Distinct
  <2>5. OnList'
    BY <1>1, <2>2 DEF X11Inv, OnList
  <2>6. Accepted'
    BY <1>1, <1>2, <1>3, <2>2, ListFacts DEF X11Inv, X11Types, Nodes, Accepted
  <2>7. ~misremoved => InOrder'
    BY <1>1, <1>2, <1>3, <2>2 DEF X11Inv, Nodes, InOrder, OpenListed
  <2> QED
    BY <1>1, <2>3, <2>4, <2>5, <2>6, <2>7 DEF X11Inv, Nodes
<1>4. CASE sock' = [sock EXCEPT ![c] = "refused"] /\ list' = list
  <2>1. Listed' = Listed
    BY <1>4 DEF Listed
  <2>2. X11Types'
    BY <1>1, <1>2, <1>4 DEF X11Inv, X11Types
  <2>3. Distinct' /\ OnList'
    BY <1>1, <1>4, <2>1 DEF X11Inv, Distinct, OnList
  <2>4. Accepted'
    BY <1>1, <1>2, <1>4, <2>1, ListFacts DEF X11Inv, X11Types, Nodes, Accepted
  <2>5. ~misremoved => InOrder'
    BY <1>1, <1>2, <1>4, <2>1 DEF X11Inv, Nodes, InOrder, OpenListed
  <2> QED
    BY <1>1, <2>2, <2>3, <2>4, <2>5 DEF X11Inv, Nodes
<1> QED
  BY <1>3, <1>4 DEF Callback

(* The walk: from the head to the end, by what follows.                      *)
LEMMA WalkInv ==
    ASSUME X11Inv, Top \/ Poll \/ Walk \/ Serve \/ Send \/ NextNode \/ Stdin \/ CheckEof
    PROVE  X11Inv'
<1>1. /\ UNCHANGED <<list, freed, sock, asked, gone, display, shellEof, misremoved>>
      /\ pending' \subseteq Clients /\ pc # "hung" /\ pc' # "hung"
  BY DEF Top, Poll, Walk, Serve, Send, NextNode, Stdin, CheckEof, world, X11Inv, X11Types
<1>2. list \in Seq(Clients) /\ Listed' = Listed
  BY <1>1 DEF X11Inv, X11Types, Listed
<1>3. cur' \in Listed \cup {None}
  <2>1. CASE Poll
    <3>1. list # <<>> => Head(list) \in Listed
      BY <1>2, ListFacts
    <3> QED
      BY <2>1, <3>1 DEF Poll
  <2>2. CASE NextNode
    BY <1>2, <2>2, FollowingFacts DEF NextNode, X11Inv, X11Types, OnList
  <2>3. CASE ~Poll /\ ~NextNode
    BY <2>3 DEF Top, Walk, Serve, Send, Stdin, CheckEof, X11Inv, OnList
  <2> QED
    BY <2>1, <2>2, <2>3
<1>4. /\ pc' \in {"top", "poll", "walk", "serve", "send", "remove", "next",
                 "stdin", "eof", "ended"}
      /\ pc' \in {"serve", "send", "remove", "next"} => cur' # None
  BY DEF Top, Poll, Walk, Serve, Send, NextNode, Stdin, CheckEof, X11Inv, X11Types
<1>5. X11Types'
  BY <1>1, <1>4 DEF X11Inv, X11Types
<1>6. OnList'
  BY <1>2, <1>3 DEF OnList
<1> QED
  BY <1>1, <1>5, <1>6, QuietInv

(* What remove_node leaves of the list, when it ends.                        *)
LEMMA UnlinkedFacts ==
    ASSUME list \in Seq(Clients), Distinct, NEW c \in Listed, Place(c) <= 2,
           list' = Unlinked(c)
    PROVE  /\ list' \in Seq(Clients) /\ Len(list') <= Len(list)
           /\ Distinct'
           /\ Listed' = Listed \ {c}
<1> DEFINE p == Place(c)
           n == Len(list)
<1>1. /\ p \in 1 .. n /\ n \in Nat /\ list[p] = c /\ DOMAIN list = 1 .. n
      /\ \A i \in 1 .. n : list[i] \in Clients
  BY PlaceFacts, ListFacts
<1>2. list' = [i \in 1 .. n - 1 |-> list[IF i < p THEN i ELSE i + 1]]
  BY <1>1 DEF Unlinked
<1> HIDE DEF p, n
<1>3. n - 1 \in Nat /\ \A i \in 1 .. n - 1 : (IF i < p THEN i ELSE i + 1) \in 1 .. n
  BY <1>1
<1>4. list' \in Seq(Clients) /\ Len(list') = n - 1 /\ DOMAIN list' = 1 .. n - 1
  BY <1>1, <1>2, <1>3
<1>5. Distinct'
  <2> SUFFICES ASSUME NEW i \in 1 .. n - 1, NEW j \in 1 .. n - 1, list'[i] = list'[j]
               PROVE  i = j
    BY <1>4 DEF Distinct
  <2> DEFINE from(k) == IF k < p THEN k ELSE k + 1
  <2>1. list[from(i)] = list[from(j)]
    BY <1>2
  <2>2. from(i) \in 1 .. n /\ from(j) \in 1 .. n
    BY <1>3
  <2> HIDE DEF from
  <2>3. from(i) = from(j)
    BY <1>1, <2>1, <2>2 DEF Distinct
  <2> QED
    BY <1>1, <2>3 DEF from
<1>6. \A x : x \in Listed' => x \in Listed /\ x # c
  BY <1>1, <1>2, <1>3, <1>4 DEF Listed, Distinct
<1>7. ASSUME NEW x \in Listed, x # c PROVE x \in Listed'
  <2>1. PICK i \in 1 .. n : list[i] = x
    BY <1>1 DEF Listed
  <2>2. CASE i < p
    <3>1. i \in 1 .. n - 1 /\ list'[i] = x
      BY <1>1, <1>2, <2>1, <2>2
    <3> QED
      BY <1>4, <3>1 DEF Listed
  <2>3. CASE i > p
    <3>1. i - 1 \in 1 .. n - 1 /\ list'[i - 1] = x
      BY <1>1, <1>2, <2>1, <2>3
    <3> QED
      BY <1>4, <3>1 DEF Listed
  <2> QED
    BY <1>1, <1>7, <2>1, <2>2, <2>3
<1> QED
  BY <1>4, <1>5, <1>6, <1>7 DEF n

LEMMA RemoveInv ==
    ASSUME X11Inv, Remove
    PROVE  X11Inv'
<1>1. /\ pc = "remove" /\ pc' = IF Place(cur) <= 2 THEN "walk" ELSE "hung"
      /\ sock' = [sock EXCEPT ![cur] = "closed"]
      /\ list' = Unlinked(cur) /\ freed' = freed \cup FreedBy(cur)
      /\ misremoved' = (misremoved \/ ~Removable(cur))
      /\ cur' = Following(cur)
      /\ UNCHANGED <<pending, asked, gone, display, shellEof>>
  BY DEF Remove, world
<1>2. /\ list \in Seq(Clients) /\ Len(list) <= MaxNodes /\ Distinct
      /\ cur \in Listed /\ cur \in Clients /\ freed \subseteq Clients
      /\ sock \in [Clients -> {"none", "open", "closed", "refused"}]
      /\ Listed \subseteq Clients /\ misremoved \in BOOLEAN
  BY <1>1, ListFacts DEF X11Inv, X11Types, OnList
<1>3. /\ Place(cur) \in 1 .. Len(list) /\ Len(list) \in Nat
      /\ Following(cur) \in Listed \cup {None} /\ Following(cur) # cur
  BY <1>2, PlaceFacts, FollowingFacts, ListFacts
<1>4. FreedBy(cur) \subseteq Listed /\ (Removable(cur) => FreedBy(cur) \subseteq {cur})
  <2>1. CASE Place(cur) = 1
    BY <1>2, <2>1 DEF FreedBy
  <2>2. CASE Place(cur) = 2
    <3>1. FreedBy(cur) = {Following(cur)} \ {None}
      BY <2>2 DEF FreedBy
    <3>2. Removable(cur) => Following(cur) = None
      BY <2>2 DEF Removable
    <3> QED
      BY <1>3, <3>1, <3>2
  <2>3. CASE Place(cur) > 2
    BY <1>3, <2>3 DEF FreedBy
  <2> QED
    BY <1>3, <2>1, <2>2, <2>3
<1>5. /\ sock' \in [Clients -> {"none", "open", "closed", "refused"}]
      /\ \A c \in Listed \cup freed' : sock'[c] # "none"
      /\ misremoved' \in BOOLEAN
  BY <1>1, <1>2, <1>4 DEF X11Inv, Nodes, Accepted, Removable
<1>6. CASE Place(cur) <= 2
  <2>1. /\ list' \in Seq(Clients) /\ Len(list') <= Len(list) /\ Distinct'
        /\ Listed' = Listed \ {cur}
    BY <1>1, <1>2, <1>6, UnlinkedFacts
  <2>2. X11Types'
    <3>1. Len(list') \in Nat /\ Len(list') <= MaxNodes
      BY <1>2, <1>3, <2>1, X11Assumption
    <3>2. pc' = "walk" /\ freed' \subseteq Clients
      BY <1>1, <1>2, <1>4, <1>6
    <3> QED
      BY <1>1, <1>5, <2>1, <3>1, <3>2 DEF X11Inv, X11Types
  <2>3. OnList'
    BY <1>1, <1>3, <2>1 DEF OnList
  <2>4. Accepted'
    BY <1>5, <2>1 DEF Accepted
  <2>5. ASSUME ~misremoved' PROVE InOrder'
    <3>1. ~misremoved /\ Removable(cur) /\ InOrder
      BY <1>1, <1>2, <2>5 DEF X11Inv, Nodes
    <3>2. OpenListed'
      BY <1>1, <1>2, <2>1, <3>1 DEF InOrder, OpenListed
    <3>3. Listed' \cap freed' = {}
      BY <1>1, <1>4, <2>1, <3>1 DEF InOrder
    <3>4. pc' # "hung"
      BY <1>1, <1>6
    <3> QED
      BY <3>2, <3>3, <3>4 DEF InOrder
  <2>6. Nodes'
    BY <2>4, <2>5 DEF Nodes
  <2> QED
    BY <2>1, <2>2, <2>3, <2>6 DEF X11Inv
<1>7. CASE ~(Place(cur) <= 2)
  <2>1. /\ list' = list /\ pc' = "hung" /\ Listed' = Listed /\ FreedBy(cur) = {}
        /\ misremoved'
    <3>1. Place(cur) > 2 /\ Place(cur) # 1 /\ Place(cur) # 2
      BY <1>3, <1>7
    <3>2. FreedBy(cur) = {} /\ Unlinked(cur) = list /\ ~Removable(cur)
      BY <3>1, Zenon DEF FreedBy, Unlinked, Removable
    <3> QED
      BY <1>1, <1>7, <3>2 DEF Listed
  <2>2. X11Types'
    BY <1>1, <1>2, <1>5, <2>1 DEF X11Inv, X11Types
  <2>3. Distinct' /\ OnList'
    BY <1>1, <1>3, <2>1 DEF X11Inv, Distinct, OnList
  <2>4. Nodes'
    BY <1>5, <2>1 DEF Nodes, Accepted
  <2> QED
    BY <2>2, <2>3, <2>4 DEF X11Inv
<1> QED
  BY <1>6, <1>7

LEMMA X11NextInv ==
    X11Inv /\ [Next]_vars => X11Inv'
<1> SUFFICES ASSUME X11Inv, [Next]_vars PROVE X11Inv'
  OBVIOUS
<1>1. CASE Next
  BY <1>1, WorldInv, CallbackInv, WalkInv, RemoveInv DEF Next, Main
<1>2. CASE UNCHANGED vars
  <2>1. UNCHANGED <<pc, list, freed, cur, asked, sock, pending, gone, display, shellEof,
                    misremoved>>
    BY <1>2 DEF vars
  <2>2. X11Types'
    BY <2>1 DEF X11Inv, X11Types
  <2>3. OnList'
    BY <2>1 DEF X11Inv, OnList, Listed
  <2> QED
    BY <2>1, <2>2, <2>3, QuietInv
<1> QED
  BY <1>1, <1>2

(* The state of the list, for any number of nodes.                           *)
THEOREM X11Invariant == Spec => []X11Inv
<1> QED
  BY X11InitInv, X11NextInv, PTL DEF Spec

-----------------------------------------------------------------------------
(* The properties of the run.                                                *)

(* Types; a client has one node, and main stands on a node where it uses one. *)
THEOREM X11TypeCorrect == Spec => []TypeOK
<1>1. X11Inv => TypeOK
  <2> SUFFICES ASSUME X11Inv PROVE TypeOK
    OBVIOUS
  <2>1. Cardinality(Listed) = Len(list) /\ Listed \subseteq Clients
    BY ListCardinality, ListFacts DEF X11Inv, X11Types
  <2> QED
    BY <2>1 DEF X11Inv, X11Types, OnList, TypeOK
<1> QED
  BY <1>1, X11Invariant, PTL

(* However many clients are connected, and whenever the callback comes: no   *)
(* socket to the display is forgotten or closed twice, until remove_node is  *)
(* called on a node that it cannot remove.                                   *)
THEOREM NoSocketForgotten == Spec => []SocketsListed
<1>1. X11Inv => SocketsListed
  <2> SUFFICES ASSUME X11Inv, ~misremoved
               PROVE  {c \in Clients : sock[c] = "open"} = Listed
    BY DEF SocketsListed
  <2>1. OpenListed /\ Listed \subseteq Clients
    BY ListFacts DEF X11Inv, X11Types, Nodes, InOrder
  <2> QED
    BY <2>1 DEF OpenListed
<1> QED
  BY <1>1, X11Invariant, PTL

(* However many clients are connected, main never stands on a node that has  *)
(* been freed, until remove_node is called on a node that it cannot remove.  *)
THEOREM NeverOnFreedNode == Spec => []WalksOnList
<1>1. X11Inv => WalksOnList
  BY DEF X11Inv, OnList, Nodes, InOrder, WalksOnList
<1> QED
  BY <1>1, X11Invariant, PTL
=============================================================================
