--------------------------------- MODULE X11 ---------------------------------
(* src/example/x11.c: one thread serves an interactive shell and the X11     *)
(* clients the remote connects through it.  Each client is a node of a       *)
(* linked list, with its channel and a socket to the local display.  Nodes   *)
(* are appended by x11_callback, which libssh2 calls from inside whatever    *)
(* call reads the transport, the calls made while the list is walked too.    *)
(* The shell's own data is left out.                                         *)
EXTENDS Naturals, Sequences, FiniteSets

CONSTANTS
    Clients,   \* X11 clients, each connecting at most once
    MaxNodes,  \* a bound on how many are connected at a time
    None       \* NULL

ASSUME X11Assumption == None \notin Clients /\ MaxNodes \in Nat

VARIABLES
    pc,        \* where main is in its loop
    list,      \* gp_x11_chan
    freed,     \* the nodes that have been passed to free
    cur,       \* current_node
    asked,     \* clients whose request to connect has been sent
    sock,      \* the socket to the display: none, open, closed or refused
    pending,   \* clients that have written what was not read yet
    gone,      \* clients that have closed their channel
    display,   \* clients the display has closed its connection to
    shellEof,  \* the EOF of the shell's channel
    misremoved \* history: remove_node was called on a node it cannot remove

vars == <<pc, list, freed, cur, asked, sock, pending, gone, display, shellEof, misremoved>>

nodes == <<pc, list, freed, cur, misremoved>>
world == <<asked, gone, display, shellEof>>

Listed == {list[i] : i \in DOMAIN list}

Init ==
    /\ pc = "top" /\ list = <<>> /\ freed = {} /\ cur = None
    /\ asked = {} /\ pending = {} /\ gone = {} /\ display = {}
    /\ sock = [c \in Clients |-> "none"]
    /\ shellEof = FALSE /\ misremoved = FALSE

-----------------------------------------------------------------------------
(* The remote and the display.                                               *)

Connects(c) ==
    /\ asked' = asked \cup {c}
    /\ UNCHANGED <<nodes, sock, pending, gone, display, shellEof>>

ClientWrites(c) ==
    /\ c \notin gone /\ sock[c] = "open"
    /\ pending' = pending \cup {c}
    /\ UNCHANGED <<nodes, sock, world>>

ClientCloses(c) ==
    /\ sock[c] = "open"
    /\ gone' = gone \cup {c}
    /\ UNCHANGED <<nodes, asked, sock, pending, display, shellEof>>

DisplayCloses(c) ==
    /\ sock[c] = "open"
    /\ display' = display \cup {c}
    /\ UNCHANGED <<nodes, asked, sock, pending, gone, shellEof>>

ShellCloses ==
    /\ shellEof' = TRUE
    /\ UNCHANGED <<nodes, asked, sock, pending, gone, display>>

World ==
    \/ \E c \in Clients :
         Connects(c) \/ ClientWrites(c) \/ ClientCloses(c) \/ DisplayCloses(c)
    \/ ShellCloses

-----------------------------------------------------------------------------
(* x11_callback, from inside a call of libssh2 that reads the transport: it  *)
(* connects to the display and appends a node, or gives the socket up.       *)

InLibssh2 == pc \in {"poll", "serve", "send", "stdin"}

(* Faulty variant: the node becomes the list.                                *)
CallbackOverwrites(c) ==
    /\ InLibssh2
    /\ c \in asked /\ sock[c] = "none" /\ Len(list) < MaxNodes
    /\ \/ sock' = [sock EXCEPT ![c] = "open"]
          /\ list' = <<c>>
       \/ sock' = [sock EXCEPT ![c] = "refused"] /\ list' = list
    /\ UNCHANGED <<pc, freed, cur, pending, world, misremoved>>

Callback(c) ==
    /\ InLibssh2
    /\ c \in asked /\ sock[c] = "none" /\ Len(list) < MaxNodes
    /\ \/ sock' = [sock EXCEPT ![c] = "open"] /\ list' = Append(list, c)
       \/ sock' = [sock EXCEPT ![c] = "refused"] /\ list' = list
    /\ UNCHANGED <<pc, freed, cur, pending, world, misremoved>>

-----------------------------------------------------------------------------
(* main.                                                                     *)

Place(c) == CHOOSE i \in DOMAIN list : list[i] = c
Following(c) == IF Place(c) < Len(list) THEN list[Place(c) + 1] ELSE None

(* The top of the loop; calloc or malloc may find no memory.                 *)
Top ==
    /\ pc = "top"
    /\ pc' \in {"poll", "ended"}
    /\ UNCHANGED <<list, freed, cur, sock, pending, world, misremoved>>

(* libssh2_poll and read of the shell's channel, then current_node is set to *)
(* the head of the list.                                                     *)
Poll ==
    /\ pc = "poll" /\ pc' = "walk"
    /\ cur' = IF list = <<>> THEN None ELSE Head(list)
    /\ UNCHANGED <<list, freed, sock, pending, world, misremoved>>

(* Faulty variant: the end of the list is not looked for.                    *)
WalkUnchecked ==
    /\ pc = "walk" /\ pc' = "serve"
    /\ UNCHANGED <<list, freed, cur, sock, pending, world, misremoved>>

Walk ==
    /\ pc = "walk"
    /\ pc' = IF cur = None THEN "stdin" ELSE "serve"
    /\ UNCHANGED <<list, freed, cur, sock, pending, world, misremoved>>

(* x11_send_receive: what the client wrote goes to the display, ...          *)
Serve ==
    /\ pc = "serve" /\ pc' = "send"
    /\ pending' = pending \ {cur}
    /\ UNCHANGED <<list, freed, cur, sock, world, misremoved>>

(* ... what the display wrote to the client; -1 when either has closed.      *)
Send ==
    /\ pc = "send"
    /\ pc' = IF cur \in display \/ (cur \in gone /\ cur \notin pending)
             THEN "remove" ELSE "next"
    /\ UNCHANGED <<list, freed, cur, sock, pending, world, misremoved>>

(* shutdown, close and remove_node.  remove_node unlinks and frees the first *)
(* node.  It unlinks the second, and frees the one behind it.  For any other *)
(* its loop, which does not move from the first node, never ends.            *)
Unlinked(c) ==
    IF Place(c) > 2 THEN list
    ELSE [i \in 1 .. Len(list) - 1 |-> list[IF i < Place(c) THEN i ELSE i + 1]]

FreedBy(c) ==
    CASE Place(c) = 1 -> {c}
      [] Place(c) = 2 -> {Following(c)} \ {None}
      [] OTHER -> {}

(* It does what it should with the first node, and with the second when that *)
(* is the last.                                                              *)
Removable(c) == Place(c) = 1 \/ (Place(c) = 2 /\ Following(c) = None)

(* next_node was read before.                                                *)
(* Faulty variant: it is read after remove_node.                             *)
RemoveThenNext ==
    /\ pc = "remove"
    /\ pc' = IF Place(cur) <= 2 THEN "walk" ELSE "hung"
    /\ sock' = [sock EXCEPT ![cur] = "closed"]
    /\ list' = Unlinked(cur)
    /\ freed' = freed \cup FreedBy(cur)
    /\ misremoved' = (misremoved \/ ~Removable(cur))
    /\ UNCHANGED <<cur, pending, world>>

Remove ==
    /\ pc = "remove"
    /\ pc' = IF Place(cur) <= 2 THEN "walk" ELSE "hung"
    /\ sock' = [sock EXCEPT ![cur] = "closed"]
    /\ list' = Unlinked(cur)
    /\ freed' = freed \cup FreedBy(cur)
    /\ misremoved' = (misremoved \/ ~Removable(cur))
    /\ cur' = Following(cur)
    /\ UNCHANGED <<pending, world>>

(* Faulty variant: one client is served in each turn of the loop.            *)
NextNodeNone ==
    /\ pc = "next" /\ pc' = "walk"
    /\ cur' = None
    /\ UNCHANGED <<list, freed, sock, pending, world, misremoved>>

NextNode ==
    /\ pc = "next" /\ pc' = "walk"
    /\ cur' = Following(cur)
    /\ UNCHANGED <<list, freed, sock, pending, world, misremoved>>

(* select and read of stdin, libssh2_channel_write to the shell.             *)
Stdin ==
    /\ pc = "stdin" /\ pc' = "eof"
    /\ UNCHANGED <<list, freed, cur, sock, pending, world, misremoved>>

CheckEof ==
    /\ pc = "eof"
    /\ pc' = IF shellEof THEN "ended" ELSE "top"
    /\ UNCHANGED <<list, freed, cur, sock, pending, world, misremoved>>

Main ==
    \/ Top \/ Poll \/ Walk \/ Serve \/ Send \/ Remove \/ NextNode \/ Stdin \/ CheckEof

Next == Main \/ World \/ \E c \in Clients : Callback(c)

Spec == Init /\ [][Next]_vars

(* The thread runs: its selects have timeouts, it reads a channel when       *)
(* libssh2_poll has found data there, and its peers read what it writes.     *)
FairSpec == Spec /\ WF_vars(Main)

-----------------------------------------------------------------------------
(* Properties.                                                               *)

(* Types; a client has one node; main is on a node where it uses one.        *)
TypeOK ==
    /\ pc \in {"top", "poll", "walk", "serve", "send", "remove", "next",
              "stdin", "eof", "ended", "hung"}
    /\ list \in Seq(Clients)
    /\ Cardinality(Listed) = Len(list)
    /\ cur \in Clients \cup {None}
    /\ pc \in {"serve", "send", "remove", "next"} => cur # None
    /\ sock \in [Clients -> {"none", "open", "closed", "refused"}]
    /\ {freed, asked, pending, gone, display} \subseteq SUBSET Clients
    /\ shellEof \in BOOLEAN /\ misremoved \in BOOLEAN

(* The sockets to the display that are open are those of the list: none is   *)
(* forgotten or closed twice, whenever the callback comes, until remove_node *)
(* is called on a node that it cannot remove.                                *)
SocketsListed == ~misremoved => {c \in Clients : sock[c] = "open"} = Listed

(* Until then main stands on a node that is linked and not freed, though it  *)
(* removes nodes while it walks the list and the callback appends to it.     *)
WalksOnList == ~misremoved => cur \in (Listed \ freed) \cup {None}

(* What a client writes is passed on, whatever the others do and however     *)
(* many connect meanwhile, unless its own connection to the display goes,    *)
(* main ends, or remove_node is called on a node that it cannot remove.      *)
ClientsServed ==
    \A c \in Clients :
        c \in pending ~> \/ c \notin pending \/ sock[c] = "closed"
                         \/ pc = "ended" \/ misremoved

(* "Utility function to remove a Node of the chained list" (x11.c, 43): it   *)
(* takes out the node it is given, and leaves the others in place.           *)
RemovesTheNode ==
    [][pc = "remove" /\ pc' # "remove" =>
          Listed' = Listed \ {cur} /\ Listed' \cap freed' = {}]_vars
=============================================================================
