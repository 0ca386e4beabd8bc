# cloudssh: models, checks and proofs

cloudssh is a small SSH client library in C++ (`src/src/libssh2/*.hpp`, over the C
library libssh2), an interactive client built on it (`src/src/ssh.cpp`, with an
older form in `ssh.old.cpp`), and 23 C programs (`src/example/`) that use libssh2
directly. This directory models what those programs do between their calls, checks
the models with TLC and proves theorems about them with TLAPS. libssh2, the
network, the remote host and the user are modelled from how this code uses them,
and marked external in `PROJECT.json`.

## Inventory

| Component | State it keeps | Operations | What is hard about it | What makes it correct |
| --- | --- | --- | --- | --- |
| Wrapper lifetimes: `Libssh2`, `Socket`, `Session`, `Channel`, `Listener` | shared pointers between the objects, native handles, descriptors, the blocking mode | create, connect, handshake, new channel/listener, set blocking, dropping a reference, destructors | destructors cascade in an order the client's pointers decide; a constructor may throw; native calls in destructors may return EAGAIN; `handshake` swaps the socket | a native object is freed once, before what it needs; a session uses only the open descriptor of its own socket, unless a client swaps the socket under its startup; what is left at the end is accounted for |
| SSH login: `SSH::SSH`, `connect_to_ssh` | locals of the constructor, the member `channel` | the calls from `Libssh2::create` to `Channel::shell` | any of the calls fails with some objects made | the channel alone keeps the connection up; a failed login leaves nothing |
| Interactive shell loop: `main` of `ssh.cpp` | read buffer, the character in hand, terminal modes | eof check, read, select, getchar, write | three parties move at any time; two layers of input buffering; EAGAIN; EOF with data unread; lost connection | both streams in order and complete; ends when, and only when, it should; terminal restored |
| Port forwarding: `direct_tcpip.c`, `tcpip-forward.c` | one buffer and offset for both directions | recv, channel write, channel read, send, eof check | partial calls, EAGAIN, closes and errors at any point, one thread for two directions | each direction is a pipe, drained at a close; what was written comes through |
| X11 forwarding: `x11.c` | linked list of clients, their sockets | callback on a new client, walk, removal | the callback runs inside calls made during the walk; nodes are removed during the walk | open sockets are those listed; no freed node is used; all clients are served, as long as `remove_node` is given nodes it can remove |
| File transfers: `scp*.c`, `sftp*.c` but the directory programs; the read loop of `ssh2_exec.c` | buffer, offsets, counts | fill, read, write, leave | short reads and writes, EAGAIN, nested loops with different exits; local calls whose result nobody looks at | the bytes of the file come out in order and once; a gap or an early end that no error shows only where a local call fell short; loops end |
| Echo test (`ssh2_echo.c`) | counts in both directions, flags | poll, read, write, EOF, close | both directions in one loop, more data than the windows hold; must drain after the close; polls that report nothing | what comes back is what went out; ends |
| NETCONF (`subsystem_netconf.c`) | one buffer for requests and replies, its fill | write, read until the end marker | short writes; the marker split between reads; a full buffer; what the buffer held before | a reply is whole, and nothing of it is left for the next |
| Authentication (`ssh2.c`, `ssh2_agent.c`, and the logins of all programs) | set of methods, list of identities | choice of a method, loop over identities | user options, methods the server lacks; clean-up of the agent | only offered methods are tried; no service before the login; agent resources released |
| Set-up and shutdown of all 23 programs, the directory programs (`sftp_mkdir*.c`, `sftpdir*.c`) among them | pointers and descriptors in locals | about twenty calls in a row, a label or a return for each failure | any call fails or returns EAGAIN, and each has its own way out; pointers that are tested and others that are not | a call finds what it works on; everything released on every way out, in order; EAGAIN is not taken for a failure |
| Build configuration (`libssh2_config.h`) | none | none | none | not modelled: nothing executes |

The wrapper classes interact through their shared pointers (`Channel`, `Listener` →
`Session` → `Socket`, `Libssh2`). `SSH` is a client of the wrappers and hands a
`Channel` to the shell loop. The C programs do not use the wrappers and do not
interact with each other; in each, `main` runs a loop that talks to a remote, and
what the loop needs and leaves is `main`'s to provide and release.

## Modules

- `Handles` — the wrapper classes. `phase` follows an object from construction to
  the body of its destructor (`live`), the release of its members (`members`) and
  its end (`dead`). `held` is what the client holds; `sockOf` and `parent` are the
  pointers between objects, and `Owned` reads reference counts off them. The client
  may call any operation in any order (`Client`); when the last reference goes, the
  destructor body and each member's release are steps of their own (`Unwind`), and
  the client does not run meanwhile (`ClientRuns`). `Session::handshake` is two steps,
  for its two statements: the first may destroy the previous socket. The class lets a
  client repeat a handshake that was not completed with another socket, and so does the
  model; the native session then goes on with the descriptor of the first, and `swapped`
  remembers it.
- `Login` — extends `Handles`. It follows `SSH::SSH` call by call and takes the
  actions of `Handles` for what each does. A call the wrappers cannot take in the state
  the calls before have left is no step, and the login would stop there: `NoCallRefused`
  says that it does not.
- `ShellClient` — the loop of `main`, one action per call, beside the remote, the
  network and the user. Output passes `net` (arrived), `queue` (read by libssh2),
  `screen`; input passes `tty`, `stdio` (the buffer behind `getchar`), `hand`,
  `remoteIn`. `Printed` is what `printf("%s")` makes of a chunk; when it finds no NUL in
  the buffer it may run on into other memory, and `stray` are the places on the screen
  where it did.
- `Pipe` — what a forwarded direction promises. `DirectTcpip` — the relay loop of
  `direct_tcpip.c`. `TcpipForward` extends it with the write loop of `tcpip-forward.c`,
  the one place where the two differ. `Relays` extends both: which of the two runs is
  chosen at the start.
- `Copy` — what a file transfer promises, and what it leaves out where a local call falls
  short of what it was asked for (`FallShort`). `Transfer` — the loops of twelve programs
  in one module: which program runs is chosen at the start (`program`), and the places
  where their loops differ are guards on it. Reads and writes of local files move all,
  part or nothing, and no loop looks at that (`shortfall` remembers it). The upload half of `sftp_RW_nonblock.c`
  is a specification of its own (`PutSpec`).
- `X11` — the list of X11 clients, `x11_callback`, and the walk of `main`. `misremoved`
  remembers that `remove_node` was called on a node it cannot remove: one with another
  behind it and one before it, or a later one. What the code does from there on hangs on
  freed memory, and the properties end there.
- `ProgramTables` — all 23 programs from `libssh2_init` to their end, as constants. A
  program is a sequence of steps (`Table`); a step names its call, where a failure leads
  (`fail`: a label, `return`, or on), whether EAGAIN is repeated (`again`), and the test
  that stands around it (`guard`). `Api` says what a call acquires, uses and releases.
- `Programs` — the tables run. `held` is what the program
  has. Few actions run all of them: a call succeeds, fails, returns EAGAIN
  where nobody repeats it, or finds what it uses missing (`Crash`); the choice of a
  method of authentication and the loop over an agent's identities have actions of
  their own. The loop of a program is one step here.
- `Echo` — the loop of `ssh2_echo.c` beside the remote `cat`. All bytes are the same in
  that program, so counts stand for them. `Netconf` — `netconf_write` and
  `netconf_read_until` in the two exchanges of `main`, over one buffer; a message is a
  sequence of parts that reads may separate anywhere.
- `Examples` — `Programs` with `Echo` and `Netconf` put in the place of one step each:
  what a loop ends with decides where its program goes on.
- `Knowledge` — what can be told of a program before each of its steps from its table
  alone, and the assumption, which TLC evaluates, that every step then finds what it
  needs. The proofs about `Programs` start from it.
- `HandlesProofs`, `LoginProofs`, `ShellClientProofs`, `RelaysProofs`, `TransferProofs`,
  `X11Proofs`, `ExamplesProofs` — each extends the module it is named after and proves
  theorems about it. `StreamLemmas` — lemmas about a stream that is cut and passed on
  in pieces, which the shell, the relays and the transfers share.
- `MC*` — instances for TLC.

In each module a "Faulty variant" stands before a definition: the same definition
with a plausible mistake. Put in its place, it makes one of the checked properties
fail (`mutants` in `PROJECT.json`); no specification uses it.

## Assumptions about libssh2

- `libssh2_session_handshake` keeps the descriptor it was first given until the
  startup is complete; `libssh2_session_free` frees what channels and listeners the
  session still has; it and `libssh2_channel_free` may return EAGAIN, having freed
  nothing, only when the session does not block.
- `libssh2_channel_eof` is true once the EOF has been received and nothing received
  is left unread. A read takes packets in, then hands out what is queued, up to the
  size asked for.
- `libssh2_session_free` frees the channels, listeners and the SFTP session of a session;
  it does not close files opened over SFTP, nor free known hosts or the agent.
- A call of the examples that releases something fails with EAGAIN or not at all, only
  on a session that does not block, and then releases nothing. `close(-1)` is harmless;
  `libssh2_session_handshake`, `libssh2_agent_disconnect` and `strstr` of NULL are not.
- `libssh2_poll` reports what has arrived, room in the window, and a closed channel, or
  fails, or reports nothing (`PollBlind`).
- A NETCONF server answers a request that came as it was meant; of any other nothing is
  assumed but that it stays silent, and it may close at any time.
- A write takes any part of what it is given, nothing (0) too. Where a loop then calls it
  again with the same arguments that is no step, as after EAGAIN, which means that nothing
  was taken; where it leaves the loop that is modelled (`sftp_write_sliding.c`,
  `tcpip-forward.c`, `subsystem_netconf.c`).
- What `fwrite` and `fputc` have taken into the buffer of a local file counts as written.
- A broken connection makes calls fail from then on.
- The X11 callback is called from inside any call that reads the transport
  (`libssh2_poll`, reads and writes of channels), and from nowhere else.

## Runs

| Run | Shows | Bounds |
| --- | --- | --- |
| `handles` | in every order of calls: no wrapper stands on something freed, a session uses its own open descriptor (unless its socket was swapped under its startup), every descriptor is accounted for, destruction is in reverse order of dependency, and a program that dies with blocking sessions leaves nothing | 2 sockets, 2 sessions, a channel, a listener, 2 descriptors; symmetric |
| `login` | no call of `SSH::SSH` and `main` is refused; the channel alone keeps the connection; a failure of any call releases everything, and unwinding ends | the one login, with a spare descriptor |
| `shell` | output and input in order; nothing lost but by a failing write; leaves only when all output is on the screen; ends when the remote closes; terminal restored | 2 byte values, 3 bytes each way, a buffer of 2 |
| `shell_disconnected` | *violation*: the loop never ends when the connection breaks | 1 byte each way |
| `shell_typeahead` | *violation*: of two keys typed together the second waits for a third | 2 keys |
| `relays` | both directions of `direct_tcpip.c` and the way down of `tcpip-forward.c` are pipes, drained at a close; a close ends the relay; in `direct_tcpip.c` everything comes through once both sides have stopped writing | 2 byte values, 3 bytes each way, buffer and window of 2 |
| `tcpip_forward_up` | *violation*: after a short write the start of the buffer is sent again | as above |
| `transfer` | twelve loops copy in order, without repetition or extra byte; uploads without a hole, downloads without one but where a local write falls short; the whole file when neither an error nor a shortfall was met; they end if the server goes on taking what it is sent; the assumption of `Knowledge` on the tables of all 23 programs is evaluated here too | files of up to 5 bytes, a buffer of 3 |
| `examples` | in all 23 programs, whichever calls fail or return EAGAIN: each call finds what it works on, nothing remains at the end and releases are in order, but for the exceptions named; EAGAIN is repeated; login before service, by an offered method; the echo loop drains; NETCONF replies are whole; programs end outside their loops, and these two loops end | 2 agent identities; echo of 5 bytes, buffer and windows of 2; a NETCONF buffer of 6 parts, requests of 2 pieces |
| `transfer_put` | *violation*: the upload of `sftp_RW_nonblock.c` leaves out what a short write did not take | files of up to 4 bytes, a buffer of 2 |
| `x11` | open sockets are those in the list, no freed node is walked, every client is served, until `remove_node` is given a node it cannot remove | 3 clients, all at a time |
| `x11_remove` | *violation*: with a third client `remove_node` frees the wrong node, or hangs | 3 clients at a time |

Why the bounds are enough. `Handles`: two sockets and two descriptors let a socket be
replaced, shared between sessions, and its number be reused; two sessions and two
handles let a cascade of destructors start with something else still live; a second
handle on a session is the channel beside the listener. `ShellClient`, the relays and
`Transfer`: what flows is longer than the buffer, and the buffer is at least two long,
so that a call can move part of it, all of it, or be followed by another fill; two
byte values tell a swap or a repetition from the right order. In `X11` three
clients are the first number with which `remove_node` goes wrong; two of them come and go,
and are served, at any point of the walk before that. `Programs` has no bound but the number of identities, where two
let the first fail and the second succeed; every program, every failing call and every
set of methods is tried. `Echo` sends one byte more than both windows hold together,
and two and a half buffers, so that a loop that would only write comes to a stop and
the last write is a part of a buffer. In `Netconf` a reply and the newline before it
just fit; the long one does not, and two pieces make a short write.

`UsesWhatItHolds`, `LeavesNothing`, `ReleasesInOrder` and `RetriesEagain` hold but for
exceptions that the definitions name, program by program: `KnownCrashes` (where a NULL
is used, or the buffer of `subsystem_netconf.c` searched past its end), `Left` (what a
program leaves at its end), and the second `sftp_open` of `sftp_RW_nonblock.c`. Each is
what the code does; without any one of them its property is violated. Nothing in the
repository promises the contrary, so they are exceptions and no findings.

Deadlock is not checked: every one of these programs may stop, and a client of the
wrappers may end.

## Fairness

- `Login`: the program's own steps go on (weak fairness), but for the time the user
  spends in the loop of `main`. Native calls return.
- `ShellClient`: the thread runs; no call in the loop blocks, as the session does not
  block and `select` has a zero timeout. Nothing is assumed of the remote, the user
  or the network.
- Relays: the thread runs, and the remote goes on reading. Without the second a relay
  may stay in its write loop for good, reading nothing meanwhile; with a remote that
  waits for its own output to be read, that is a deadlock (listed as a hazard).
- `Transfer`: the program runs, and the connection breaks or the server goes on: it sends
  the file, or takes what it is sent (a write that is repeated for ever with nothing taken
  would be no step). `TransferEnds` excepts `scp.c` with a server that closes before
  it has sent the size it announced: the loop then reads 0 for ever.
- `Examples`: programs run; `cat` reads what it is sent, and ends at the end of the
  stream; the NETCONF server answers a request it can read. A call of the echo loop that
  returns EAGAIN again and again returns something else in the end: the loop comes back
  to it after every poll, so this is strong fairness of a read, a write and an EOF that
  do something. `Ends` excepts `subsystem_netconf.c` when its request did not arrive as
  it was meant (a write of nothing ends its write loop as a success too), or the server
  closed: it may then read for ever; and `ssh2_echo.c` when its polls go on reporting
  nothing. The loops of the other programs are one step here that is taken to end. When
  they do is told where they are modelled, and some may not: `scp.c` (above), the write
  loop of `direct_tcpip.c` without a remote that reads, `remove_node` of `x11.c`, the
  interactive loop.
- `X11`: the thread runs: its waits have timeouts, reads follow a successful poll, and
  what it writes is read.

## Proofs

TLC checks the instances above; the theorems hold for every value of the constants that
the assumptions allow. A property of a run is proved by the theorem beside it:

| Module | Theorem | Property or invariant |
| --- | --- | --- |
| `HandlesProofs` | `InductiveInvariant`, `TypeCorrect` | `IInv`, `TypeOK` |
| | `NoDanglingHandle`, `OwnDescriptor` | `StandsOnLive`, `WritesOwnSocket` |
| | `DescriptorsAccounted`, `ExitIsClean` | `FdsAccounted`, `CleanExit` |
| | `DestroyedInReverse` | `ReverseOrder` (action property) |
| `LoginProofs` | `LoginInvariant`, `LoginTypeCorrect` | `LInv`, `LTypeOK` |
| | `ConnectionKept`, `FailedLoginIsClean` | `ChannelKeepsConnection`, `FailedLoginLeavesNothing` |
| `ShellClientProofs` | `ShellInvariant`, `ShellTypeCorrect` | `ShellInv`, `TypeOK` |
| | `NoOutputLost`, `LeftWithAllShown` | `OutputConserved`, `LeavesWhenShown` |
| | `KeysInOrder`, `OnlyWritesLoseKeys` | `InputInOrder`, `KeysKept` (action property) |
| `RelaysProofs` | `RelaysInvariant`, `RelaysTypeCorrect` | `RelaysInv`, `RelaysTypeOK` |
| | `DirectUpImplementsPipe`, `DownImplementsPipe` | `DirectUpIsPipe`, `DownIsPipe` (refinements) |
| | `RelaysDrain` | `DrainedByRelay` |
| `TransferProofs` | `TransferInvariant`, `TransferTypeCorrect` | `TransferInv`, `TypeOK` |
| | `TransferImplementsCopy` | `IsCopy` (refinement) |
| `X11Proofs` | `X11Invariant`, `X11TypeCorrect` | `X11Inv`, `TypeOK` |
| | `NoSocketForgotten`, `NeverOnFreedNode` | `SocketsListed`, `WalksOnList` |
| `ExamplesProofs` | `EchoInvariant`, `AllEchoed` | `EchoInv`, `EchoComplete` |
| | `NetconfInvariant`, `RepliesAreWhole` | `NetconfInv`, `ReplyWhole` |
| | `LoopsWithinBounds`, `ExamplesTypeCorrect` | `ExamplesTypeOK` |
| | `ProgramsInvariant` | `ProgramsInv` |
| | `UsesHeld`, `NothingLeft` | `UsesWhatItHolds`, `LeavesNothing` |
| | `EagainRetried` | `RetriesEagain` |
| | `ReleasedInOrder`, `OnlyListedTried` | `ReleasesInOrder`, `Authenticates` (action properties) |

What is assumed of the constants stands in the modules and is evaluated by the runs: kinds
of objects are disjoint and `None` is none of them (`DistinctObjects`, and the like in the
other modules); the objects of the login are some of those of `Handles`
(`LoginAssumption`); buffers and windows have room for at least one byte
(`ShellAssumption`, `RelayAssumption`, `TransferAssumption`, `ExamplesAssumption`), and
the buffer of NETCONF for the four parts of a request, its marker included. Amounts of
data are bounded by constants of any size. `TablesAreSound` is of another kind: no
constant occurs in it, it is a statement about the 23 tables as they are written, and see
"Programs" below for what it says and what is proved from it. One more hypothesis stands in
the theorems that need it: `Nul \notin Bytes`, in three theorems about the shell loop.
`printf("%s")` stops at a NUL that the remote sent, and `c > 0` drops one that is typed
(both in the list below), so the properties are about streams without one; the bytes of the
run are such streams. The invariant, the types and `KeysInOrder` need no hypothesis.

All theorems have the same shape: an invariant that is inductive, proved by one lemma per
action and conjunct group or per action, a step `NextInv` (under varying names) that
splits on the actions, and a temporal step at the end. The properties follow from the
invariant; refinements and action properties follow from the invariant in the state before
a step.

**Handles.** None of the properties is inductive. `StandsOnLive` speaks of live wrappers,
and it holds at a step because of facts about wrappers that are being destroyed: the
session of a channel is kept until the channel's member is released, though the client may
have let go of it long before. `IInv` says those facts:

- `HeldIsLive`: what the client holds has not been destroyed, so an operation can
  never start on a dead object;
- `NativeFollows`: native handles follow the phase of their wrappers;
- `OwnersStand`: what an owner points to is live until the owner has let go of it — with
  `Owned` it says that a destructor can start only when nobody is left above;
- `FdFollows`: the descriptor a native session was given is that of the socket kept for
  it, in particular over the two steps of `handshake`, unless the session is in `swapped`;
- `SocketsHaveFds`, `FdsAccounted`: descriptors belong to sockets one to one, so that
  closing one never closes another's;
- `OrphansWait`: what an EAGAIN left behind still has its session, or that was left too.

A client that repeats a handshake which was not completed with another socket breaks the
tie between a native session and its socket, and the class does not prevent it.
`WritesOwnSocket` and the descriptor part of `ReverseOrder` except the sessions this was
done to, until a startup begins anew; they and all the rest hold of every other session
however many are `swapped`.

**Login.** `Login` is built from the actions of `Handles`, so `IInv` holds of it
(`LoginKeepsInvariant`). What is
true of this client beyond any other is `LInv`: the three objects of the login are the only
ones that exist (`Alone`); what the client holds at each call (`Holds`); what is in
`scope` is exactly what it still holds, once each, while the constructor is left
(`ScopeLists`); the channel is one of the session and the session has the login's socket
and its descriptor once it was handed over, and was never handed another (`Joined`); the session blocks until `main`
clears the mode (`BlocksYet`), which is why no free returns EAGAIN during a failed login
and nothing is left by one; and destructors have run when the failure reaches the caller
(`Quiet`). `ConnectionKept` then follows from `OwnersStand`: the channel is held, and
everything else hangs on it.

**Streams.** In the shell loop, the relays and the transfers a stream is in three
places: what has come out, what a buffer holds and what waits.
`Flows(given, out, held, waits)` of `StreamLemmas` says that the three, joined, are what
was given. Each lemma there is one way to move: from what waits to the buffer, from the
buffer to the outside, a part of any size from one to the other, one byte more at the end.
The proofs name the move each action makes. `IsFront(out, given)` is what is left of it
once an error has stopped the stream.

**ShellClient.** `OutputInv`: `Flows(sent, screen, queue, net)`; an EOF that libssh2 has
seen means the remote is closing and nothing is on the way; a loop that was left had seen
it with an empty queue. The last two are what `OutputConserved` does not say and
`LeavesWhenShown` needs. `ModesInv`: which terminal modes are back at which point of the
end. `InputInOrder` is inductive with the types; for `KeysKept` the four places of a
key (sent, in hand, in the buffer of `getchar`, at the terminal) are joined to one
sequence, and each action is shown to keep its length or to take out one key, at a write.

**Relays.** The one buffer serves both directions, so what it holds of each depends on
`pc`: `UpHeld` while `pc` is `"write"`, `DnHeld` while it is `"send"`, the part of `buf`
behind `wr`. `UpInv` and `DnInv` are `Flows` through these as long as no error ended the
loop, `IsFront` always, and that a loop ended by a close had nothing more to read.
That the two directions never mix is the part of this invariant that needs the types:
`wr < Len(buf)` inside the write loops. `TcpipForward`'s way up is excluded by name: there
it is false (`tcpip_forward_up`).

**Transfer.** `Copied`: in an upload, and in a download none of whose local writes fell
short (`Gapless`), what came out is a front of the file, and without an error output,
buffer and the file behind `pos` are the file; after an error either the loop has ended
or it is an upload whose connection is lost. The last clause is needed because
`scp_write.c` goes on after a failed write, with the block dropped: it leaves no hole
only because no later write succeeds. With it each step is a step of `Copy` or none: a
read extends the copy or falls short, a write extends it by `FrontExtends`, and a fill
shows only when it falls short.

**X11.** `Distinct` (a client has one node), `OnList` (the walk stands on a listed node),
`Accepted` (a client that has a node or had one is not accepted again) hold whatever
`remove_node` does; `InOrder` (open sockets are those listed, what was freed is not linked)
until it is given a node that it cannot remove. All for any number of clients at a time.

**Echo.** `Conserved`: written bytes are with `cat`, on their way back, or read. `EndsLast`:
the EOF goes after the last byte, and `cat` ends behind it. `ReportsLast`: what the last
poll reported is still true when the loop acts on it — a channel reported closed with
nothing to read has nothing to read. `ActsOnReports`: the loop is left only in a turn that
did nothing. Together they close the gap between the poll and the test that leaves the
loop, over which `cat` and the network go on.

**Netconf.** `Heard` is what the server has said and was not used yet: in the buffer up
to `rd`, and on the way. `InTurn` says that it is at any time one of: the newline the last
message ended with, one whole message behind it, or an answer too long for the buffer.
`ClearBehind`: behind `rd` the buffer is NUL, so that the search for the end marker stops at
what was read and never at what an earlier exchange left. `AnsweredOnce`: a request is
answered once. `Answers`: what was returned, exchange by exchange. `Programs` changes no
variable of either loop, so it takes one lemma to carry both invariants over its steps.

**Programs.** A program may come to a label from a dozen calls, and what it holds there
depends on which of them failed; the properties are about all of these ways. The argument
has two halves.

- *The tables* (`Knowledge`). `KnownBefore(p)` goes through the table of `p` once, from
  the first step on, and writes down before each step what is held by whichever way the
  program came there (`holds`), all that can be held (`may`), and which of three facts are
  sure (`facts`: the session blocks, the user is logged in or need not be, no method was
  chosen). At a label the ways are joined: `holds` and `facts` are what they have in
  common, `may` what any of them has. `StepSound` is what each step then has to satisfy: it
  works on what is in `holds`, nothing in `may` stands on what it releases, a service needs
  the login, an EAGAIN that is not repeated needs a session that blocks, and every way
  leads forward to a place where no more is claimed. `TablesAreSound` says so of every step
  of every program. It contains no constant and no variable, so evaluating it once settles
  it; TLC does, at the start of `transfer`, and finds it false when a release is left out
  or swapped in a table. TLAPS takes it as an assumption: it has no evaluator for
  tables of this size.
- *The runs* (`ExamplesProofs`). That a program behaves as its table says is known is
  not evaluated but proved: `ProgramsInv` is that what is known before the step
  that comes next is true (`Known`). `SuccessTrue`, `FailureTrue` and `SkipTrue` are the
  three ways out of a step, `Arrives` carries what they make known to wherever control
  goes, and one lemma per action shows that it is one of the three, for any number of
  identities and with both loops in the place of their steps. `SessionFirst` is
  the one fact the tables cannot give: a session that is NULL has no channel, which
  `ssh2_agent.c` needs where it tests the session only.

`UsesWhatItHolds`, `LeavesNothing` and `RetriesEagain` then hold by the invariant;
`ReleasesInOrder` and `Authenticates` by it in the state before a step.

Only model-checked:

- All liveness (`NoCallRefused`, `LoginUnwinds`, `EndsAtEof`, `CloseEndsRelay`, `DirectForwardsAll`,
  `TransferEnds`, `ClientsServed`, `Ends`): TLAPS proves no property under fairness of this
  kind.
- `TablesAreSound`: evaluated, as said above. No invariant and no action property of a
  passing run is left to TLC alone.
- The properties of the five runs that expect a violation.

## Findings

- `ssh.cpp:69` — the loop goes on for ever once the connection is lost.
- `ssh.cpp:79` — `select` does not see what `getchar` has buffered.
- `tcpip-forward.c:268` — a short write is followed by one of the whole buffer.
- `sftp_RW_nonblock.c:303` — `nread -= nread` drops what a short write left.
- `x11.c:60` — `remove_node` frees the node behind the one it unlinks, and its loop does
  not advance.

More are plain from their lines, contradict no text of the repository, and have no run of
their own:

- modelled: `printf("%s")` stops at a NUL and may run past a full buffer (`ssh.cpp:61`,
  `Printed`, `stray`); a NUL that is typed is not sent (`ssh.cpp:81`); a key whose write returns EAGAIN is dropped (`ssh.cpp:83`, `WriteFails`);
  the descriptor of a socket whose `connect` failed stays open (`Socket.hpp:60`,
  `FdsAccounted` names them); `subsystem_netconf.c` sends its first request with a
  length that was never set in full (line 263) and searches a full buffer past its end
  (line 94), and takes a write of nothing for success (line 65); five downloads do not look
  at what their local write took (`scp.c:159`, `scp_nonblock.c:244`, `sftp.c:266`,
  `sftp_nonblock.c:257`, `sftp_RW_nonblock.c:243`; `ReadSome`), and the uploads take an
  error of `fread` for the end of the file (`Fill`); a poll that keeps failing keeps
  `ssh2_echo.c` going round (line 255, `PollBlind`); the exceptions of `Programs`, above;
- not modelled: `is_pubkey_auth_supported` looks for "pubkey" in a list whose word is
  "publickey" (`Session.hpp:74`), so it is always false, but nothing calls it; `Port` is
  an `int16_t` (`Socket.hpp:15`) that `connect` takes as `uint16_t`, a round trip that
  keeps every port; `x11.c` sends eight bytes for one key (line 445).

## Not modelled

Terminal sizes, environment variables, signals, exec and subsystem requests of
`Channel` (single native calls that change no state of the wrapper); host key
fingerprints and other output; cryptography and the SSH protocol, inside libssh2;
memory that cannot be allocated, but for the loop of `x11.c` and a NULL session;
Windows variants. Threads: none of this code starts one, and the wrappers have no locks.
Further:

- `x11.c`: the shell's own data, and what a short write to a client or its display drops
  (the component is `partly` modelled for this).
- Another writer of the file in `sftp_append.c`, between its `fstat` and its writes.
- The helper `waitsocket` of the programs that do not block: it only delays a repeated
  call. Parsing of arguments, `kbd_callback`, listings and statistics that are printed.
- `libssh2_config.h`: preprocessor settings, nothing executes.

## Plan

The code is modelled as far as "Not modelled" says, and every invariant, action
property and refinement of the passing runs is proved. What could be added:

1. Action properties that say more of the two-step operations: nothing of a session
   is used between the two statements of `handshake`.
2. The shell's data in `x11.c`, with the short writes to a client and its display.
3. Another writer in `sftp_append.c`.
