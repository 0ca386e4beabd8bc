------------------------------ MODULE Programs -------------------------------
(* The programs of src/example from libssh2_init to their end: how the steps *)
(* of their tables are run, and what is held meanwhile.                      *)
EXTENDS ProgramTables

CONSTANT MaxIdentities   \* a bound on the keys an ssh-agent offers

ASSUME ProgramsAssumption == MaxIdentities \in Nat

VARIABLES
    program,    \* the program that runs
    pc,         \* its next step
    held,       \* what it has acquired and not released
    blocking,   \* the session blocks
    authed,     \* "no", "yes", or "skipped": login not asked for
    offered,    \* the methods of authentication the server lists
    option,     \* the method asked for on the command line, or "none"
    tried,      \* the method chosen from the list, or "none"
    identities, \* keys of the agent not tried yet
    abandoned,  \* calls that returned EAGAIN and were not repeated
    outcome     \* "running", "done", "returned" (early), or "crash"

programVars == <<program, pc, held, blocking, authed, offered, option, tried,
                 identities, abandoned, outcome>>
authVars == <<authed, offered, option, tried, identities>>

-----------------------------------------------------------------------------
(* Running a program.                                                        *)

Steps == Table[program]
Now == Steps[pc]

ProgramsInit ==
    /\ program \in DOMAIN Table /\ pc = 1 /\ held = {} /\ blocking = TRUE
    /\ authed = "no" /\ offered = {} /\ option = "none" /\ tried = "none"
    /\ identities = 0 /\ abandoned = {} /\ outcome = "running"

(* Control leaves the step that runs: on to the next, to a label or out.     *)
Go(target) ==
    CASE target = "on" ->
           IF pc = Len(Steps) THEN outcome' = "done" /\ pc' = pc
                              ELSE pc' = pc + 1 /\ outcome' = outcome
      [] target \in {"done", "return", "crash"} ->
           /\ outcome' = IF target = "return" THEN "returned" ELSE target
           /\ pc' = pc
      [] OTHER ->
           /\ pc' = CHOOSE i \in DOMAIN Steps : Steps[i].label = target
           /\ outcome' = outcome

(* The call of the step that runs is made: no "if" stands around it, or its  *)
(* test holds.  "password" is a test of the command line and may go either   *)
(* way.  The call finds what it uses, or crashes.                            *)
Due == outcome = "running" /\ Now.guard \in held \cup {"", "password"}
Ready == Due /\ Api[Now.call].uses \subseteq held

Skip ==
    /\ outcome = "running" /\ Now.guard \notin held \cup {""}
    /\ Go("on")
    /\ authed' = IF Now.guard = "password" THEN "skipped" ELSE authed
    /\ UNCHANGED <<program, held, blocking, offered, option, tried, identities, abandoned>>

Crash ==
    /\ Due /\ ~Ready
    /\ Go("crash")
    /\ UNCHANGED <<program, held, blocking, authVars, abandoned>>

(* EAGAIN in a loop that repeats the call is no step.                        *)
Succeed ==
    /\ Ready /\ Now.call \notin Listing /\ Now.among = {}
    /\ Now.call = "connect" => "sock" \in held
    /\ Go(Now.next)
    /\ held' = (held \ Api[Now.call].drops) \cup Api[Now.call].gets
    /\ blocking' = (Now.call = "blocking" \/ (blocking /\ Now.call # "nonblocking"))
    /\ authed' = IF Now.call = "userauth" THEN "yes" ELSE authed
    /\ UNCHANGED <<program, offered, option, tried, identities, abandoned>>

Fail ==
    /\ Ready /\ Now.call \notin Sure \cup {"publickey_listed"} /\ Now.among = {}
    /\ Api[Now.call].drops = {}
    /\ Go(Now.fail)
    /\ UNCHANGED <<program, held, blocking, authVars, abandoned>>

(* EAGAIN where the program looks for success or failure only.               *)
GiveUp ==
    /\ Ready /\ Now.call \in Remote /\ ~blocking /\ ~Now.again
    /\ Go(Now.fail)
    /\ abandoned' = abandoned \cup {Now.call}
    /\ UNCHANGED <<program, held, blocking, authVars>>

(* The server's list, and the argument of the command line.                  *)
List ==
    /\ Ready /\ Now.call = "userauth_list"
    /\ Go("on")
    /\ offered' \in SUBSET Methods
    /\ option' \in Methods \cup {"none"}
    /\ UNCHANGED <<program, held, blocking, authed, tried, identities, abandoned>>

(* The option counts if the server has the method; otherwise the first in    *)
(* the order of the code.                                                    *)
Chosen(usable, opt) ==
    CASE opt \in usable -> opt
      [] opt \notin usable /\ "password" \in usable -> "password"
      [] opt \notin usable /\ usable \cap {"password", "keyboard-interactive"}
                                  = {"keyboard-interactive"} -> "keyboard-interactive"
      [] usable = {"publickey"} -> "publickey"
      [] usable = {} -> "none"

Choose ==
    /\ Ready /\ Now.among # {}
    /\ tried' = Chosen(offered \cap Now.among, option)
    /\ \/ tried' # "none" /\ authed' = "yes" /\ Go(Now.next)
       \/ authed' = authed /\ Go(Now.fail)
    /\ offered' = {} /\ option' = "none"   \* not looked at again
    /\ UNCHANGED <<program, held, blocking, identities, abandoned>>

PublickeyListed ==
    /\ Ready /\ Now.call = "publickey_listed"
    /\ Go(IF "publickey" \in offered THEN "on" ELSE Now.fail)
    /\ offered' = {} /\ option' = "none"
    /\ UNCHANGED <<program, held, blocking, authed, tried, identities, abandoned>>

(* The loop over the identities the agent lists.                             *)
ListIdentities ==
    /\ Ready /\ Now.call = "agent_list"
    /\ Go("on")
    /\ identities' \in 0 .. MaxIdentities
    /\ UNCHANGED <<program, held, blocking, authed, offered, option, tried, abandoned>>

TryIdentity ==
    /\ Ready /\ Now.call = "agent_userauth" /\ identities > 0
    /\ identities' = identities - 1
    /\ \/ authed' = "yes" /\ Go("on")
       \/ UNCHANGED <<authed, pc, outcome>>
    /\ UNCHANGED <<program, held, blocking, offered, option, tried, abandoned>>

(* Faulty variant: what the loop left in rc is not looked at.                *)
NoIdentityGoesOn ==
    /\ Ready /\ Now.call = "agent_userauth" /\ identities = 0
    /\ Go("on")
    /\ UNCHANGED <<program, held, blocking, authVars, abandoned>>

NoIdentity ==
    /\ Ready /\ Now.call = "agent_userauth" /\ identities = 0
    /\ Go(Now.fail)
    /\ UNCHANGED <<program, held, blocking, authVars, abandoned>>

ProgramsNext ==
    \/ Skip \/ Crash \/ Succeed \/ Fail \/ GiveUp
    \/ List \/ Choose \/ PublickeyListed
    \/ ListIdentities \/ TryIdentity \/ NoIdentity

-----------------------------------------------------------------------------
(* Properties.                                                               *)

(* Control stays within the table of the program that runs, and what it      *)
(* holds among what the calls return.                                        *)
ProgramsTypeOK ==
    /\ program \in DOMAIN Table /\ pc \in DOMAIN Steps
    /\ held \subseteq Resources /\ blocking \in BOOLEAN
    /\ authed \in {"no", "yes", "skipped"}
    /\ offered \subseteq Methods
    /\ {option, tried} \subseteq Methods \cup {"none"}
    /\ identities \in 0 .. MaxIdentities
    /\ abandoned \subseteq Remote
    /\ outcome \in {"running", "done", "returned", "crash"}

(* Whichever calls fail or return EAGAIN, every way through a program hands  *)
(* each call the things it works on, acquired and not yet released: but for  *)
(* the places named, no label is reached too early or too late.              *)
UsesWhatItHolds == outcome = "crash" => <<program, Now.call>> \in KnownCrashes

(* What a program is known to leave behind, and what a release that returned *)
(* EAGAIN left.                                                              *)
Left == LeftBy(program) \cup UNION {Api[c].drops : c \in abandoned}

(* A program that runs to its end has released all the rest, by whichever    *)
(* label it came there.                                                      *)
LeavesNothing == outcome = "done" => held \subseteq Left

(* No step releases a thing while something that stands on it remains: a     *)
(* file is closed before SFTP is shut down, the agent before the session,    *)
(* the session before its socket, on every path.                             *)
ReleasesInOrder ==
    [][\A d \in StandsOn : d[2] \in held \ held' => d[1] \notin held' \ Left']_programVars

(* Only a method the server lists is tried, and the one asked for if it is   *)
(* listed; and no service is asked for by a user not logged in, except by    *)
(* ssh2_echo with an empty password.                                         *)
Authenticates ==
    [][/\ tried' # tried =>
            /\ tried' \in offered
            /\ option \in offered \cap Now.among => tried' = option
       /\ Due /\ Now.call \in Services => authed # "no"]_programVars

(* EAGAIN is never taken for a failure by a step that builds something up:   *)
(* the programs that do not block repeat every such call.  The second        *)
(* sftp_open of sftp_RW_nonblock is the exception: its upload is left out.   *)
RetriesEagain ==
    \A c \in abandoned :
        \/ Api[c].drops # {} \/ c = "disconnect"
        \/ c = "sftp_open" /\ program = "sftp_RW_nonblock"
=============================================================================
