------------------------------ MODULE Examples -------------------------------
(* The programs of src/example with the loop of ssh2_echo and the            *)
(* conversation of subsystem_netconf in the place of one step each.          *)
EXTENDS Programs

CONSTANTS
    Total, BufSize, Window,   \* of Echo
    BufLen, ReqLen            \* of Netconf

ASSUME ExamplesAssumption ==
    /\ Total \in Nat /\ BufSize \in Nat \ {0} /\ Window \in Nat \ {0}
    /\ BufLen \in Nat \ {0, 1, 2, 3} /\ ReqLen \in Nat \ {0}

VARIABLES
    turn, revents, act, pollOut, totwritten, totread, eof, catIn, queue, cat,
    phase, exchange, len, wr, request, buf, rd, net, server, answer

E == INSTANCE Echo
N == INSTANCE Netconf

echoVars == <<turn, revents, act, pollOut, totwritten, totread, eof, catIn, queue, cat>>
netconfVars == <<phase, exchange, len, wr, request, buf, rd, net, server, answer>>
vars == <<programVars, echoVars, netconfVars>>

ExamplesInit == ProgramsInit /\ E!EchoInit /\ N!NetconfInit

(* The steps that are looked into.                                           *)
InEcho == outcome = "running" /\ Now.call = "echo_loop"
InNetconf == outcome = "running" /\ Now.call = "netconf_session"
AtTotals == outcome = "running" /\ Now.call = "compare_totals"

Outline ==
    /\ ~InEcho /\ ~InNetconf /\ ~AtTotals
    /\ ProgramsNext
    /\ UNCHANGED <<echoVars, netconfVars>>

(* Both run only while the program is at their step.                         *)
EchoStep == InEcho /\ E!EchoNext /\ UNCHANGED <<programVars, netconfVars>>
NetconfStep == InNetconf /\ N!NetconfNext /\ UNCHANGED <<programVars, echoVars>>

Leave(target) ==
    /\ Go(target)
    /\ UNCHANGED <<program, held, blocking, authVars, abandoned,
                   echoVars, netconfVars>>

(* The loop is left, or one of its calls failed: exit(1).                    *)
EchoEnds == InEcho /\ turn \in {"left", "exit"}
            /\ Leave(IF turn = "left" THEN "on" ELSE Now.fail)

NetconfEnds ==
    /\ InNetconf /\ phase \in {"ok", "failed", "overrun"}
    /\ Leave(CASE phase = "ok" -> "on"
               [] phase = "failed" -> Now.fail
               [] phase = "overrun" -> "crash")

(* totwritten != totread: exit(1).                                           *)
CompareTotals ==
    AtTotals /\ Leave(IF totwritten = totread THEN "on" ELSE Now.fail)

Move == Outline \/ EchoEnds \/ NetconfEnds \/ CompareTotals

ExamplesNext == Move \/ EchoStep \/ NetconfStep

ExamplesSpec == ExamplesInit /\ [][ExamplesNext]_vars

(* Programs run; a call that is repeated on EAGAIN returns something else in *)
(* the end, in the loop of ssh2_echo too, whose polls report what there is   *)
(* unless they have gone blind; cat goes on.  Of the NETCONF server: that it *)
(* answers a request it can read.                                            *)
Fairness ==
    /\ WF_vars(Move)
    /\ WF_vars(InEcho /\ E!EchoLoop /\ UNCHANGED <<programVars, netconfVars>>)
    /\ SF_vars(EchoStep /\ totread' > totread)
    /\ SF_vars(EchoStep /\ totwritten' > totwritten)
    /\ SF_vars(EchoStep /\ eof' # eof)
    /\ WF_vars(EchoStep /\ catIn' < catIn)
    /\ WF_vars(EchoStep /\ E!CatEnds)
    /\ WF_vars(NetconfStep /\ N!NetconfSteps)
    /\ WF_vars(NetconfStep /\ N!Replies)

ExamplesFairSpec == ExamplesSpec /\ Fairness

-----------------------------------------------------------------------------
(* Properties.                                                               *)

(* Counts stay within what is sent and what fits, steps within their         *)
(* program, and the loops within their turns.                                *)
ExamplesTypeOK == ProgramsTypeOK /\ E!EchoTypeOK /\ N!NetconfTypeOK

(* The promise of the echo loop, on every way the program can come to it.    *)
EchoComplete == E!EchoComplete

(* A program that ends well has had an answer from the server, if it is      *)
(* subsystem_netconf, and no answer it took was cut or mixed.                *)
ReplyWhole == N!ReplyWhole

(* Outside their loops all programs come to an end, whatever fails, and so   *)
(* do the two loops that are looked into here: that of ssh2_echo, unless its *)
(* polls go on reporting nothing, and the conversation of subsystem_netconf, *)
(* unless its request was not sent as it is, or the server closes: it then   *)
(* waits, or reads 0, for ever.  The other loops are one step here, and are  *)
(* taken to end; Transfer, Relays, ShellClient and X11 tell when they do.    *)
Ends ==
    <>(\/ outcome # "running"
       \/ turn = "blind"
       \/ request = "garbled" \/ server = "closed")
=============================================================================
