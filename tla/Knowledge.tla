------------------------------ MODULE Knowledge ------------------------------
(* What is known of a program before each of its steps, by whichever way it  *)
(* came there: worked out from its table alone, step by step.  TLC evaluates *)
(* the assumption that each step of each table finds what it needs; that the *)
(* programs then behave is proved from it.                                   *)
EXTENDS ProgramTables

(* The session blocks; the user is logged in, or need not be; no method has  *)
(* been chosen from the server's list.                                       *)
Facts == {"blocking", "in", "untried"}

(* A record of knowledge: k.holds is held for sure, k.may is all that can be *)
(* held, but for what is known to be left behind, and k.facts are true.      *)
AtStart == [holds |-> {}, may |-> {}, facts |-> {"blocking", "untried"}]

-----------------------------------------------------------------------------
(* What a step makes of what is known.                                       *)

AfterSuccess(p, s, k) ==
    [holds |-> ((k.holds \cup Api[s.call].uses) \ Api[s.call].drops)
                   \cup Api[s.call].gets,
     may   |-> (k.may \ Api[s.call].drops) \cup (Api[s.call].gets \ LeftBy(p)),
     facts |-> {f \in Facts :
         CASE f = "blocking" -> s.call = "blocking"
                                \/ (f \in k.facts /\ s.call # "nonblocking")
           [] f = "in"       -> f \in k.facts \/ s.call \in {"userauth", "agent_userauth"}
           [] f = "untried"  -> f \in k.facts /\ s.among = {}}]

(* What a release would have released is known to be left.                   *)
AfterFailure(s, k) ==
    [holds |-> k.holds \cup Api[s.call].uses,
     may   |-> k.may \ Api[s.call].drops,
     facts |-> {f \in k.facts : f = "untried" => s.among = {}}]

(* Without a session there is nothing of it.                                 *)
AfterSkip(s, k) ==
    [holds |-> k.holds,
     may   |-> k.may \ (IF s.guard = "session" THEN OfSession ELSE {s.guard}),
     facts |-> {f \in Facts : f \in k.facts \/ (f = "in" /\ s.guard = "password")}]

(* Where control goes: behind the last step at the end, to 0 when the        *)
(* program returns.                                                          *)
Beyond(p) == Len(Table[p]) + 1

Target(p, i, t) ==
    CASE t = "on" -> i + 1
      [] t = "done" -> Beyond(p)
      [] t \in {"return", "crash"} -> 0
      [] OTHER -> CHOOSE j \in DOMAIN Table[p] : Table[p][j].label = t

(* A release fails with EAGAIN or not at all.                                *)
CanFail(s) == s.call \notin Sure /\ (Api[s.call].drops = {} \/ s.call \in Remote)

(* The ways on from a step.                                                  *)
Ways(p, i, k) ==
    LET s == Table[p][i]
    IN  {[to |-> Target(p, i, s.next), known |-> AfterSuccess(p, s, k)]}
        \cup {[to |-> Target(p, i, f), known |-> AfterFailure(s, k)] :
                 f \in {g \in {s.fail} : CanFail(s)}}
        \cup {[to |-> i + 1, known |-> AfterSkip(s, k)] : g \in {s.guard} \ {""}}

(* What all the ways to a step agree on.                                     *)
Common(ks) ==
    [holds |-> {t \in Resources : \A k \in ks : t \in k.holds},
     may   |-> UNION {k.may : k \in ks},
     facts |-> {f \in Facts : \A k \in ks : f \in k.facts}]

(* What is known before the first n steps.  All ways lead forward.           *)
KnownBefore(p) ==
    LET known[n \in 0 .. Beyond(p)] ==
          IF n = 0 THEN <<>>
          ELSE LET ks == known[n - 1]
                   ways == UNION {Ways(p, j, ks[j]) : j \in DOMAIN ks}
               IN  Append(ks, IF n = 1 THEN AtStart
                              ELSE Common({w.known : w \in {v \in ways : v.to = n}}))
    IN  known[Beyond(p)]

-----------------------------------------------------------------------------
(* What makes a step sound.                                                  *)

Implies(k, l) == l.holds \subseteq k.holds /\ k.may \subseteq l.may /\ l.facts \subseteq k.facts

(* Nothing that is or may be held stands on what the step releases.          *)
InOrder(s, k) ==
    \A d \in StandsOn :
        d[2] \in Api[s.call].drops =>
            d[1] \notin (k.may \ Api[s.call].drops) \cup Api[s.call].gets

(* What the step works on is held, or it is one of the calls known to crash. *)
FindsAll(p, s, k) ==
    /\ \/ Api[s.call].uses \subseteq k.holds \cup ({s.guard} \ {"", "password"})
       \/ <<p, s.call>> \in KnownCrashes
    /\ s.fail = "crash" \/ s.call = "netconf_session" => <<p, s.call>> \in KnownCrashes

(* A service is asked for by a user logged in; one method is tried, once.    *)
AsksInTurn(s, k) ==
    /\ s.call \in Services => "in" \in k.facts
    /\ s.among # {} => "untried" \in k.facts

(* A call that builds something up is repeated on EAGAIN, or blocks.         *)
Repeats(p, s, k) ==
    s.call \in Remote /\ ~s.again =>
        \/ "blocking" \in k.facts
        \/ Api[s.call].drops # {} \/ s.call = "disconnect"
        \/ s.call = "sftp_open" /\ p = "sftp_RW_nonblock"

(* Steps that are looked into, or that list or choose, hold what they held.  *)
Loops == {"echo_loop", "netconf_session", "compare_totals"}

KeepsHeld(s) ==
    s.call \in Loops \cup Listing \/ s.among # {} =>
        Api[s.call].gets = {} /\ Api[s.call].drops = {} /\ s.call \notin Sure

StepSound(p, i) ==
    LET s == Table[p][i]
        k == KnownBefore(p)[i]
    IN  /\ s.call \in DOMAIN Api
        /\ s.next \in {"on", "done", "return"}
        /\ s.call \in Loops \cup Listing => s.next = "on"
        /\ s.call \in Loops => s.guard = "" /\ Api[s.call].uses \subseteq k.holds
        /\ \/ s.fail \in {"on", "return", "crash"}
           \/ \E j \in DOMAIN Table[p] : Table[p][j].label = s.fail
        /\ FindsAll(p, s, k)
        /\ InOrder(s, k)
        /\ AsksInTurn(s, k)
        /\ Repeats(p, s, k)
        /\ KeepsHeld(s)
        /\ \A w \in Ways(p, i, k) :
              w.to # 0 => /\ w.to \in i + 1 .. Beyond(p)
                          /\ Implies(w.known, KnownBefore(p)[w.to])

TableSound(p) ==
    /\ Len(Table[p]) \in Nat \ {0}
    /\ DOMAIN Table[p] = 1 .. Len(Table[p])
    /\ KnownBefore(p)[1] = AtStart
    /\ KnownBefore(p)[Beyond(p)].may = {}
    /\ \A i \in DOMAIN Table[p] : StepSound(p, i)

(* What is of a session is got from one, and released with it.               *)
CallSound(c) ==
    /\ Api[c].gets \cap OfSession # {} =>
          Api[c].gets = {"session"} \/ "session" \in Api[c].uses
    /\ Api[c].gets = {} \/ Api[c].drops = {}
    /\ "session" \in Api[c].drops => OfSession \subseteq Api[c].drops

(* No constant of a model occurs in this: it is true or false of the tables  *)
(* as they stand, and TLC computes which.                                    *)
ASSUME TablesAreSound ==
    /\ \A c \in DOMAIN Api : CallSound(c)
    /\ \A p \in DOMAIN Table : TableSound(p)
=============================================================================
