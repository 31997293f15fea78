------------------------------ MODULE LoginGate ------------------------------
(***************************************************************************)
(* Signing in (authGate.attempt, auth.go, and codeStepAt, totp.go): wrong  *)
(* attempts are counted by address and lock it out for a while, and the    *)
(* code of an authenticator app works once.                                *)
(*                                                                         *)
(* An attempt reads the clock before it waits for authGate.mu, so attempts *)
(* under way are decided in another order than their times.  Lockouts go   *)
(* by the monotonic clock, codes by the wall clock; both count seconds.    *)
(***************************************************************************)
EXTENDS Integers

CONSTANTS IP,      \* addresses
          Attempt  \* logins, each made once

MaxFails == 5        \* maxLoginFails
Lockout  == 15 * 60  \* loginLockout
CodeStep == 30       \* seconds a code is shown

VARIABLES
  clock,
  twoStep,   \* a code is asked for
  pc,        \* how far every login is
  login,     \* what it was made with
  fails,     \* authGate.fails by address
  lastStep   \* authGate.lastStep

vars == <<clock, twoStep, pc, login, fails, lastStep>>

NoFails == [n |-> 0, last |-> 0]  \* no entry of the map
Login == [ip : IP,
          now : Nat, wall : Nat,  \* the times it has read, the second from the wall clock
          right : BOOLEAN,        \* name and password are right
          code : Nat]             \* the step the code is of

TypeOK == /\ clock \in Nat /\ twoStep \in BOOLEAN
          /\ pc \in [Attempt -> {"unmade", "asked", "ok", "wrong", "locked", "past"}]
          /\ login \in [Attempt -> Login]
          /\ fails \in [IP -> [n : 0..MaxFails, last : Nat]]
          /\ lastStep \in Nat

\* login[a] means nothing before a is made.
Init == /\ clock \in Nat /\ twoStep \in BOOLEAN
        /\ pc = [a \in Attempt |-> "unmade"]
        /\ login \in [Attempt -> Login]
        /\ fails = [i \in IP |-> NoFails]
        /\ lastStep = 0
-----------------------------------------------------------------------------
Ask(a) ==
  /\ pc[a] = "unmade" /\ pc' = [pc EXCEPT ![a] = "asked"]
  /\ \E m \in Login : m.now = clock /\ login' = [login EXCEPT ![a] = m]
  /\ UNCHANGED <<clock, twoStep, fails, lastStep>>

Old(entry, now) == now - entry.last >= Lockout
Entry(i, now) == IF Old(fails[i], now) THEN NoFails ELSE fails[i]
Locked(m) == Entry(m.ip, m.now).n >= MaxFails

\* One step either side of now, by the wall clock.
CodeMatches(code, wall) == LET t == wall \div CodeStep IN code \in t - 1 .. t + 1

Passes(m) == m.right /\ (twoStep => CodeMatches(m.code, m.wall) /\ m.code > lastStep)

\* The answer: what it was made with stays.
Answer(a, result) ==
  /\ pc[a] = "asked" /\ pc' = [pc EXCEPT ![a] = result]
  /\ UNCHANGED <<clock, twoStep, login>>

RefuseLocked(a) ==
  /\ Locked(login[a])
  /\ Answer(a, "locked") /\ UNCHANGED <<fails, lastStep>>

\* A miss is counted, and entries that are over are dropped, by this attempt's time.
RefuseWrong(a) ==
  LET m == login[a]
      miss == [n |-> Entry(m.ip, m.now).n + 1, last |-> m.now]
  IN /\ ~Locked(m) /\ ~Passes(m)
     /\ fails' = [i \in IP |-> IF i = m.ip THEN miss ELSE Entry(i, m.now)]
     /\ Answer(a, "wrong") /\ UNCHANGED lastStep

Accept(a) ==
  LET m == login[a] IN
  /\ ~Locked(m) /\ Passes(m)
  /\ fails' = [fails EXCEPT ![m.ip] = NoFails]
  /\ lastStep' = IF twoStep THEN m.code ELSE lastStep
  /\ Answer(a, "ok")

Tick == /\ clock' \in Nat /\ clock' > clock
        /\ UNCHANGED <<twoStep, pc, login, fails, lastStep>>

\* The table and the last step are in memory only.
Restart == /\ pc' = [a \in Attempt |-> IF pc[a] = "unmade" THEN "unmade" ELSE "past"]
           /\ fails' = [i \in IP |-> NoFails] /\ lastStep' = 0
           /\ UNCHANGED <<clock, twoStep, login>>

Decide(a) == RefuseLocked(a) \/ RefuseWrong(a) \/ Accept(a)

Next == \/ \E a \in Attempt : Ask(a) \/ Decide(a)
        \/ Tick \/ Restart

Spec == Init /\ [][Next]_vars
-----------------------------------------------------------------------------
Accepted(a) == pc[a] = "ok"

\* A code signs in once, also when two attempts with it are under way at the
\* same time, as long as the process lives ("each code works once").
CodeWorksOnce ==
  twoStep => \A a, b \in Attempt :
    Accepted(a) /\ Accepted(b) /\ login[a].code = login[b].code => a = b

\* An address with MaxFails misses keeps its entry until Lockout has passed since
\* the last of them: neither attempts that read their time earlier, nor the
\* cleanup after the miss of another address, end the lockout early.
LockoutLasts ==
  [][\A i \in IP : fails[i].n = MaxFails /\ fails'[i] # fails[i] =>
       Restart \/ clock - fails[i].last >= Lockout]_vars

\* Why they hold: times were read from the clock, and the last step is the newest
\* one that was accepted.
TimesArePast == \A a \in Attempt : pc[a] = "asked" => login[a].now <= clock
StepIsNewest == twoStep => \A a \in Attempt : Accepted(a) => login[a].code <= lastStep

\* The inductive invariant of the gate.
GateInv == TypeOK /\ TimesArePast /\ StepIsNewest /\ CodeWorksOnce
=============================================================================
