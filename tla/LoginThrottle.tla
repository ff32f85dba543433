--------------------------- MODULE LoginThrottle ---------------------------
(***************************************************************************)
(* The throttle of POST /auth/login (internal/auth/ratelimit.go;           *)
(* cache/analytics.go, Increment and Forget; api/handlers_auth.go, login). *)
(*                                                                         *)
(* An attempt is counted under its account and then under its address,     *)
(* before anything is verified.  Redis counts for all processes, in a      *)
(* window that slides from the last attempt; when a call to it fails, the  *)
(* process counts by itself, in windows that begin with their first        *)
(* attempt.  A success clears the account's counters and not the address's.*)
(*                                                                         *)
(* Time is what is left of each key and how long ago each attempt passed.  *)
(* A count stops at one more than its limit, where nothing can tell it     *)
(* from a larger one.                                                      *)
(***************************************************************************)
EXTENDS Integers, FiniteSets

CONSTANTS
  Process,           \* API processes
  Login,             \* concurrent requests
  Account, Address,
  AccountLimit, AddressLimit,
  Window,            \* LoginAttemptWindow
  MaxRefusals        \* bound: failing Redis calls

Redis     == "redis"

ASSUME ThrottleAssumption ==
  /\ AccountLimit \in Nat \ {0}
  /\ AddressLimit \in Nat \ {0}
  /\ Window \in Nat \ {0}
  /\ MaxRefusals \in Nat
  /\ Account \cap Address = {}
  /\ Redis \notin Process

Counted   == Account \cup Address
LimitOf(k) == IF k \in Account THEN AccountLimit ELSE AddressLimit
Counters  == Process \cup {Redis}

VARIABLES
  shared,            \* [Counted -> [count, left]]  keys in Redis
  own,               \* [Process -> [Counted -> [count, left]]]  Limiter.local
  login,             \* [Login -> [at, account, address, process]]
  passed,            \* history: [Counted -> [Counters -> [age -> attempts let through]]]
  refusals

throttleVars == <<shared, own, login, passed, refusals>>

Age     == 0..(Window - 1)
Slot    == [count : Nat, left : Nat]
NoLogin == [at |-> "idle", account |-> "none", address |-> "none", process |-> "none"]

ThrottleTypeOK ==
  /\ shared \in [Counted -> Slot]
  /\ own \in [Process -> [Counted -> Slot]]
  /\ login \in [Login -> [at : {"idle", "account", "address", "verify", "reset"},
                          account : Account \cup {"none"}, address : Address \cup {"none"},
                          process : Process \cup {"none"}]]
  /\ passed \in [Counted -> [Counters -> [Age -> Nat]]]
  /\ refusals \in Nat

Empty == [count |-> 0, left |-> 0]

ThrottleInit ==
  /\ shared = [k \in Counted |-> Empty]
  /\ own = [p \in Process |-> [k \in Counted |-> Empty]]
  /\ login = [l \in Login |-> NoLogin]
  /\ passed = [k \in Counted |-> [via \in Counters |-> [t \in Age |-> 0]]]
  /\ refusals = 0

Refusal == refusals < MaxRefusals /\ refusals' = refusals + 1

Arrive(l, u, a, p) ==
  /\ login[l].at = "idle"
  /\ login' = [login EXCEPT ![l] = [at |-> "account", account |-> u, address |-> a, process |-> p]]
  /\ UNCHANGED <<shared, own, passed, refusals>>

KeyOf(l) == IF login[l].at = "account" THEN login[l].account ELSE login[l].address

\* The attempt goes on to the next key or to the password, or is turned away.
Judge(l, k, via, n) ==
  IF n <= LimitOf(k)
  THEN /\ login' = [login EXCEPT ![l].at = IF @ = "account" THEN "address" ELSE "verify"]
       /\ passed' = [passed EXCEPT ![k][via][0] = @ + 1]
  ELSE /\ login' = [login EXCEPT ![l] = NoLogin]
       /\ UNCHANGED passed

CountUp(k, slot) == IF slot.count > LimitOf(k) THEN slot.count ELSE slot.count + 1

\* INCR, then EXPIRE every time.
\* Mutant of Increment: the expiry is set on creation only.
IncrementOnce(k) ==
  [count |-> CountUp(k, shared[k]),
   left  |-> IF shared[k].count = 0 THEN Window ELSE shared[k].left]
Increment(k) == [count |-> CountUp(k, shared[k]), left |-> Window]

AllowShared(l) ==
  /\ login[l].at \in {"account", "address"}
  /\ shared' = [shared EXCEPT ![KeyOf(l)] = Increment(KeyOf(l))]
  /\ Judge(l, KeyOf(l), Redis, Increment(KeyOf(l)).count)
  /\ UNCHANGED <<own, refusals>>

\* now.After(reset): the instant of the reset still belongs to the window.
CountAlone(k, slot) ==
  [count |-> CountUp(k, slot), left |-> IF slot.count = 0 THEN Window + 1 ELSE slot.left]

AllowLocal(l) ==
  LET k == KeyOf(l)
      p == login[l].process
  IN
  /\ login[l].at \in {"account", "address"}
  /\ Refusal
  /\ own' = [own EXCEPT ![p][k] = CountAlone(k, @)]
  /\ Judge(l, k, p, CountAlone(k, own[p][k]).count)
  /\ UNCHANGED shared

WrongPassword(l) ==
  /\ login[l].at = "verify"
  /\ login' = [login EXCEPT ![l] = NoLogin]
  /\ UNCHANGED <<shared, own, passed, refusals>>

RightPassword(l) ==
  /\ login[l].at = "verify"
  /\ login' = [login EXCEPT ![l].at = "reset"]
  /\ UNCHANGED <<shared, own, passed, refusals>>

Cleared(l) == {login[l].account}

\* Limiter.Reset: Forget, whose failure nobody notices, then the local entry.
Reset(l) ==
  /\ login[l].at = "reset"
  /\ \/ /\ shared' = [k \in Counted |-> IF k \in Cleared(l) THEN Empty ELSE shared[k]]
        /\ UNCHANGED refusals
     \/ Refusal /\ UNCHANGED shared
  /\ own' = [own EXCEPT ![login[l].process] =
              [k \in Counted |-> IF k \in Cleared(l) THEN Empty ELSE @[k]]]
  /\ passed' = [passed EXCEPT ![login[l].account] =
                 [via \in Counters |-> [t \in Age |-> 0]]]
  /\ login' = [login EXCEPT ![l] = NoLogin]

Older(slot) == IF slot.left <= 1 THEN Empty ELSE [slot EXCEPT !.left = @ - 1]

TimePasses ==
  /\ shared' = [k \in Counted |-> Older(shared[k])]
  /\ own' = [p \in Process |-> [k \in Counted |-> Older(own[p][k])]]
  /\ passed' = [k \in Counted |-> [via \in Counters |->
                 [t \in Age |-> IF t = 0 THEN 0 ELSE passed[k][via][t - 1]]]]
  /\ UNCHANGED <<login, refusals>>

ThrottleNext ==
  \/ TimePasses
  \/ \E l \in Login :
       \/ AllowShared(l) \/ AllowLocal(l)
       \/ WrongPassword(l) \/ RightPassword(l) \/ Reset(l)
       \/ \E u \in Account, a \in Address, p \in Process : Arrive(l, u, a, p)

ThrottleSpec == ThrottleInit /\ [][ThrottleNext]_throttleVars

----------------------------------------------------------------------------
\* The attempts that numbers by age stand for, those of the ages S.
Attempts(numbers, S) == UNION {{t} \X (1..numbers[t]) : t \in S}

\* Attempts let through in the Window that ends now.
Recent(k, via) == Cardinality(Attempts(passed[k][via], Age))

\* Since the account's last success, and for an address whether or not its
\* attempts succeed, Redis lets no more than the limit through in any window,
\* and a process by itself no more than two windows' worth, whatever calls fail
\* (ratelimit.go, Allow and allowLocal; handlers_auth.go, login).
AttemptsAreBounded ==
  \A k \in Counted :
    /\ Recent(k, Redis) <= LimitOf(k)
    /\ \A p \in Process : Recent(k, p) <= 2 * LimitOf(k)
============================================================================
