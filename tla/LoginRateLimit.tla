--------------------------- MODULE LoginRateLimit ---------------------------
(***************************************************************************)
(* The counter of login attempts of one address and email, kept in Redis   *)
(* by the middleware of internal/api/ratelimit.go and deleted by a login   *)
(* that succeeds (handleLogin in auth.go).  Every command to Redis is a    *)
(* step of its own and its error is ignored.                               *)
(***************************************************************************)
EXTENDS Integers, FiniteSets

CONSTANTS
    Attempts,     \* login requests
    Limit,        \* attempts that pass in a window
    MaxLost       \* bound: commands to Redis that fail

ASSUME LimitAssumption == IsFiniteSet(Attempts) /\ Limit \in Nat \ {0} /\ MaxLost \in Nat

VARIABLES
    attempt,   \* attempt[a]: where the request is
    counter,   \* the key: its count, 0 when it does not exist, and its expiry
    lost,
    passed,    \* history: requests that passed since the key last disappeared
    unset      \* history: the expiry of the key was lost

limitVars == <<attempt, counter, lost, passed, unset>>

LimitInit ==
    /\ attempt = [a \in Attempts |-> "arrived"]
    /\ counter = [count |-> 0, expires |-> FALSE]
    /\ lost = 0
    /\ passed = 0
    /\ unset = FALSE

Turn(a, from, to) == attempt[a] = from /\ attempt' = [attempt EXCEPT ![a] = to]

Gone == [count |-> 0, expires |-> FALSE]

\* The decision taken on the number that INCR has returned.
Verdict(count) == IF count > Limit THEN "limited" ELSE "login"

\* INCR: the first one of a window goes on to set the expiry.
Increment(a) ==
    /\ LET count == counter.count + 1 IN
       /\ Turn(a, "arrived", IF count = 1 THEN "expire" ELSE Verdict(count))
       /\ counter' = [counter EXCEPT !.count = count]
       /\ passed' = IF Verdict(count) = "login" THEN passed + 1 ELSE passed
    /\ UNCHANGED <<lost, unset>>

\* INCR fails, or its answer is lost: the request passes and sets no expiry.
IncrementFails(a) ==
    /\ lost < MaxLost
    /\ Turn(a, "arrived", "login")
    /\ lost' = lost + 1
    /\ \/ UNCHANGED <<counter, unset>>
       \/ counter' = [counter EXCEPT !.count = @ + 1] /\ unset' = (unset \/ counter.count = 0)
    /\ UNCHANGED passed

\* Mutant: the expiry is set when the limit is reached.
ExpiresAtLimit(a) ==
    /\ Turn(a, "expire", "login")
    /\ counter' = [counter EXCEPT !.expires = @ \/ counter.count >= Limit]
    /\ UNCHANGED <<lost, passed, unset>>

\* EXPIRE, which does nothing to a key that is gone.
Expire(a) ==
    /\ Turn(a, "expire", "login")
    /\ counter' = [counter EXCEPT !.expires = counter.count > 0]
    /\ UNCHANGED <<lost, passed, unset>>

ExpireFails(a) ==
    /\ lost < MaxLost
    /\ Turn(a, "expire", "login")
    /\ lost' = lost + 1
    /\ unset' = TRUE
    /\ UNCHANGED <<counter, passed>>

\* handleLogin: a wrong password ends the request, a right one deletes the key.
LoginFails(a) == Turn(a, "login", "done") /\ UNCHANGED <<counter, lost, passed, unset>>
LoginSucceeds(a) ==
    /\ Turn(a, "login", "done")
    /\ \/ counter' = Gone /\ passed' = 0 /\ UNCHANGED lost
       \/ lost < MaxLost /\ lost' = lost + 1 /\ UNCHANGED <<counter, passed>>
    /\ UNCHANGED unset

\* Fifteen minutes pass.
WindowEnds ==
    /\ counter.expires
    /\ counter' = Gone
    /\ passed' = 0
    /\ UNCHANGED <<attempt, lost, unset>>

LimitNext ==
    \/ \E a \in Attempts :
          \/ Increment(a) \/ IncrementFails(a)
          \/ Expire(a) \/ ExpireFails(a)
          \/ LoginFails(a) \/ LoginSucceeds(a)
    \/ WindowEnds

\* Redis removes what has expired; a request that has incremented goes on.
LimitFairness ==
    /\ WF_limitVars(WindowEnds)
    /\ \A a \in Attempts : WF_limitVars(Expire(a) \/ ExpireFails(a))

LimitSpec == LimitInit /\ [][LimitNext]_limitVars /\ LimitFairness

-----------------------------------------------------------------------------
(* Properties *)

(* Of the attempts that Redis counts, no more than Limit reach the password   *)
(* check until the key goes away, however the requests interleave and even    *)
(* when the count of others is lost.                                          *)
WindowIsLimited == passed <= Limit

(* An address that is limited is let in again some day, unless the EXPIRE of  *)
(* the first attempt was lost: its error is ignored, and it is not sent when  *)
(* the answer of INCR was lost; no later attempt repeats it.                  *)
LockoutEnds == (counter.count > Limit) ~> (counter.count <= Limit \/ unset)
=============================================================================
