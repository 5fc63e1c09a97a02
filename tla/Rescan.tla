------------------------------- MODULE Rescan -------------------------------
(***************************************************************************)
(* Rescanning a shelf on demand (shelf/shelf_rescan.go): one walk at a     *)
(* time, at a rate that a token bucket limits.                             *)
(*                                                                         *)
(* Time and tokens are counted in ticks: a token is Refill ticks, so that  *)
(* the fraction elapsed / rescanRefill is exact.  The code's float64 may   *)
(* round it.  A caller reads the clock BEFORE it gets the cache's mutex,   *)
(* so that the claims see times out of order.                              *)
(***************************************************************************)
EXTENDS Integers

CONSTANTS Callers,   \* requests in progress at a time
          Burst,     \* rescanBurst
          Refill,    \* rescanRefill, in ticks
          Window,    \* the tick from which RateBound counts
          MaxClock,  \* bound of the clock
          None

ASSUME RescanAssumption ==
    /\ Burst \in Nat \ {0} /\ Refill \in Nat \ {0}
    /\ Window \in Nat /\ MaxClock \in Nat
    /\ None \notin Callers /\ None \notin Nat

VARIABLES clock,
          tokens,    \* rescanTokens, in ticks
          stamp,     \* rescanTokensAt
          rescanID,  \* the caller whose walk is in progress
          pc,        \* where each caller is ...
          now,       \* ... the time it read ...
          limited,   \* ... and whether it is rate limited
          spent,     \* the ticks taken by the requests that arrived from Window on
          due        \* the first moment at which a refused caller was told to come back

bucket == <<tokens, stamp>>
caller == <<now, limited>>
vars == <<clock, bucket, rescanID, pc, caller, spent, due>>

Full == Burst * Refill

Init ==
    /\ clock = 0
    /\ tokens = Full
    /\ stamp = 0
    /\ rescanID = None
    /\ pc = [c \in Callers |-> "idle"]
    /\ now = [c \in Callers |-> 0]
    /\ limited = [c \in Callers |-> FALSE]
    /\ spent = 0
    /\ due = None

-----------------------------------------------------------------------------
Least(m, n) == IF m <= n THEN m ELSE n

Goto(c, step) == pc' = [pc EXCEPT ![c] = step]

Tick ==
    /\ clock < MaxClock
    /\ clock' = clock + 1
    /\ UNCHANGED <<bucket, rescanID, pc, caller, spent, due>>

\* Rescan and RescanUnthrottled read the clock and call beginRescan.
Arrive(c, rateLimited) ==
    /\ pc[c] = "idle"
    /\ Goto(c, "claim")
    /\ now' = [now EXCEPT ![c] = clock]
    /\ limited' = [limited EXCEPT ![c] = rateLimited]
    /\ UNCHANGED <<clock, bucket, rescanID, spent, due>>

\* Fault: a clock that goes back moves the stamp back.
RefilledBackwards(t) ==
    [tokens |-> IF t <= stamp THEN tokens ELSE Least(Full, tokens + t - stamp),
     stamp |-> t]

\* Fault: only whole tokens are added, and the rest of the time is forgotten.
RefilledWhole(t) ==
    IF t <= stamp THEN [tokens |-> tokens, stamp |-> stamp]
    ELSE [tokens |-> Least(Full, tokens + Refill * ((t - stamp) \div Refill)),
          stamp |-> t]

\* refillSince: the bucket at time t, which may be before the stamp.
Refilled(t) ==
    IF t <= stamp THEN [tokens |-> tokens, stamp |-> stamp]
    ELSE [tokens |-> Least(Full, tokens + t - stamp), stamp |-> t]

\* beginRescan finds a walk in progress: 409, and no token is taken.
Conflict(c) ==
    /\ pc[c] = "claim"
    /\ rescanID # None
    /\ Goto(c, "idle")
    /\ UNCHANGED <<clock, bucket, rescanID, caller, spent, due>>

\* takeRescanTokenLocked has no whole token: 429, with the time until there is one.
Refuse(c) ==
    LET b == Refilled(now[c])
        told == clock + Refill - b.tokens
    IN  /\ pc[c] = "claim"
        /\ rescanID = None
        /\ limited[c] /\ b.tokens < Refill
        /\ tokens' = b.tokens
        /\ stamp' = b.stamp
        /\ due' = IF due = None THEN told ELSE Least(due, told)
        /\ Goto(c, "idle")
        /\ UNCHANGED <<clock, rescanID, caller, spent>>

\* beginRescan claims the walk, with a token when the caller is rate limited.
Claim(c) ==
    /\ pc[c] = "claim"
    /\ rescanID = None
    /\ IF limited[c]
         THEN LET b == Refilled(now[c]) IN
              /\ b.tokens >= Refill
              /\ tokens' = b.tokens - Refill
              /\ stamp' = b.stamp
              /\ spent' = IF now[c] >= Window THEN spent + Refill ELSE spent
              /\ due' = None
         ELSE UNCHANGED <<bucket, spent, due>>
    /\ rescanID' = c
    /\ Goto(c, "walk")
    /\ UNCHANGED <<clock, caller>>

\* Fault: endRescan is reached only when the walk succeeds.
EndOnSuccess(c) ==
    /\ pc[c] = "walk"
    /\ rescanID' \in {None, rescanID}
    /\ Goto(c, "idle")
    /\ UNCHANGED <<clock, bucket, caller, spent, due>>

\* The deferred endRescan: the shelf was locked and walked, or either failed.
End(c) ==
    /\ pc[c] = "walk"
    /\ rescanID' = None
    /\ Goto(c, "idle")
    /\ UNCHANGED <<clock, bucket, caller, spent, due>>

Step(c) == Conflict(c) \/ Refuse(c) \/ Claim(c) \/ End(c)

Next ==
    \/ Tick
    \/ \E c \in Callers : Step(c)
    \/ \E c \in Callers, rateLimited \in BOOLEAN : Arrive(c, rateLimited)

Spec == Init /\ [][Next]_vars

-----------------------------------------------------------------------------
\* Type invariant; nobody has read a time that is still to come, and the bucket
\* never holds more than its burst.
TypeOK ==
    /\ clock \in Nat
    /\ tokens \in 0 .. Full
    /\ stamp \in 0 .. clock
    /\ rescanID \in Callers \cup {None}
    /\ pc \in [Callers -> {"idle", "claim", "walk"}]
    /\ now \in [Callers -> 0 .. clock]
    /\ limited \in [Callers -> BOOLEAN]
    /\ spent \in Nat
    /\ due \in Nat \cup {None}

\* The walk that callers are told is in progress is in progress, and it is the
\* only one: a walk that fails does not keep later callers out.
OneWalk == \A c \in Callers : pc[c] = "walk" <=> rescanID = c

\* The tokens taken by the requests that arrived from Window on are covered by a
\* full bucket and the time since then, whatever order their claims came in.
RateBound == clock >= Window => spent <= Full + (clock - Window)

\* What makes RateBound inductive: a token is taken after the bucket has been
\* brought to the caller's time.
RateInv ==
    /\ stamp < Window => spent = 0
    /\ stamp >= Window => tokens + spent <= Full + (stamp - Window)

\* The bucket will have a whole token when the refused callers come back.
DueInv == due # None => due >= stamp + Refill - tokens

\* A caller that waits as long as the 429 told it is not refused again, when
\* nobody has taken a token in the meantime.
HonestRetry ==
    [][\A c \in Callers : Refuse(c) => due = None \/ now[c] < due]_vars
=============================================================================
