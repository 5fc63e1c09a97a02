---------------------------- MODULE RescanProofs ----------------------------
(***************************************************************************)
(* For every number of callers, burst, refill time and window: the rate of *)
(* rescans is bounded, walks do not overlap, and the wait that a refused   *)
(* caller is told is long enough.                                          *)
(***************************************************************************)
EXTENDS Rescan, TLAPS

\* The inductive invariant of the bucket and of the claim.
RescanInv == TypeOK /\ OneWalk /\ RateInv /\ DueInv

\* The burst is a number of ticks.
LEMMA FullIsNat == Full \in Nat
BY RescanAssumption DEF Full

\* Bringing the bucket to a time that has been keeps it within its burst, never
\* moves its stamp back and adds at most the time that has passed.
LEMMA RefilledBucket ==
    ASSUME TypeOK, NEW t \in 0 .. clock
    PROVE  LET b == Refilled(t) IN
           /\ b.tokens \in 0 .. Full
           /\ b.stamp \in 0 .. clock
           /\ b.stamp >= stamp /\ b.stamp >= t
           /\ b.tokens <= tokens + (b.stamp - stamp)
           /\ b.tokens < Full => b.tokens = tokens + (b.stamp - stamp)
BY FullIsNat DEF TypeOK, Refilled, Least

\* The bucket starts full, with no claim and no caller.
LEMMA RescanInit == Init => RescanInv
BY RescanAssumption, FullIsNat
   DEF Init, RescanInv, TypeOK, OneWalk, RateInv, DueInv

\* A token is never more than the burst.
LEMMA RefillWithinFull == Refill <= Full
<1>1. Burst \in Nat /\ Burst >= 1 /\ Refill \in Nat
  BY RescanAssumption
<1>2. Burst * Refill >= 1 * Refill
  BY <1>1
<1> QED
  BY <1>1, <1>2 DEF Full

\* Every step of the clock and of the callers preserves the invariant.
LEMMA RescanStep == RescanInv /\ [Next]_vars => RescanInv'
<1> SUFFICES ASSUME RescanInv, [Next]_vars PROVE RescanInv'
  OBVIOUS
<1> USE RescanAssumption, FullIsNat, RefillWithinFull
<1>1. CASE Tick
  BY <1>1 DEF Tick, RescanInv, TypeOK, OneWalk, RateInv, DueInv, bucket, caller
<1>2. ASSUME NEW c \in Callers, NEW rateLimited \in BOOLEAN, Arrive(c, rateLimited)
      PROVE  RescanInv'
  BY <1>2 DEF Arrive, Goto, RescanInv, TypeOK, OneWalk, RateInv, DueInv, bucket
<1>3. ASSUME NEW c \in Callers, Conflict(c)
      PROVE  RescanInv'
  BY <1>3 DEF Conflict, Goto, RescanInv, TypeOK, OneWalk, RateInv, DueInv, bucket, caller
<1>4. ASSUME NEW c \in Callers, End(c)
      PROVE  RescanInv'
  BY <1>4 DEF End, Goto, RescanInv, TypeOK, OneWalk, RateInv, DueInv, bucket, caller
<1>5. ASSUME NEW c \in Callers, Refuse(c)
      PROVE  RescanInv'
  <2> DEFINE b == Refilled(now[c])
  <2>1. now[c] \in 0 .. clock
    BY DEF RescanInv, TypeOK
  <2>2. /\ b.tokens \in 0 .. Full
        /\ b.stamp \in 0 .. clock
        /\ b.stamp >= stamp /\ b.stamp >= now[c]
        /\ b.tokens <= tokens + (b.stamp - stamp)
        /\ b.tokens < Full => b.tokens = tokens + (b.stamp - stamp)
    BY <2>1, RefilledBucket DEF RescanInv
  <2>3. /\ pc[c] = "claim" /\ rescanID = None /\ b.tokens < Refill
        /\ tokens' = b.tokens /\ stamp' = b.stamp
        /\ due' = IF due = None THEN clock + Refill - b.tokens
                  ELSE Least(due, clock + Refill - b.tokens)
        /\ pc' = [pc EXCEPT ![c] = "idle"]
        /\ UNCHANGED <<clock, rescanID, now, limited, spent>>
    BY <1>5 DEF Refuse, Goto, caller
  <2> HIDE DEF b
  <2>4. TypeOK'
    BY <2>2, <2>3 DEF RescanInv, TypeOK, Least
  <2>5. OneWalk'
    BY <2>3 DEF RescanInv, TypeOK, OneWalk
  <2>6. RateInv'
    BY <2>2, <2>3 DEF RescanInv, TypeOK, RateInv
  <2>7. DueInv'
    BY <2>2, <2>3 DEF RescanInv, TypeOK, DueInv, Least
  <2> QED
    BY <2>4, <2>5, <2>6, <2>7 DEF RescanInv
<1>6. ASSUME NEW c \in Callers, Claim(c)
      PROVE  RescanInv'
  <2> DEFINE b == Refilled(now[c])
  <2>1. now[c] \in 0 .. clock
    BY DEF RescanInv, TypeOK
  <2>2. /\ b.tokens \in 0 .. Full
        /\ b.stamp \in 0 .. clock
        /\ b.stamp >= stamp /\ b.stamp >= now[c]
        /\ b.tokens <= tokens + (b.stamp - stamp)
    BY <2>1, RefilledBucket DEF RescanInv
  <2>3. /\ pc[c] = "claim" /\ rescanID = None
        /\ rescanID' = c
        /\ pc' = [pc EXCEPT ![c] = "walk"]
        /\ UNCHANGED <<clock, now, limited>>
    BY <1>6 DEF Claim, Goto, caller
  <2>4. OneWalk'
    BY <2>3 DEF RescanInv, TypeOK, OneWalk
  <2>5. CASE limited[c]
    <3>1. /\ b.tokens >= Refill
          /\ tokens' = b.tokens - Refill
          /\ stamp' = b.stamp
          /\ spent' = IF now[c] >= Window THEN spent + Refill ELSE spent
          /\ due' = None
      BY <1>6, <2>5 DEF Claim
    <3> HIDE DEF b
    <3>2. TypeOK'
      BY <2>2, <2>3, <3>1 DEF RescanInv, TypeOK
    <3>3. RateInv'
      BY <2>1, <2>2, <3>1 DEF RescanInv, TypeOK, RateInv
    <3>4. DueInv'
      BY <3>1 DEF DueInv
    <3> QED
      BY <2>4, <3>2, <3>3, <3>4 DEF RescanInv
  <2>6. CASE ~limited[c]
    <3>1. UNCHANGED <<tokens, stamp, spent, due>>
      BY <1>6, <2>6 DEF Claim, bucket
    <3> QED
      BY <2>3, <2>4, <3>1 DEF RescanInv, TypeOK, RateInv, DueInv
  <2> QED
    BY <2>5, <2>6
<1>7. CASE UNCHANGED vars
  BY <1>7 DEF vars, bucket, caller, RescanInv, TypeOK, OneWalk, RateInv, DueInv
<1> QED
  BY <1>1, <1>2, <1>3, <1>4, <1>5, <1>6, <1>7 DEF Next, Step

\* The invariant holds throughout.
LEMMA RescanInvariant == Spec => []RescanInv
<1> QED
  BY RescanInit, RescanStep, PTL DEF Spec

\* beginRescan lets through, of the requests that arrive from any moment on, no
\* more than a burst and one per refill time, whatever order the mutex lets
\* their claims in.
THEOREM RescanRateBound == Spec => []RateBound
<1>1. RescanInv => RateBound
  BY RescanAssumption, FullIsNat DEF RescanInv, TypeOK, RateInv, RateBound
<1> QED
  BY <1>1, RescanInvariant, PTL

\* rescanID names the only walk in progress, and is cleared when it ends.
THEOREM RescanOneWalk == Spec => []OneWalk
<1>1. RescanInv => OneWalk
  BY DEF RescanInv
<1> QED
  BY <1>1, RescanInvariant, PTL

\* The wait that takeRescanTokenLocked computes is long enough.
THEOREM RescanHonestRetry == Spec => HonestRetry
<1>1. RescanInv /\ [Next]_vars =>
          [\A c \in Callers : Refuse(c) => due = None \/ now[c] < due]_vars
  <2> SUFFICES ASSUME RescanInv, NEW c \in Callers, Refuse(c), due # None
               PROVE  now[c] < due
    OBVIOUS
  <2> DEFINE b == Refilled(now[c])
  <2>1. now[c] \in 0 .. clock
    BY DEF RescanInv, TypeOK
  <2>2. /\ b.tokens \in 0 .. Full
        /\ b.stamp \in 0 .. clock
        /\ b.stamp >= stamp /\ b.stamp >= now[c]
        /\ b.tokens < Full => b.tokens = tokens + (b.stamp - stamp)
    BY <2>1, RefilledBucket DEF RescanInv
  <2>3. b.tokens < Refill
    BY DEF Refuse
  <2> HIDE DEF b
  <2> QED
    BY <2>1, <2>2, <2>3, RescanAssumption, FullIsNat, RefillWithinFull
       DEF RescanInv, TypeOK, DueInv
<1> QED
  BY <1>1, RescanInvariant, PTL DEF Spec, HonestRetry
=============================================================================
