---------------------------- MODULE TimedProofs ----------------------------
(***************************************************************************)
(* What is proved about the two components that read the clock, the        *)
(* RateLimiter and the TaskResultCache: for any categories, limits, keys,  *)
(* results and times to live, and however far the clock goes.              *)
(***************************************************************************)
EXTENDS RateLimiter, TaskResultCache, TLAPS

-----------------------------------------------------------------------------
(* Arithmetic                                                              *)

\* The quotient the refill is computed from, and what the division drops.
LEMMA Quotient ==
  ASSUME NEW x \in Nat, NEW d \in Nat \ {0}
  PROVE  /\ x \div d \in Nat
         /\ (x \div d) * d <= x
         /\ x < (x \div d) * d + d
  OBVIOUS

LEMMA TimesMonotone ==
  ASSUME NEW m \in Nat, NEW n \in Nat, m <= n, NEW a \in Nat
  PROVE  m * a \in Nat /\ n * a \in Nat /\ m * a <= n * a
  OBVIOUS

\* Products are compared by their first factors.
LEMMA TimesCancel ==
  ASSUME NEW m \in Nat, NEW n \in Nat, NEW d \in Nat \ {0}, m * d < n * d
  PROVE  m < n
  BY TimesMonotone

LEMMA TimesSum ==
  ASSUME NEW m \in Nat, NEW n \in Nat, NEW a \in Nat
  PROVE  (m + n) * a = m * a + n * a
  OBVIOUS

-----------------------------------------------------------------------------
(* RateLimiter                                                             *)

AllLimits == Limits \cup {DefaultLimit}

\* The bucket of category c is full to the limit at most, and what it has granted
\* since the window was opened, with what it still holds, is paid for by one full
\* bucket and n refills; the intervals of these fit between the last refill and
\* one interval before the window.
Paid(c) ==
  LET limit == buckets[c].limit
  IN  /\ buckets[c].tokens <= limit.max_tokens
      /\ \/ window[c].granted = 0
         \/ \E n \in Nat :
              /\ buckets[c].tokens + window[c].granted
                   <= limit.max_tokens + n * limit.token_refill_amount
              /\ n * limit.refill_interval + window[c].opened
                   < buckets[c].last_refill + limit.refill_interval

\* The inductive invariant of the limiter
LimiterInv ==
  /\ now \in Nat
  /\ LimiterTypeOK
  /\ \A c \in DOMAIN buckets : Paid(c)
  /\ AtLeastHalfRate

LEMMA LimitType ==
  ASSUME NEW limit \in AllLimits
  PROVE  /\ limit.max_tokens \in Nat
         /\ limit.refill_interval \in Nat \ {0}
         /\ limit.token_refill_amount \in Nat
  BY LimitsAssumption DEF AllLimits

\* Two fields of a record are replaced at once.
LEMMA RefillRecord ==
  ASSUME NEW n \in Nat, NEW b \in [limit : AllLimits, tokens : Nat, last_refill : 0 .. n],
         NEW t \in Nat
  PROVE  [b EXCEPT !.tokens = t, !.last_refill = n]
           = [limit |-> b.limit, tokens |-> t, last_refill |-> n]
<1> DEFINE e == [b EXCEPT !.tokens = t]
<1>1. /\ e = [limit |-> b.limit, tokens |-> t, last_refill |-> b.last_refill]
      /\ e \in [limit : AllLimits, tokens : Nat, last_refill : 0 .. n]
      /\ [b EXCEPT !.tokens = t, !.last_refill = n] = [e EXCEPT !.last_refill = n]
  OBVIOUS
<1> HIDE DEF e
<1> QED
  BY <1>1

\* The initial state satisfies it.
LEMMA LimiterInit_Inv == ClockInit /\ LimiterInit => LimiterInv
  BY HorizonAssumption DEF ClockInit, LimiterInit, LimiterInv, LimiterTypeOK, AtLeastHalfRate

\* Only the entries of category c change, and they come to exist.
LEMMA OneCategory ==
  ASSUME LimiterInv, NEW c \in Categories, UNCHANGED now,
         NEW b, NEW w,
         buckets' = With(buckets, c, b), window' = With(window, c, w),
         b \in [limit : AllLimits, tokens : Nat, last_refill : 0 .. now],
         w \in [opened : 0 .. now, granted : Nat, periods : Nat, created : 0 .. now],
         b.tokens <= b.limit.max_tokens,
         \/ w.granted = 0
         \/ \E n \in Nat :
              /\ b.tokens + w.granted <= b.limit.max_tokens + n * b.limit.token_refill_amount
              /\ n * b.limit.refill_interval + w.opened < b.last_refill + b.limit.refill_interval,
         b.last_refill - w.created <= 2 * b.limit.refill_interval * w.periods
  PROVE  LimiterInv'
<1>1. /\ DOMAIN buckets' = DOMAIN buckets \cup {c}
      /\ DOMAIN window' = DOMAIN buckets'
      /\ buckets'[c] = b /\ window'[c] = w
      /\ \A d \in DOMAIN buckets \ {c} : buckets'[d] = buckets[d] /\ window'[d] = window[d]
  BY DEF LimiterInv, LimiterTypeOK, With
<1>2. LimiterTypeOK'
  <2>1. \A d \in DOMAIN buckets' :
          buckets'[d] \in [limit : AllLimits, tokens : Nat, last_refill : 0 .. now]
    BY <1>1 DEF LimiterInv, LimiterTypeOK, AllLimits
  <2>2. \A d \in DOMAIN window' :
          window'[d] \in [opened : 0 .. now, granted : Nat, periods : Nat, created : 0 .. now]
    BY <1>1 DEF LimiterInv, LimiterTypeOK
  <2> QED
    BY <1>1, <2>1, <2>2 DEF LimiterInv, LimiterTypeOK, AllLimits
<1>3. ASSUME NEW d \in DOMAIN buckets'
      PROVE  Paid(d)'
  <2>1. CASE d = c
    BY <1>1, <2>1 DEF Paid
  <2>2. CASE d # c
    BY <1>1, <2>2 DEF LimiterInv, Paid
  <2> QED
    BY <2>1, <2>2
<1>4. AtLeastHalfRate'
  BY <1>1 DEF LimiterInv, LimiterTypeOK, AtLeastHalfRate
<1> QED
  BY <1>2, <1>3, <1>4 DEF LimiterInv

LEMMA SetLimitKeepsInv ==
  ASSUME LimiterInv, NEW c \in Categories, NEW limit \in Limits, set_limit(c, limit)
  PROVE  LimiterInv'
<1>1. limit \in AllLimits
  BY DEF AllLimits
<1>2. NewBucket(limit) \in [limit : AllLimits, tokens : Nat, last_refill : 0 .. now]
  BY <1>1, LimitType DEF NewBucket, LimiterInv
<1>3. NoGrants \in [opened : 0 .. now, granted : Nat, periods : Nat, created : 0 .. now]
  BY DEF NoGrants, LimiterInv
<1>4. NewBucket(limit).tokens <= NewBucket(limit).limit.max_tokens
  BY <1>1, LimitType DEF NewBucket
<1>5. NewBucket(limit).last_refill - NoGrants.created
        <= 2 * NewBucket(limit).limit.refill_interval * NoGrants.periods
  BY <1>1, LimitType DEF NewBucket, NoGrants, LimiterInv
<1> QED
  BY <1>2, <1>3, <1>4, <1>5, OneCategory DEF set_limit, NoGrants

LEMMA ObserveKeepsInv ==
  ASSUME LimiterInv, NEW c, Observe(c)
  PROVE  LimiterInv'
<1>1. /\ now \in Nat /\ 0 \in Nat /\ now \in 0 .. now /\ c \in DOMAIN window
      /\ window[c] \in [opened : 0 .. now, granted : Nat, periods : Nat, created : 0 .. now]
  BY DEF Observe, LimiterInv, LimiterTypeOK
<1>2. [window[c] EXCEPT !.opened = now, !.granted = 0]
        = [opened |-> now, granted |-> 0, periods |-> window[c].periods, created |-> window[c].created]
  <2> DEFINE w == window[c]
             e == [w EXCEPT !.opened = now]
  <2>1. /\ e = [opened |-> now, granted |-> w.granted, periods |-> w.periods, created |-> w.created]
        /\ e \in [opened : 0 .. now, granted : Nat, periods : Nat, created : 0 .. now]
        /\ [w EXCEPT !.opened = now, !.granted = 0] = [e EXCEPT !.granted = 0]
    BY <1>1
  <2> HIDE DEF e
  <2> QED
    BY <2>1
<1>3. /\ window' = [window EXCEPT ![c] = [opened |-> now, granted |-> 0,
                                          periods |-> window[c].periods,
                                          created |-> window[c].created]]
      /\ buckets' = buckets /\ now' = now
  BY <1>2 DEF Observe
<1>4. LimiterTypeOK'
  BY <1>1, <1>3 DEF LimiterInv, LimiterTypeOK
<1>5. ASSUME NEW d \in DOMAIN buckets'
      PROVE  Paid(d)'
  BY <1>1, <1>3 DEF LimiterInv, LimiterTypeOK, Paid
<1>6. AtLeastHalfRate'
  BY <1>1, <1>3 DEF LimiterInv, LimiterTypeOK, AtLeastHalfRate
<1> QED
  BY <1>3, <1>4, <1>5, <1>6 DEF LimiterInv

LEMMA TickKeepsInv ==
  ASSUME LimiterInv, Tick, UNCHANGED limiterVars
  PROVE  LimiterInv'
<1>1. now' = now + 1 /\ buckets' = buckets /\ window' = window
  BY DEF Tick, limiterVars
<1>2. LimiterTypeOK'
  <2>1. 0 .. now \subseteq 0 .. now'
    BY <1>1 DEF LimiterInv
  <2> QED
    BY <1>1, <2>1 DEF LimiterInv, LimiterTypeOK
<1>3. (\A c \in DOMAIN buckets : Paid(c))' /\ AtLeastHalfRate'
  BY <1>1 DEF LimiterInv, Paid, AtLeastHalfRate
<1> QED
  BY <1>1, <1>2, <1>3 DEF LimiterInv

\* What get_bucket returns, a new bucket or the one there is, and the window that
\* goes with it.
LEMMA GetBucket ==
  ASSUME LimiterInv, NEW c \in Categories, NEW b, NEW w,
         b = get_bucket(c), w = IF c \in DOMAIN window THEN window[c] ELSE NoGrants
  PROVE  /\ b \in [limit : AllLimits, tokens : Nat, last_refill : 0 .. now]
         /\ w \in [opened : 0 .. now, granted : Nat, periods : Nat, created : 0 .. now]
         /\ b.tokens <= b.limit.max_tokens
         /\ \/ w.granted = 0
            \/ \E n \in Nat :
                 /\ b.tokens + w.granted <= b.limit.max_tokens + n * b.limit.token_refill_amount
                 /\ n * b.limit.refill_interval + w.opened < b.last_refill + b.limit.refill_interval
         /\ b.last_refill - w.created <= 2 * b.limit.refill_interval * w.periods
<1>1. CASE c \in DOMAIN buckets
  BY <1>1 DEF LimiterInv, LimiterTypeOK, Paid, AtLeastHalfRate, get_bucket, AllLimits
<1>2. CASE c \notin DOMAIN buckets
  <2>1. DefaultLimit \in AllLimits
    BY DEF AllLimits
  <2> QED
    BY <1>2, <2>1, LimitType DEF LimiterInv, LimiterTypeOK, get_bucket, NewBucket, NoGrants
<1> QED
  BY <1>1, <1>2

\* A refill credits p intervals, as many as have passed as a whole.  It leaves the
\* bucket paid for by p refills more, and p is more than half of the time it has
\* taken.
LEMMA RefilledFacts ==
  ASSUME now \in Nat,
         NEW b \in [limit : AllLimits, tokens : Nat, last_refill : 0 .. now],
         b.tokens <= b.limit.max_tokens
  PROVE  /\ Periods(b) \in Nat
         /\ Refilled(b) \in [limit : AllLimits, tokens : Nat, last_refill : 0 .. now]
         /\ Refilled(b).limit = b.limit
         /\ Refilled(b).tokens <= b.limit.max_tokens
         /\ Refilled(b).tokens <= b.tokens + Periods(b) * b.limit.token_refill_amount
         /\ b.last_refill + Periods(b) * b.limit.refill_interval <= Refilled(b).last_refill
         /\ Refilled(b).last_refill - b.last_refill <= 2 * b.limit.refill_interval * Periods(b)
         /\ now < Refilled(b).last_refill + b.limit.refill_interval
<1> DEFINE d == b.limit.refill_interval
           a == b.limit.token_refill_amount
           p == Periods(b)
           r == Refilled(b)
<1>1. /\ b.limit \in AllLimits /\ b.limit.max_tokens \in Nat
      /\ d \in Nat \ {0} /\ a \in Nat /\ b.tokens \in Nat
      /\ b.last_refill \in Nat /\ b.last_refill <= now
  BY LimitType
<1>2. /\ p \in Nat
      /\ p * d <= now - b.last_refill
      /\ now - b.last_refill < p * d + d
  <2>1. now - b.last_refill \in Nat
    BY <1>1
  <2> QED
    BY <1>1, <2>1, Quotient DEF Periods
<1>3. p * a \in Nat /\ p * d \in Nat
  BY <1>1, <1>2
<1>4. CASE p = 0
  <2>1. r = b
    BY <1>4 DEF Refilled
  <2>2. p * d = 0 /\ p * a = 0 /\ 2 * d * p = 0
    BY <1>1, <1>4
  <2>3. r \in [limit : AllLimits, tokens : Nat, last_refill : 0 .. now] /\ r.limit = b.limit
    BY <2>1
  <2>4. r.tokens <= b.limit.max_tokens /\ r.tokens <= b.tokens + p * a
    BY <1>1, <2>1, <2>2
  <2>5. b.last_refill + p * d <= r.last_refill /\ r.last_refill - b.last_refill <= 2 * d * p
    BY <1>1, <2>1, <2>2
  <2>6. now < r.last_refill + d
    BY <1>1, <1>2, <2>1, <2>2
  <2> QED
    BY <1>2, <2>3, <2>4, <2>5, <2>6
<1>5. CASE p # 0
  <2>1. r = [b EXCEPT !.tokens = IF b.tokens + p * a < b.limit.max_tokens
                                   THEN b.tokens + p * a ELSE b.limit.max_tokens,
                      !.last_refill = now]
    BY <1>5 DEF Refilled
  <2> DEFINE t == IF b.tokens + p * a < b.limit.max_tokens
                    THEN b.tokens + p * a ELSE b.limit.max_tokens
  <2>2. t \in Nat /\ t <= b.limit.max_tokens /\ t <= b.tokens + p * a
    BY <1>1, <1>3
  <2> HIDE DEF t
  <2>4. r = [limit |-> b.limit, tokens |-> t, last_refill |-> now]
    BY <2>1, <2>2, RefillRecord DEF t
  <2>3. d <= p * d /\ 2 * d * p = p * d + p * d
    <3>1. 1 * d <= p * d
      BY <1>1, <1>2, <1>5, TimesMonotone
    <3> QED
      BY <1>1, <1>2, <3>1
  <2> QED
    <3>1. /\ r \in [limit : AllLimits, tokens : Nat, last_refill : 0 .. now]
          /\ r.limit = b.limit /\ r.tokens = t /\ r.last_refill = now
      BY <1>1, <2>2, <2>4
    <3> QED
      BY <1>1, <1>2, <1>3, <2>2, <2>3, <3>1
<1> QED
  BY <1>4, <1>5

\* One attempt: the refill, and the grant if there is a token.
LEMMA AcquireKeepsInv ==
  ASSUME LimiterInv, NEW c \in Categories, try_acquire(c)
  PROVE  LimiterInv'
<1> DEFINE b == get_bucket(c)
           r == Refilled(b)
           p == Periods(b)
           w == IF c \in DOMAIN window THEN window[c] ELSE NoGrants
           granted == r.tokens > 0
           after == IF granted THEN [r EXCEPT !.tokens = @ - 1] ELSE r
           grants == IF granted THEN w.granted + 1 ELSE w.granted
           counted == [w EXCEPT !.granted = IF granted THEN @ + 1 ELSE @, !.periods = @ + p]
           max == b.limit.max_tokens
           d == b.limit.refill_interval
           a == b.limit.token_refill_amount
           Buckets == [limit : AllLimits, tokens : Nat, last_refill : 0 .. now]
           Windows == [opened : 0 .. now, granted : Nat, periods : Nat, created : 0 .. now]
<1>1. /\ b \in Buckets /\ w \in Windows /\ b.tokens <= max
      /\ \/ w.granted = 0
         \/ \E n \in Nat : /\ b.tokens + w.granted <= max + n * a
                           /\ n * d + w.opened < b.last_refill + d
      /\ b.last_refill - w.created <= 2 * d * w.periods
  BY GetBucket
<1>2. /\ now \in Nat /\ p \in Nat /\ r \in Buckets /\ r.limit = b.limit
      /\ r.tokens <= max /\ r.tokens <= b.tokens + p * a
      /\ b.last_refill + p * d <= r.last_refill
      /\ r.last_refill - b.last_refill <= 2 * d * p
      /\ now < r.last_refill + d
  BY <1>1, RefilledFacts DEF LimiterInv
<1>3. max \in Nat /\ d \in Nat \ {0} /\ a \in Nat
  BY <1>1, LimitType
<1>4. /\ buckets' = With(buckets, c, after) /\ window' = With(window, c, counted)
      /\ UNCHANGED now
  BY DEF try_acquire
<1> HIDE DEF b, r, p, w
<1>5. /\ after \in Buckets /\ after.limit = b.limit /\ after.last_refill = r.last_refill
      /\ after.tokens + grants = r.tokens + w.granted
      /\ after.tokens <= r.tokens
  BY <1>1, <1>2
<1>6. /\ counted = [opened |-> w.opened, granted |-> grants,
                    periods |-> w.periods + p, created |-> w.created]
      /\ counted \in Windows
  <2> DEFINE e == [w EXCEPT !.granted = grants]
  <2>1. grants \in Nat /\ w.periods + p \in Nat
    BY <1>1, <1>2
  <2>2. /\ e = [opened |-> w.opened, granted |-> grants, periods |-> w.periods, created |-> w.created]
        /\ e \in Windows
    BY <1>1, <2>1
  <2>3. counted = [e EXCEPT !.periods = @ + p]
    OBVIOUS
  <2> HIDE DEF e, grants, counted
  <2> QED
    BY <1>1, <2>1, <2>2, <2>3
<1> HIDE DEF after, counted
<1>7. after.last_refill - counted.created <= 2 * d * counted.periods
  <2>1. 2 * d * (w.periods + p) = 2 * d * w.periods + 2 * d * p
    BY <1>1, <1>2, <1>3
  <2>2. 2 * d * w.periods \in Nat /\ 2 * d * p \in Nat
    BY <1>1, <1>2, <1>3
  <2>3. /\ b.last_refill \in Nat /\ r.last_refill \in Nat /\ w.created \in Nat
        /\ after.last_refill = r.last_refill
        /\ counted.created = w.created /\ counted.periods = w.periods + p
    BY <1>1, <1>2, <1>5, <1>6
  <2> QED
    BY <1>1, <1>2, <2>1, <2>2, <2>3
<1>8. ASSUME \/ counted.granted = 0
             \/ \E n \in Nat : /\ after.tokens + counted.granted <= max + n * a
                               /\ n * d + counted.opened < after.last_refill + d
      PROVE  LimiterInv'
  <2>1. after.tokens <= after.limit.max_tokens
    BY <1>1, <1>2, <1>3, <1>5
  <2>2. \/ counted.granted = 0
        \/ \E n \in Nat :
             /\ after.tokens + counted.granted
                  <= after.limit.max_tokens + n * after.limit.token_refill_amount
             /\ n * after.limit.refill_interval + counted.opened
                  < after.last_refill + after.limit.refill_interval
    BY <1>5, <1>8
  <2>3. after.last_refill - counted.created <= 2 * after.limit.refill_interval * counted.periods
    BY <1>5, <1>7
  <2> QED
    BY <1>4, <1>5, <1>6, <2>1, <2>2, <2>3, OneCategory
\* Nothing had been granted: what is in the bucket is what the window starts with.
<1>9. CASE w.granted = 0
  <2>1. 0 * a = 0 /\ 0 * d = 0
    BY <1>3
  <2>2. /\ after.tokens + counted.granted <= max + 0 * a
        /\ 0 * d + counted.opened < after.last_refill + d
    BY <1>1, <1>2, <1>3, <1>5, <1>6, <1>9, <2>1
  <2> QED
    BY <1>8, <2>2
\* Otherwise the p intervals are added to those that have been credited already.
<1>10. CASE w.granted # 0
  <2>1. PICK n \in Nat : /\ b.tokens + w.granted <= max + n * a
                         /\ n * d + w.opened < b.last_refill + d
    BY <1>1, <1>10
  <2>2. /\ (n + p) * a = n * a + p * a
        /\ (n + p) * d = n * d + p * d
        /\ n * a \in Nat /\ p * a \in Nat /\ n * d \in Nat /\ p * d \in Nat
    BY <1>2, <1>3, TimesSum, TimesMonotone
  <2>3. b.tokens \in Nat /\ w.granted \in Nat /\ r.tokens \in Nat /\ w.opened \in Nat
    BY <1>1, <1>2
  <2>4. /\ after.tokens + counted.granted <= max + (n + p) * a
        /\ (n + p) * d + counted.opened < after.last_refill + d
    BY <1>1, <1>2, <1>3, <1>5, <1>6, <2>1, <2>2, <2>3
  <2>5. n + p \in Nat
    BY <1>2
  <2> QED
    BY <1>8, <2>4, <2>5
<1> QED
  BY <1>9, <1>10

LEMMA StepKeepsLimiterInv == LimiterInv /\ [LimiterNext]_<<limiterVars, now>> => LimiterInv'
<1> SUFFICES ASSUME LimiterInv, [LimiterNext]_<<limiterVars, now>>
             PROVE  LimiterInv'
  OBVIOUS
<1>1. CASE \E c \in Categories : try_acquire(c)
  BY <1>1, AcquireKeepsInv
<1>2. CASE \E c \in Categories : Observe(c)
  BY <1>2, ObserveKeepsInv
<1>3. CASE \E c \in Categories, limit \in Limits : set_limit(c, limit)
  BY <1>3, SetLimitKeepsInv
<1>4. CASE Tick /\ UNCHANGED limiterVars
  BY <1>4, TickKeepsInv
<1>5. CASE UNCHANGED <<limiterVars, now>>
  BY <1>5 DEF LimiterInv, LimiterTypeOK, Paid, AtLeastHalfRate, limiterVars
<1> QED
  BY <1>1, <1>2, <1>3, <1>4, <1>5 DEF LimiterNext

\* What has been paid for is within the rate.
LEMMA PaidImpliesRateKept == LimiterInv => RateKept
<1> SUFFICES ASSUME LimiterInv, NEW c \in DOMAIN window
             PROVE  LET limit == buckets[c].limit
                        intervals == (now - window[c].opened) \div limit.refill_interval
                    IN  window[c].granted
                          <= limit.max_tokens + (intervals + 1) * limit.token_refill_amount
  BY DEF RateKept
<1> DEFINE max == buckets[c].limit.max_tokens
           d == buckets[c].limit.refill_interval
           a == buckets[c].limit.token_refill_amount
           q == (now - window[c].opened) \div d
<1>1. /\ now \in Nat /\ window[c].opened \in Nat /\ window[c].opened <= now
      /\ window[c].granted \in Nat
      /\ buckets[c].limit \in AllLimits /\ buckets[c].tokens \in Nat
      /\ buckets[c].last_refill \in Nat /\ buckets[c].last_refill <= now
      /\ Paid(c)
  BY DEF LimiterInv, LimiterTypeOK, AllLimits
<1>2. max \in Nat /\ d \in Nat \ {0} /\ a \in Nat
  BY <1>1, LimitType
<1>3. q \in Nat /\ now - window[c].opened < q * d + d
  <2>1. now - window[c].opened \in Nat
    BY <1>1
  <2> QED
    BY <1>2, <2>1, Quotient
<1>4. CASE window[c].granted = 0
  <2>1. (q + 1) * a \in Nat
    BY <1>2, <1>3
  <2> QED
    BY <1>2, <1>4, <2>1
<1>5. CASE window[c].granted # 0
  <2>1. PICK n \in Nat : /\ buckets[c].tokens + window[c].granted <= max + n * a
                         /\ n * d + window[c].opened < buckets[c].last_refill + d
    BY <1>1, <1>5 DEF Paid
  <2>2. n * d < (q + 2) * d
    <3>1. (q + 2) * d = q * d + 2 * d /\ n * d \in Nat /\ q * d \in Nat
      BY <1>2, <1>3
    <3> HIDE DEF q, d
    <3> QED
      BY <1>1, <1>2, <1>3, <2>1, <3>1
  <2>3. n <= q + 1
    <3>1. n < q + 2
      BY <1>2, <1>3, <2>2, TimesCancel
    <3> QED
      BY <1>3, <3>1
  <2>4. n * a <= (q + 1) * a /\ n * a \in Nat /\ (q + 1) * a \in Nat
    BY <1>2, <1>3, <2>3, TimesMonotone
  <2> QED
    BY <1>1, <1>2, <2>1, <2>4
<1> QED
  BY <1>4, <1>5

\* Every reachable state satisfies the limiter's invariant.
THEOREM LimiterCorrect == LimiterSpec => []LimiterInv
  BY LimiterInit_Inv, StepKeepsLimiterInv, PTL DEF LimiterSpec

\* No window of time, wherever it begins, sees more grants than a full bucket and the
\* refills of its whole intervals and one more, for any limits, changed at any time.
THEOREM KeepsRate == LimiterSpec => []RateKept
  BY LimiterCorrect, PaidImpliesRateKept, PTL

\* A bucket is credited with more than half of the intervals it has existed for,
\* up to its last refill, however often and whenever it is called.
THEOREM KeepsHalfRate == LimiterSpec => []AtLeastHalfRate
<1>1. LimiterInv => AtLeastHalfRate
  BY DEF LimiterInv
<1> QED
  BY <1>1, LimiterCorrect, PTL

-----------------------------------------------------------------------------
(* TaskResultCache                                                         *)

CacheInv == now \in Nat /\ CacheTypeOK

\* The invariant holds in the initial state and every step keeps it.
LEMMA CacheInitInv == ClockInit /\ CacheInit => CacheInv
  BY DEF ClockInit, CacheInit, CacheInv, CacheTypeOK

LEMMA StepKeepsCacheInv == CacheInv /\ [CacheNext]_<<cacheVars, now>> => CacheInv'
<1> SUFFICES ASSUME CacheInv, [CacheNext]_<<cacheVars, now>>
             PROVE  CacheInv'
  OBVIOUS
<1>1. ASSUME NEW k \in Keys, NEW result \in Results, NEW ttl \in Ttls, put(k, result, ttl)
      PROVE  CacheInv'
  <2>1. now \in Nat /\ ttl \in Nat
    BY TtlsAssumption DEF CacheInv
  <2>2. now + ttl \in Nat
    BY ONLY <2>1
  <2> QED
    BY <1>1, <2>2 DEF CacheInv, CacheTypeOK, put
<1>2. ASSUME NEW k \in Keys, get(k) \/ remove(k)
      PROVE  CacheInv'
  BY <1>2 DEF CacheInv, CacheTypeOK, get, remove, Without
<1>3. CASE cleanup_expired \/ CacheClear \/ size
  BY <1>3 DEF CacheInv, CacheTypeOK, cleanup_expired, CacheClear, size, Without
<1>4. CASE Tick /\ UNCHANGED cacheVars
  <2>1. now' \in Nat
    BY <1>4 DEF CacheInv, Tick
  <2> QED
    BY <1>4, <2>1 DEF CacheInv, CacheTypeOK, cacheVars
<1>5. CASE UNCHANGED <<cacheVars, now>>
  BY <1>5 DEF CacheInv, CacheTypeOK, cacheVars
<1> QED
  BY <1>1, <1>2, <1>3, <1>4, <1>5 DEF CacheNext

\* What the map has at a key, and the state of the map.
Entry(k) ==
  IF Live(k) THEN [result |-> cache[k].result, left |-> cache[k].expiry_time - now] ELSE None

Entries == [k \in Keys |-> Entry(k)]

\* An entry that can be read is not None, and its result and time are those of the
\* cache.
LEMMA LiveEntry ==
  ASSUME CacheInv, NEW k \in Keys
  PROVE  /\ Live(k) => /\ Entry(k) # None
                       /\ Entry(k) = [result |-> cache[k].result,
                                      left |-> cache[k].expiry_time - now]
                       /\ Entry(k).result = cache[k].result
                       /\ Entry(k).left = cache[k].expiry_time - now
                       /\ Entry(k).left \in Nat
         /\ ~Live(k) => Entry(k) = None
<1>1. CASE Live(k)
  <2>1. cache[k].expiry_time - now \in Nat /\ cache[k].result \in Results
    BY <1>1 DEF Live, CacheInv, CacheTypeOK
  <2>2. Entry(k) \in [result : Results, left : Nat]
    BY <1>1, <2>1 DEF Entry
  <2> QED
    BY <1>1, <2>1, <2>2, ResultsAssumption DEF Entry
<1> QED
  BY <1>1 DEF Entry

\* Time passes: an entry gets older, and one in its last instant disappears.
LEMMA TickAges ==
  ASSUME CacheInv, Tick, UNCHANGED cacheVars
  PROVE  Map!Age
<1>1. now' = now + 1 /\ cache' = cache /\ returned' = returned
  BY DEF Tick, cacheVars
<1>2. ASSUME NEW k \in Keys
      PROVE  Entry(k)' = IF Entry(k) = None \/ Entry(k).left = 0 THEN None
                         ELSE [Entry(k) EXCEPT !.left = @ - 1]
  <2>1. CASE Live(k) /\ cache[k].expiry_time # now
    <3>1. /\ now \in Nat /\ cache[k].expiry_time \in Nat
          /\ k \in DOMAIN cache /\ now <= cache[k].expiry_time
      BY <2>1 DEF Live, CacheInv, CacheTypeOK
    <3>2. Live(k)'
      BY <1>1, <2>1, <3>1 DEF Live
    <3>3. Entry(k)' = [result |-> cache[k].result, left |-> cache[k].expiry_time - now - 1]
      BY <1>1, <3>1, <3>2 DEF Entry
    <3>4. Entry(k).left # 0 /\ Entry(k) # None
      BY <2>1, <3>1, LiveEntry
    <3>5. [Entry(k) EXCEPT !.left = @ - 1]
            = [result |-> cache[k].result, left |-> cache[k].expiry_time - now - 1]
      BY <2>1, LiveEntry
    <3> QED
      BY <3>3, <3>4, <3>5
  <2>2. CASE Live(k) /\ cache[k].expiry_time = now
    <3>1. ~Live(k)' /\ Entry(k).left = 0
      BY <1>1, <2>2, LiveEntry DEF Live, CacheInv
    <3> QED
      BY <3>1 DEF Entry
  <2>3. CASE ~Live(k)
    <3>1. ~Live(k)'
      BY <1>1, <2>3 DEF Live, CacheInv, CacheTypeOK
    <3> QED
      BY <2>3, <3>1, LiveEntry DEF Entry
  <2> QED
    BY <2>1, <2>2, <2>3
<1>3. Entries' = [k \in Keys |-> IF Entries[k] = None \/ Entries[k].left = 0 THEN None
                                 ELSE [Entries[k] EXCEPT !.left = @ - 1]]
  BY <1>2 DEF Entries
<1> QED
  BY <1>1, <1>3 DEF Map!Age, Entries, Entry

\* Every step of the cache is a step of the map, or none that it sees.
LEMMA StepRefinesMap ==
  ASSUME CacheInv, [CacheNext]_<<cacheVars, now>>
  PROVE  [Map!Next]_Map!mapVars
<1>1. ASSUME NEW k \in Keys, NEW result \in Results, NEW ttl \in Ttls, put(k, result, ttl)
      PROVE  Map!Put(k, result, ttl)
  <2>1. ttl \in Nat /\ now \in Nat /\ now + ttl - now = ttl
    BY TtlsAssumption DEF CacheInv
  <2>2. /\ cache' = [d \in DOMAIN cache \cup {k} |->
                       IF d = k THEN [result |-> result, expiry_time |-> now + ttl] ELSE cache[d]]
        /\ returned' = returned /\ now' = now
    BY <1>1 DEF put
  <2>3. Entry(k)' = [result |-> result, left |-> ttl]
    BY <2>1, <2>2 DEF Entry, Live
  <2>4. ASSUME NEW d \in Keys, d # k
        PROVE  Entry(d)' = Entry(d)
    BY <2>2, <2>4 DEF Entry, Live
  <2>5. Entries' = [Entries EXCEPT ![k] = [result |-> result, left |-> ttl]]
    BY <2>3, <2>4 DEF Entries
  <2> QED
    BY <2>2, <2>5 DEF Map!Put, Entries, Entry, Without
<1>2. ASSUME NEW k \in Keys, get(k)
      PROVE  Map!Lookup(k)
  <2>1. now' = now
    BY <1>2 DEF get
  <2>2. CASE Live(k)
    <3>1. returned' = cache[k].result /\ cache' = cache
      BY <1>2, <2>2 DEF get, Live, Expired, CacheInv, CacheTypeOK
    <3>2. Entries' = Entries
      BY <2>1, <3>1 DEF Entries, Entry, Live
    <3>3. returned' = IF Entries[k] = None THEN None ELSE Entries[k].result
      BY <2>2, <3>1, LiveEntry DEF Entries
    <3>4. Entries[k] # None
      BY <2>2, LiveEntry DEF Entries
    <3> QED
      BY <3>1, <3>2, <3>3, <3>4 DEF Map!Lookup, Entries, Entry
  <2>3. CASE ~Live(k)
    <3>1. returned' = None /\ cache' = Without({k})
      BY <1>2, <2>3 DEF get, Live, Expired, CacheInv, CacheTypeOK
    <3>2. Entries' = Entries
      BY <2>1, <2>3, <3>1 DEF Entries, Entry, Live, Without
    <3>3. Entries[k] = None
      BY <2>3 DEF Entries, Entry
    <3>4. DOMAIN cache' = DOMAIN cache \ {k}
      BY <3>1 DEF Without
    <3> QED
      BY <3>1, <3>2, <3>3, <3>4 DEF Map!Lookup, Entries, Entry
  <2> QED
    BY <2>2, <2>3
<1>3. ASSUME NEW k \in Keys, remove(k)
      PROVE  Map!Erase({k})
  <2>1. cache' = Without({k}) /\ returned' = returned /\ now' = now
    BY <1>3 DEF remove
  <2>2. Entries' = [d \in Keys |-> IF d \in {k} THEN None ELSE Entries[d]]
    BY <2>1 DEF Entries, Entry, Live, Without
  <2>3. DOMAIN cache' = DOMAIN cache \ {k}
    BY <2>1 DEF Without
  <2> QED
    BY <2>1, <2>2, <2>3 DEF Map!Erase, Entries, Entry
\* What has expired is gone from the map already.
<1>4. CASE cleanup_expired
  <2>1. /\ cache' = Without({k \in DOMAIN cache : Expired(k)})
        /\ returned' = returned /\ now' = now
    BY <1>4 DEF cleanup_expired
  <2>2. ASSUME NEW k \in Keys
        PROVE  Entry(k)' = Entry(k)
    <3>1. k \in DOMAIN cache => (Live(k) <=> ~Expired(k))
      BY DEF Live, Expired, CacheInv, CacheTypeOK
    <3> QED
      BY <2>1, <3>1 DEF Entry, Live, Without
  <2>3. Entries' = Entries
    BY <2>2 DEF Entries
  <2>4. DOMAIN cache' = {k \in DOMAIN cache : Entries[k] # None}
    <3>1. \A k \in DOMAIN cache : k \in Keys /\ (Live(k) <=> ~Expired(k)) /\ (Live(k) <=> Entry(k) # None)
      BY LiveEntry DEF Live, Expired, CacheInv, CacheTypeOK
    <3> QED
      BY <2>1, <3>1 DEF Without, Entries
  <2>5. Map!Clean
    BY <2>1, <2>3, <2>4 DEF Map!Clean, Entries, Entry
  <2> QED
    BY <2>5 DEF Map!Next
<1>5. CASE CacheClear
  <2>1. cache' = << >> /\ returned' = returned
    BY <1>5 DEF CacheClear
  <2>2. Entries' = [k \in Keys |-> IF k \in Keys THEN None ELSE Entries[k]]
    BY <2>1 DEF Entries, Entry, Live
  <2>3. DOMAIN cache' = DOMAIN cache \ Keys
    BY <2>1 DEF CacheInv, CacheTypeOK
  <2> QED
    BY <2>1, <2>2, <2>3 DEF Map!Next, Map!Erase, Entries, Entry
<1>6. CASE Tick /\ UNCHANGED cacheVars
  BY <1>6, TickAges DEF Map!Next
<1>7. CASE size
  <2>1. cache' = cache /\ now' = now /\ returned' = Cardinality(DOMAIN cache)
    BY <1>7 DEF size
  <2>2. Entries' = Entries
    BY <2>1 DEF Entries, Entry, Live
  <2>3. Map!Count
    BY <2>1, <2>2 DEF Map!Count, Entries, Entry
  <2> QED
    BY <2>3 DEF Map!Next
<1>8. CASE UNCHANGED <<cacheVars, now>>
  BY <1>8 DEF Map!mapVars, Live, cacheVars
<1> QED
  BY <1>1, <1>2, <1>3, <1>4, <1>5, <1>6, <1>7, <1>8 DEF CacheNext, Map!Next

\* The cache implements the map whose entries expire by themselves, for any keys,
\* results, times to live and horizon: that entries are erased late is seen by size()
\* alone.
THEOREM ImplementsExpiringMap == CacheSpec => ExpiringMapSpec
<1>1. ClockInit /\ CacheInit => Map!Init
  BY DEF ClockInit, CacheInit, Map!Init, Live
<1>2. CacheInv /\ [CacheNext]_<<cacheVars, now>> => [Map!Next]_Map!mapVars
  BY StepRefinesMap
<1> QED
  BY <1>1, <1>2, CacheInitInv, StepKeepsCacheInv, PTL DEF CacheSpec, ExpiringMapSpec, Map!Spec

=============================================================================
