---------------------------- MODULE RateLimiter ----------------------------
(***************************************************************************)
(* RateLimiter (rate_limiter.hpp): a token bucket per category, made by    *)
(* its first use or by set_limit.  Every call holds mutex_ and is one      *)
(* step.  token_refill_amount is declared as a number of milliseconds and  *)
(* used as a number of tokens.                                             *)
(*                                                                         *)
(* wait_for_token repeats try_acquire; a client that sleeps between two    *)
(* attempts is one that does not call.                                     *)
(***************************************************************************)
EXTENDS Clock

CONSTANTS
  Categories,
  Limits,         \* what set_limit may be called with
  DefaultLimit    \* default_limit_

\* The code divides by the interval.
ASSUME LimitsAssumption ==
  Limits \cup {DefaultLimit} \subseteq
    [max_tokens : Nat, refill_interval : Nat \ {0}, token_refill_amount : Nat]

VARIABLES
  buckets,   \* buckets_: a function on the categories that have one
  window     \* history: per category, since when grants are counted, how many
             \* there were, and how often the refill was credited

limiterVars == <<buckets, window>>

NoGrants == [opened |-> now, granted |-> 0, periods |-> 0, created |-> now]

LimiterTypeOK ==
  /\ DOMAIN buckets \subseteq Categories
  /\ \A c \in DOMAIN buckets :
       buckets[c] \in [limit : Limits \cup {DefaultLimit}, tokens : Nat, last_refill : 0 .. now]
  /\ DOMAIN window = DOMAIN buckets
  /\ \A c \in DOMAIN window :
       window[c] \in [opened : 0 .. now, granted : Nat, periods : Nat, created : 0 .. now]

LimiterInit == buckets = << >> /\ window = << >>

NewBucket(limit) == [limit |-> limit, tokens |-> limit.max_tokens, last_refill |-> now]

\* f with the value at c replaced or added
With(f, c, x) == [d \in DOMAIN f \cup {c} |-> IF d = c THEN x ELSE f[d]]

set_limit(c, limit) ==
  /\ buckets' = With(buckets, c, NewBucket(limit))
  /\ window' = With(window, c, NoGrants)
  /\ UNCHANGED now

get_bucket(c) == IF c \in DOMAIN buckets THEN buckets[c] ELSE NewBucket(DefaultLimit)

Periods(b) == (now - b.last_refill) \div b.limit.refill_interval

\* Mutants of Refilled: the cap is forgotten; the clock is set back at every call.
RefilledUncapped(b) ==
  IF Periods(b) = 0 THEN b
  ELSE [b EXCEPT !.tokens = @ + Periods(b) * b.limit.token_refill_amount, !.last_refill = now]
RefilledAlways(b) ==
  LET tokens == b.tokens + Periods(b) * b.limit.token_refill_amount
  IN  [b EXCEPT !.tokens = IF tokens < b.limit.max_tokens THEN tokens ELSE b.limit.max_tokens,
                !.last_refill = now]

\* The rest of the division is forgotten: the next interval begins now.
Refilled(b) ==
  LET tokens == b.tokens + Periods(b) * b.limit.token_refill_amount
  IN  IF Periods(b) = 0 THEN b
      ELSE [b EXCEPT !.tokens = IF tokens < b.limit.max_tokens THEN tokens ELSE b.limit.max_tokens,
                     !.last_refill = now]

try_acquire(c) ==
  LET b == Refilled(get_bucket(c))
      granted == b.tokens > 0
      w == IF c \in DOMAIN window THEN window[c] ELSE NoGrants
  IN  /\ buckets' = With(buckets, c, IF granted THEN [b EXCEPT !.tokens = @ - 1] ELSE b)
      /\ window' = With(window, c, [w EXCEPT !.granted = IF granted THEN @ + 1 ELSE @,
                                             !.periods = @ + Periods(get_bucket(c))])
      /\ UNCHANGED now

\* A new window of observation begins; no step of the code.
Observe(c) ==
  /\ c \in DOMAIN window
  /\ window' = [window EXCEPT ![c].opened = now, ![c].granted = 0]
  /\ UNCHANGED <<buckets, now>>

LimiterNext ==
  \/ \E c \in Categories : try_acquire(c) \/ Observe(c)
  \/ \E c \in Categories, limit \in Limits : set_limit(c, limit)
  \/ Tick /\ UNCHANGED limiterVars

LimiterSpec == ClockInit /\ LimiterInit /\ [][LimiterNext]_<<limiterVars, now>>

-----------------------------------------------------------------------------
(* Properties                                                              *)

\* In any window of time a category is granted at most a full bucket and the
\* refills of the whole intervals in it and of one more, the one that was under
\* way when the window began.
RateKept ==
  \A c \in DOMAIN window :
    LET limit == buckets[c].limit
        intervals == (now - window[c].opened) \div limit.refill_interval
    IN  window[c].granted <= limit.max_tokens + (intervals + 1) * limit.token_refill_amount

\* The refill forgets the rest of the elapsed time, and a call that comes too
\* early must not restart the interval: between them they cost less than half of
\* the time a bucket has existed.
AtLeastHalfRate ==
  \A c \in DOMAIN window :
    LET interval == buckets[c].limit.refill_interval
    IN  buckets[c].last_refill - window[c].created <= 2 * interval * window[c].periods

=============================================================================
