------------------------------- MODULE RateLimit -------------------------------
(***************************************************************************)
(* The sliding-window limit on sign-ups of one address                       *)
(* (api/dependencies/rate_limit.py).  All processes share a sorted set in    *)
(* Redis, which one script reads and changes at once; a process that cannot  *)
(* reach Redis counts in a deque of its own.  A request reads its clock      *)
(* before it awaits Redis, so scores may reach the set out of order.         *)
(***************************************************************************)
EXTENDS Naturals, Sequences, FiniteSets, FiniteSetsExt

CONSTANTS
  Signups,     \* requests, each made once
  Workers,     \* API processes
  Window,      \* _WINDOW_SECONDS
  MaxPosts,    \* _MAX_POST_TENANTS_PER_WINDOW
  Delay,       \* longest time between the reading of the clock and the script
  EndOfTime,   \* bound on the clock
  MaxFlips,    \* bound on the times Redis goes away or comes back
  MaxStarts    \* bound on the starts of a process

ASSUME RateAssumption ==
  /\ Window \in Nat /\ MaxPosts \in Nat /\ Delay \in 0..Window
  /\ "redis" \notin Workers
  /\ EndOfTime \in Nat /\ MaxFlips \in Nat /\ MaxStarts \in Nat

VARIABLES
  time,      \* the clock
  redis,     \* the sorted set: [score, who]
  reachable, \* whether Redis answers
  flips,     \* how often that changed
  recent,    \* _recent[host] of each process
  starts,    \* how often each process was started again
  signup,    \* what each request is doing
  admitted   \* history: [by, at, who] of each admission; by Redis or by one
             \* life of a process

rateVars == <<time, redis, reachable, flips, recent, starts, signup, admitted>>

RateInit ==
  /\ time = 0
  /\ redis = {}
  /\ reachable \in BOOLEAN   \* FALSE for good when no redis_url is configured
  /\ flips = 0
  /\ recent = [w \in Workers |-> <<>>]
  /\ starts = [w \in Workers |-> 0]
  /\ signup = [s \in Signups |-> [pc |-> "new"]]
  /\ admitted = {}

\* _prune: entries leave at the left up to the first that is no older than a
\* window; one exactly a window old still counts.
Prune(q) ==
  SubSeq(q, Min({i \in 1..Len(q) : time - q[i] <= Window} \cup {Len(q) + 1}), Len(q))

\* Mutant: windows that begin at fixed times.
RemainingInFixedWindow(stamp) == {e \in redis : e.score \div Window = stamp \div Window}

\* ZREMRANGEBYSCORE ... -inf now_ts - Window: an entry exactly a window old goes.
Remaining(stamp) == {e \in redis : e.score + Window > stamp}

\* The two kinds of counter: the sorted set, and the deque of one life of a process.
Redis == <<"redis", 0>>

Settle(s, verdict, by) ==
  /\ signup' = [signup EXCEPT ![s] = [pc |-> verdict, by |-> by, at |-> time]]
  /\ admitted' = IF verdict = "admitted" THEN admitted \cup {[by |-> by, at |-> time, who |-> s]}
                                         ELSE admitted

\* enforce_tenant_create_budget up to the await.
BeginSignup(s, w) ==
  /\ signup[s].pc = "new"
  /\ signup' = [signup EXCEPT ![s] = [pc |-> "eval", worker |-> w, stamp |-> time]]
  /\ UNCHANGED <<time, redis, reachable, flips, recent, starts, admitted>>

\* _RLUA
Eval(s) ==
  LET kept == Remaining(signup[s].stamp) IN
  /\ signup[s].pc = "eval"
  /\ reachable
  /\ IF Cardinality(kept) >= MaxPosts
     THEN redis' = kept /\ Settle(s, "refused", Redis)
     ELSE /\ redis' = kept \cup {[score |-> signup[s].stamp, who |-> s]}
          /\ Settle(s, "admitted", Redis)
  /\ UNCHANGED <<time, reachable, flips, recent, starts>>

\* A RedisError, or no Redis at all: _enforce_in_memory.
Fallback(s) ==
  LET w == signup[s].worker
      life == <<w, starts[w]>>
      kept == Prune(recent[w])
  IN /\ signup[s].pc = "eval"
     /\ ~reachable
     /\ IF Len(kept) >= MaxPosts
        THEN recent' = [recent EXCEPT ![w] = kept] /\ Settle(s, "refused", life)
        ELSE recent' = [recent EXCEPT ![w] = Append(kept, time)] /\ Settle(s, "admitted", life)
     /\ UNCHANGED <<time, redis, reachable, flips, starts>>

Flip ==
  /\ flips < MaxFlips
  /\ flips' = flips + 1
  /\ reachable' = ~reachable
  /\ UNCHANGED <<time, redis, recent, starts, signup, admitted>>

\* A process starts anew: its deque is empty, its requests are gone.
RestartWorker(w) ==
  /\ starts[w] < MaxStarts
  /\ starts' = [starts EXCEPT ![w] = @ + 1]
  /\ recent' = [recent EXCEPT ![w] = <<>>]
  /\ signup' = [s \in Signups |-> IF signup[s].pc = "eval" /\ signup[s].worker = w
                                  THEN [pc |-> "lost"] ELSE signup[s]]
  /\ UNCHANGED <<time, redis, reachable, flips, admitted>>

\* No request waits longer than Delay for Redis.
RateTick ==
  /\ time < EndOfTime
  /\ \A s \in Signups : signup[s].pc = "eval" => time < signup[s].stamp + Delay
  /\ time' = time + 1
  /\ UNCHANGED <<redis, reachable, flips, recent, starts, signup, admitted>>

RateNext ==
  \/ \E s \in Signups, w \in Workers : BeginSignup(s, w)
  \/ \E s \in Signups : Eval(s) \/ Fallback(s)
  \/ \E w \in Workers : RestartWorker(w)
  \/ Flip
  \/ RateTick

RateSpec == RateInit /\ [][RateNext]_rateVars

---------------------------------------------------------------------------
(* The window slides: no span of time that fits in it sees more than          *)
(* MaxPosts sign-ups admitted by Redis, whatever the order of their scores    *)
(* (less the delay that a clock reading may age before the script runs), and  *)
(* none of the deque's closed window more than MaxPosts admitted by one life  *)
(* of a process (_RLUA, _prune).                                              *)
SignupsBounded ==
  \A t \in 0..EndOfTime, by \in {a.by : a \in admitted} :
    Cardinality({a \in admitted :
                   /\ a.by = by /\ t <= a.at
                   /\ IF by = Redis THEN a.at + Delay < t + Window ELSE a.at <= t + Window})
      <= MaxPosts

=============================================================================
