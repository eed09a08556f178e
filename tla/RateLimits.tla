----------------------------- MODULE RateLimits -----------------------------
(***************************************************************************)
(* The rate limiters, for one key. Of the requests per minute of a user    *)
(* group (common/limit): "window" and "bucket" in memory, "count" and      *)
(* "token" as scripts in Redis. Of the requests of an address: "shards" in *)
(* memory (common/rate-limit.go), and "list", whose commands to Redis are  *)
(* steps of their own (middleware/rate-limit.go, redisRateLimiter). Time   *)
(* goes in ticks, and Redis does not fail.                                 *)
(***************************************************************************)
EXTENDS Naturals, Sequences, FiniteSets

CONSTANTS
  Limiters,         (* the kinds that are looked at *)
  Rate,             (* requests per window, or tokens per tick *)
  Burst,            (* the tokens of a full bucket *)
  Duration,         (* ticks of a window *)
  Expiration,       (* ticks until an unused list is dropped *)
  Askers,           (* the requests that are asked for at a time *)
  Horizon,          (* bound: ticks *)
  MaxReloads        (* bound: reloads of the user groups *)

AllLimiters == {"window", "bucket", "count", "token", "shards", "list"}

(* "Shouldn't larger then RateLimitKeyExpirationDuration"
   (middleware/rate-limit.go:59); a bucket holds what ten seconds fill, and is
   kept for two minutes (common/limit/api_limiter.go:9, memorylimit.go:240). *)
ASSUME LimiterAssumption ==
  /\ Limiters \subseteq AllLimiters /\ IsFiniteSet(Askers)
  /\ {Rate, Burst, Duration} \subseteq Nat \ {0}
  /\ Rate <= Burst /\ Burst <= 2 * Duration * Rate
  /\ {Expiration, Horizon, MaxReloads} \subseteq Nat /\ Duration <= Expiration

VARIABLES
  limiter, now,
  entry,            (* what is stored under the key *)
  asker,            (* list: where each request is *)
  grants,           (* history: when requests were let through *)
  reloads

limitVars == <<limiter, now, entry, asker, grants, reloads>>

Absent == [absent |-> TRUE]
Stored == entry # Absent

LimitInit ==
  /\ limiter \in Limiters /\ now = 0 /\ entry = Absent
  /\ asker = [a \in Askers |-> "idle"] /\ grants = <<>> /\ reloads = 0

Least(a, b) == IF a < b THEN a ELSE b
Grant == grants' = Append(grants, now)

-----------------------------------------------------------------------------
(* allowFixedWindow *)
AskWindow ==
  /\ limiter = "window"
  /\ IF ~Stored \/ now - entry.start >= Duration
     THEN entry' = [count |-> 1, start |-> now, updated |-> now] /\ Grant
     ELSE /\ entry.count + 1 <= Rate
          /\ entry' = [entry EXCEPT !.count = @ + 1, !.updated = now] /\ Grant
  /\ UNCHANGED <<limiter, now, asker, reloads>>

(* Mutant: the bucket fills without end. *)
FilledOver(e) == e.tokens + (now - e.last) * Rate

(* The tokens of a bucket now. *)
Filled(e) == Least(Burst, e.tokens + (now - e.last) * Rate)

(* allowTokenBucket; a request that is refused leaves the filled bucket. *)
AskBucket ==
  /\ limiter = "bucket"
  /\ LET tokens == IF Stored THEN Filled(entry) ELSE Burst IN
       \/ tokens >= 1 /\ entry' = [tokens |-> tokens - 1, last |-> now, updated |-> now] /\ Grant
       \/ tokens < 1 /\ entry' = [entry EXCEPT !.tokens = tokens, !.last = now] /\ UNCHANGED grants
  /\ UNCHANGED <<limiter, now, asker, reloads>>

(* removeExpiredEntries: the ticker may come at any time. *)
RemoveExpired ==
  /\ limiter \in {"window", "bucket"} /\ Stored /\ now - entry.updated > 2 * Duration
  /\ entry' = Absent
  /\ UNCHANGED <<limiter, now, asker, grants, reloads>>

(* UserGroupRatio.Load makes new limiters. *)
ReloadGroups ==
  /\ limiter \in {"window", "bucket"} /\ reloads < MaxReloads /\ reloads' = reloads + 1
  /\ entry' = Absent
  /\ UNCHANGED <<limiter, now, asker, grants>>

(* countscript.lua; beyond the rate the count is as good as one more. *)
AskCount ==
  /\ limiter = "count"
  /\ LET count == IF Stored THEN entry.count + 1 ELSE 1 IN
       /\ entry' = [count |-> Least(count, Rate + 1),
                    expires |-> IF Stored THEN entry.expires ELSE now + Duration]
       /\ IF count <= Rate THEN Grant ELSE UNCHANGED grants
  /\ UNCHANGED <<limiter, now, asker, reloads>>

(* tokenscript.lua; both keys expire after twice the time of a filling. *)
AskToken ==
  /\ limiter = "token"
  /\ LET tokens == IF Stored THEN Filled(entry) ELSE Burst
         ttl == (2 * Burst) \div Rate
     IN /\ entry' = [tokens |-> IF tokens >= 1 THEN tokens - 1 ELSE tokens,
                     last |-> now, expires |-> now + ttl]
        /\ IF tokens >= 1 THEN Grant ELSE UNCHANGED grants
  /\ UNCHANGED <<limiter, now, asker, reloads>>

-----------------------------------------------------------------------------
(* InMemoryRateLimiter.Request: a queue of times, the oldest first. *)
AskShards ==
  /\ limiter = "shards"
  /\ LET queue == IF Stored THEN entry.queue ELSE <<>> IN
       \/ Len(queue) < Rate /\ entry' = [queue |-> Append(queue, now)]
       \/ /\ Len(queue) >= Rate /\ now - queue[1] >= Duration
          /\ entry' = [queue |-> Append(Tail(queue), now)]
  /\ Grant
  /\ UNCHANGED <<limiter, now, asker, reloads>>

(* doCleanup: the oldest ones go, until one that has not expired. *)
CleanShards ==
  /\ limiter = "shards" /\ Stored
  /\ \E cutoff \in 1..Len(entry.queue) :
       /\ \A i \in 1..cutoff : now - entry.queue[i] > Expiration
       /\ IF cutoff = Len(entry.queue) THEN entry' = Absent
          ELSE /\ now - entry.queue[cutoff + 1] <= Expiration
               /\ entry' = [queue |-> SubSeq(entry.queue, cutoff + 1, Len(entry.queue))]
  /\ UNCHANGED <<limiter, now, asker, grants, reloads>>

-----------------------------------------------------------------------------
(* redisRateLimiter: a list of times, the newest first. *)

Listed == IF Stored THEN entry.list ELSE <<>>
AskerGoes(a, from, to) ==
  limiter = "list" /\ asker[a] = from /\ asker' = [asker EXCEPT ![a] = to]

(* LLen *)
ReadLength(a) ==
  /\ AskerGoes(a, "idle", IF Len(Listed) < Rate THEN "push" ELSE "oldest")
  /\ UNCHANGED <<limiter, now, entry, grants, reloads>>

(* LIndex, and the comparison; a refusal only renews the expiration. The list
   may have expired since. *)
ReadOldest(a) ==
  /\ asker[a] = "oldest"
  /\ IF Stored /\ now - Listed[Len(Listed)] >= Duration
     THEN AskerGoes(a, "oldest", "roll") /\ UNCHANGED <<entry, grants>>
     ELSE /\ AskerGoes(a, "oldest", "idle")
          /\ IF Stored THEN entry' = [entry EXCEPT !.expires = now + Expiration] /\ UNCHANGED grants
             ELSE Grant /\ UNCHANGED entry
  /\ UNCHANGED <<limiter, now, reloads>>

PushNow == entry' = [list |-> <<now>> \o Listed, expires |-> now + Expiration]

(* LPush below the limit. *)
Push(a) ==
  /\ AskerGoes(a, "push", "idle") /\ PushNow /\ Grant
  /\ UNCHANGED <<limiter, now, reloads>>

(* LPush at the limit, and then LTrim. *)
PushOver(a) ==
  /\ AskerGoes(a, "roll", "trim") /\ PushNow /\ Grant
  /\ UNCHANGED <<limiter, now, reloads>>

TrimList(a) ==
  /\ AskerGoes(a, "trim", "idle")
  /\ entry' = IF Stored THEN [list |-> SubSeq(Listed, 1, Least(Rate, Len(Listed))),
                              expires |-> now + Expiration]
              ELSE entry
  /\ UNCHANGED <<limiter, now, grants, reloads>>

-----------------------------------------------------------------------------
(* What Redis keeps expires with the time. A request to Redis is short beside
   a tick. *)
Tick ==
  /\ now < Horizon /\ now' = now + 1
  /\ \A a \in Askers : asker[a] = "idle"
  /\ entry' = IF limiter \in {"count", "token", "list"} /\ Stored /\ entry.expires <= now + 1
              THEN Absent ELSE entry
  /\ UNCHANGED <<limiter, asker, grants, reloads>>

Ask == AskWindow \/ AskBucket \/ AskCount \/ AskToken \/ AskShards
AskerStep(a) == ReadLength(a) \/ ReadOldest(a) \/ Push(a) \/ PushOver(a) \/ TrimList(a)

LimitNext ==
  \/ Ask \/ RemoveExpired \/ ReloadGroups \/ CleanShards \/ Tick
  \/ \E a \in Askers : AskerStep(a)

LimitSpec == LimitInit /\ [][LimitNext]_limitVars

-----------------------------------------------------------------------------
(* Properties. *)

(* What a limiter lets through in so many ticks at most. A window begins with
   its first request, so two of them meet within any Duration; requests that
   ask Redis at the same time each see the list before the others' pushes. *)
Promise(ticks) ==
  LET windows == (ticks + Duration - 1) \div Duration IN
  CASE limiter = "window" -> Rate * (windows + 1 + reloads)
    [] limiter = "count"  -> Rate * (windows + 1)
    [] limiter = "bucket" -> Burst * (1 + reloads) + Rate * (ticks - 1)
    [] limiter = "token"  -> Burst + Rate * (ticks - 1)
    [] limiter = "shards" -> Rate * windows
    [] limiter = "list"   -> Rate * windows * Cardinality(Askers)

GrantedIn(from, ticks) ==
  Cardinality({i \in DOMAIN grants : grants[i] >= from /\ grants[i] < from + ticks})

(* Whatever is cleaned up, expires or overlaps meanwhile, no stretch of time
   sees more requests than the limiter promises for it. *)
NeverMoreThanPromised ==
  \A from \in 0..now : \A ticks \in 1..(now - from + 1) : GrantedIn(from, ticks) <= Promise(ticks)
=============================================================================
