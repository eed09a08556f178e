-------------------------- MODULE RateLimitsProofs --------------------------
(***************************************************************************)
(* Proofs about RateLimits: what each of the six limiters promises holds   *)
(* for any rate, burst and window, any number of askers, and however long  *)
(* they go on asking.                                                      *)
(***************************************************************************)
EXTENDS RateLimits, FiniteSetTheorems, FunctionTheorems, WellFoundedInduction, TLAPS

(* A set of numbers has a least one, and a greatest if it is bounded. *)
LEMMA LeastNumber ==
  ASSUME NEW S \in SUBSET Nat, S # {}
  PROVE  \E a \in S : \A e \in S : a <= e
<1>1. PICK a \in S : \A e \in S : ~(<<e, a>> \in OpToRel(<, Nat))
  BY Zenon, NatLessThanWellFounded, WFMin
<1>2. \A e \in S : ~(e < a)
  BY <1>1, Zenon DEF OpToRel
<1> QED BY <1>2

(* A bounded set of numbers has a least one and a greatest. *)
LEMMA Extremes ==
  ASSUME NEW n \in Nat, NEW S \in SUBSET (1..n), S # {}
  PROVE  \E a, b \in S : \A e \in S : a <= e /\ e <= b
<1>1. S \in SUBSET Nat
  OBVIOUS
<1>2. PICK a \in S : \A e \in S : a <= e
  BY <1>1, LeastNumber
<1> DEFINE T == {n - e : e \in S}
<1>3. T \in SUBSET Nat /\ T # {}
  OBVIOUS
<1>4. PICK d \in T : \A e \in T : d <= e
  BY <1>3, LeastNumber
<1>5. PICK b \in S : d = n - b
  OBVIOUS
<1>6. \A e \in S : n - b <= n - e
  BY <1>4, <1>5
<1>7. \A e \in S : e <= b
  BY <1>6
<1> QED BY <1>2, <1>7

(* As many as two of them lie apart, and one. *)
LEMMA Between ==
  ASSUME NEW S \in SUBSET Nat, NEW a \in Nat, NEW P \in Nat,
         \A e \in S : a <= e /\ e < a + P
  PROVE  IsFiniteSet(S) /\ Cardinality(S) \in Nat /\ Cardinality(S) <= P
<1>1. a \in Int /\ a + P - 1 \in Int
  OBVIOUS
<1>2. /\ IsFiniteSet(a..(a + P - 1))
      /\ Cardinality(a..(a + P - 1)) = IF a > a + P - 1 THEN 0 ELSE a + P - 1 - a + 1
  BY <1>1, FS_Interval
<1>3. (IF a > a + P - 1 THEN 0 ELSE a + P - 1 - a + 1) = P
  OBVIOUS
<1>4. S \in SUBSET (a..(a + P - 1))
  OBVIOUS
<1>5. Cardinality(a..(a + P - 1)) = P
  BY <1>2, <1>3
<1>6. IsFiniteSet(S) /\ Cardinality(S) <= Cardinality(a..(a + P - 1))
  BY <1>2, <1>4, FS_Subset
<1>7. Cardinality(S) \in Nat
  BY <1>6, FS_CardinalityType
<1> QED BY <1>5, <1>6, <1>7

Ordered(times, until) ==
  /\ times \in Seq(Nat)
  /\ \A i, j \in 1..Len(times) : i <= j => times[i] <= times[j]
  /\ \A i \in 1..Len(times) : times[i] <= until

(* What comes in a stretch of time lies together. *)
During(times, from, ticks) == {i \in DOMAIN times : times[i] >= from /\ times[i] < from + ticks}

(* Of ordered times that lie so far apart, few fall into a stretch. *)
LEMMA FewDuring ==
  ASSUME NEW times, NEW until \in Nat, Ordered(times, until),
         NEW from \in Nat, NEW ticks \in Nat, NEW P \in Nat,
         \A i, j \in 1..Len(times) :
           i <= j /\ times[j] - times[i] <= ticks - 1 => j - i + 1 <= P
  PROVE  /\ IsFiniteSet(During(times, from, ticks))
         /\ Cardinality(During(times, from, ticks)) \in Nat
         /\ Cardinality(During(times, from, ticks)) <= P
         /\ \E a \in Nat : \A k \in During(times, from, ticks) : a <= k /\ k < a + P
<1> DEFINE S == During(times, from, ticks)
<1>1. /\ times \in Seq(Nat) /\ Len(times) \in Nat /\ DOMAIN times = 1..Len(times)
      /\ \A i \in 1..Len(times) : times[i] \in Nat
  BY DEF Ordered
<1>2. S \in SUBSET (1..Len(times)) /\ S \in SUBSET Nat
  BY <1>1 DEF During
<1>3. \E a \in Nat : \A k \in S : a <= k /\ k < a + P
  <2>1. CASE S = {}
    BY <2>1
  <2>2. CASE S # {}
    <3> HIDE DEF S
    <3>3. PICK a \in S, b \in S : \A e \in S : a <= e /\ e <= b
      BY <1>1, <1>2, <2>2, Extremes
    <3>4. /\ a \in 1..Len(times) /\ b \in 1..Len(times) /\ a <= b
          /\ times[a] >= from /\ times[b] < from + ticks
      BY <1>1, <1>2, <3>3 DEF S, During
    <3>5. times[b] - times[a] <= ticks - 1
      BY <1>1, <3>4
    <3>6. b - a + 1 <= P
      BY <3>4, <3>5
    <3>7. \A k \in S : k \in Nat /\ a <= k /\ k < a + P
      BY <1>2, <3>3, <3>4, <3>6
    <3> QED BY <3>4, <3>7
  <2> QED BY <2>1, <2>2
<1>4. PICK a \in Nat : \A k \in S : a <= k /\ k < a + P
  BY <1>3
<1> HIDE DEF S
<1>5. IsFiniteSet(S) /\ Cardinality(S) \in Nat /\ Cardinality(S) <= P
  BY <1>2, <1>4, Between
<1> QED BY <1>3, <1>5 DEF S

(* A time that is appended comes last. *)
LEMMA OneMore ==
  ASSUME NEW times, NEW until \in Nat, Ordered(times, until)
  PROVE  /\ Ordered(Append(times, until), until)
         /\ Len(Append(times, until)) = Len(times) + 1 /\ Len(times) \in Nat
         /\ \A i \in 1..Len(times) : Append(times, until)[i] = times[i]
         /\ Append(times, until)[Len(times) + 1] = until
         /\ \A i \in 1..Len(times) : times[i] \in Nat /\ times[i] <= until
<1>1. /\ times \in Seq(Nat) /\ Len(times) \in Nat
      /\ \A i \in 1..Len(times) : times[i] \in Nat /\ times[i] <= until
  BY DEF Ordered
<1>2. /\ Append(times, until) \in Seq(Nat) /\ Len(Append(times, until)) = Len(times) + 1
      /\ \A i \in 1..Len(times) : Append(times, until)[i] = times[i]
      /\ Append(times, until)[Len(times) + 1] = until
  BY <1>1
<1> DEFINE n == Len(times)
           more == Append(times, until)
<1> HIDE DEF n, more
<1>3. \A i \in 1..(n + 1) : i \in 1..n \/ i = n + 1
  BY <1>1 DEF n
<1>4. ASSUME NEW i \in 1..(n + 1), NEW j \in 1..(n + 1), i <= j PROVE more[i] <= more[j]
  <2>1. CASE j \in 1..n
    <3>1. i \in 1..n
      BY <1>1, <1>4, <2>1 DEF n
    <3> QED BY <1>2, <1>4, <2>1, <3>1 DEF n, more, Ordered
  <2>2. CASE j = n + 1
    <3>1. CASE i \in 1..n
      BY <1>1, <1>2, <2>2, <3>1 DEF n, more
    <3>2. CASE i = n + 1
      BY <1>2, <2>2, <3>2 DEF n, more
    <3> QED BY <1>3, <3>1, <3>2
  <2> QED BY <1>3, <2>1, <2>2
<1>5. \A i \in 1..(n + 1) : more[i] <= until
  BY <1>1, <1>2, <1>3 DEF n, more
<1> QED BY <1>1, <1>2, <1>4, <1>5 DEF n, more, Ordered

(* What the assumption says of the constants. *)
LEMMA LimitNumbers ==
  /\ Rate \in Nat /\ Rate >= 1 /\ Burst \in Nat /\ Rate <= Burst
  /\ Duration \in Nat /\ Duration >= 1 /\ Expiration \in Nat /\ Duration <= Expiration
  /\ Burst <= 2 * Duration * Rate
BY LimiterAssumption

(* Products with the rate. *)
LEMMA RateTimes ==
  ASSUME NEW a \in Nat, NEW b \in Nat
  PROVE  /\ Rate * (a + b) = Rate * a + Rate * b
         /\ a <= b => Rate * a <= Rate * b
<1>1. Rate \in Nat
  BY LimitNumbers
<1>2. Rate * (a + b) = Rate * a + Rate * b
  BY <1>1
<1>3. ASSUME a <= b PROVE Rate * a <= Rate * b
  BY <1>1, <1>3
<1> QED BY <1>2, <1>3

(* A product with the rate is a number, and not below the rate. *)
LEMMA RateType ==
  ASSUME NEW a \in Nat
  PROVE  /\ Rate * a \in Nat /\ Rate * 1 = Rate
         /\ a >= 1 => Rate * a >= Rate
<1>1. Rate \in Nat
  BY LimitNumbers
<1>2. Rate * a \in Nat /\ Rate * 1 = Rate
  BY <1>1
<1>3. ASSUME a >= 1 PROVE Rate * a >= Rate
  BY <1>1, <1>3
<1> QED BY <1>2, <1>3

(* What fits into so many windows, and one more. *)
LEMMA WindowsMore ==
  ASSUME NEW u \in Nat, NEW v \in Nat, NEW k \in Nat, NEW h \in Nat,
         k <= Rate * u, h <= Rate, u + 1 <= v
  PROVE  k + h <= Rate * v
<1>1. Rate * u \in Nat /\ Rate * (u + 1) = Rate * u + Rate
  <2>1. 1 \in Nat
    OBVIOUS
  <2> QED BY <2>1, RateType, RateTimes
<1>2. Rate * (u + 1) <= Rate * v /\ Rate * v \in Nat
  <2>1. u + 1 \in Nat
    OBVIOUS
  <2> QED BY <2>1, RateType, RateTimes
<1>3. k + h <= Rate * u + Rate
  BY <1>1, LimitNumbers
<1> QED BY <1>1, <1>2, <1>3, LimitNumbers

(* The whole windows between two times. *)
Windows(a, b) == (b - a) \div Duration

(* Between a time and a later one there is a number of windows, *)
LEMMA WindowsType ==
  ASSUME NEW a \in Nat, NEW b \in Nat, a <= b
  PROVE  Windows(a, b) \in Nat
<1>1. Duration \in Nat \ {0}
  BY LimitNumbers
<1>2. PICK d \in Nat : d = b - a
  OBVIOUS
<1>3. d \div Duration \in Nat
  BY <1>1
<1> QED BY <1>2, <1>3 DEF Windows

(* which grows with the later one, and by one in a Duration. *)
LEMMA WindowsGrow ==
  ASSUME NEW a \in Nat, NEW b \in Nat, NEW c \in Nat, a <= b, b <= c
  PROVE  /\ Windows(a, b) \in Nat /\ Windows(a, c) \in Nat /\ Windows(a, b) <= Windows(a, c)
         /\ b + Duration <= c => Windows(a, b) + 1 <= Windows(a, c)
<1>1. Duration \in Nat \ {0}
  BY LimitNumbers
<1>2. PICK d \in Nat : d = b - a
  OBVIOUS
<1>3. PICK e \in Nat : e = c - a
  OBVIOUS
<1>4. d <= e /\ (b + Duration <= c => d + Duration <= e)
  BY <1>1, <1>2, <1>3
<1>5. /\ d \div Duration \in Nat /\ e \div Duration \in Nat
      /\ d \div Duration <= e \div Duration
      /\ d + Duration <= e => d \div Duration + 1 <= e \div Duration
  BY <1>1, <1>4
<1> QED BY <1>2, <1>3, <1>4, <1>5 DEF Windows

-----------------------------------------------------------------------------
(* Windows, in memory and in Redis: the present one began at "since" and has
   let "held" requests through; x is how often a new one was begun early. *)

WindowOK(times, held, since, x) ==
  /\ held \in 0..Rate /\ held <= Len(times) /\ since \in Nat
  /\ \A i \in 1..(Len(times) - held) :
       /\ times[i] <= since
       /\ Len(times) - held - i + 1 <= Rate * (Windows(times[i], since) + 1 + x)

WindowSparse(times, x) ==
  \A i, j \in 1..Len(times) :
    i <= j => j - i + 1 <= Rate * (Windows(times[i], times[j]) + 2 + x)

(* A window is over: after its Duration, or early if x makes up for it. *)
LEMMA WindowEnds ==
  ASSUME NEW times, NEW until \in Nat, Ordered(times, until), NEW x \in Nat, NEW y \in Nat,
         NEW held, NEW since, WindowOK(times, held, since, x), since <= until,
         \/ held = 0 /\ y >= x
         \/ since + Duration <= until /\ y >= x
         \/ y >= x + 1
  PROVE  WindowOK(times, 0, until, y)
<1> DEFINE n == Len(times)
<1>1. /\ n \in Nat /\ held \in Nat /\ held <= Rate /\ held <= n /\ since \in Nat /\ Rate \in Nat
      /\ \A i \in 1..n : times[i] \in Nat /\ times[i] <= until
  BY LimitNumbers DEF Ordered, WindowOK
<1>2. ASSUME NEW i \in 1..n PROVE n - i + 1 <= Rate * (Windows(times[i], until) + 1 + y)
  <2>1. PICK t \in Nat : t = times[i] /\ t <= until
    BY <1>1
  <2>2. PICK q \in Nat : q = Windows(t, until)
    BY <2>1, WindowsType
  <2>3. PICK v \in Nat : v = q + 1 + y /\ v >= 1
    BY <2>2
  <2>4. CASE i > n - held
    <3>1. n - i + 1 <= Rate
      BY <1>1, <2>4
    <3>2. Rate * v >= Rate /\ Rate * v \in Nat
      BY <2>3, RateType
    <3>3. n - i + 1 <= Rate * v
      BY <1>1, <3>1, <3>2
    <3> QED BY <2>1, <2>2, <2>3, <3>3
  <2>5. CASE i <= n - held
    <3>b. i \in 1..(n - held) /\ t <= since
      BY <1>1, <2>1, <2>5 DEF WindowOK
    <3>1. PICK p \in Nat : p = Windows(t, since)
      BY <1>1, <3>b, WindowsType
    <3>2. PICK u \in Nat : u = p + 1 + x
      BY <3>1
    <3>a. n - held - i + 1 \in Nat
      BY <1>1, <2>5
    <3>3. PICK k \in Nat : k = n - held - i + 1
      BY <3>a
    <3>4. t <= since /\ k <= Rate * u
      BY <2>1, <3>b, <3>1, <3>2, <3>3 DEF WindowOK
    <3>5. p <= q /\ (since + Duration <= until => p + 1 <= q)
      BY <1>1, <2>1, <2>2, <3>1, <3>4, WindowsGrow
    <3>6. k + held = n - i + 1
      BY <1>1, <3>3
    <3>7. CASE u + 1 <= v
      <4>1. k + held <= Rate * v
        BY <1>1, <3>4, <3>7, WindowsMore
      <4> QED BY <2>1, <2>2, <2>3, <3>6, <4>1
    <3>8. CASE held = 0 /\ u <= v
      <4>1. Rate * u <= Rate * v /\ Rate * u \in Nat /\ Rate * v \in Nat
        BY <3>8, RateTimes, RateType
      <4>2. n - i + 1 <= Rate * v
        BY <1>1, <3>4, <3>6, <3>8, <4>1
      <4> QED BY <2>1, <2>2, <2>3, <4>2
    <3>9. u + 1 <= v \/ (held = 0 /\ u <= v)
      BY <2>3, <3>2, <3>5
    <3> QED BY <3>7, <3>8, <3>9
  <2> QED BY <1>1, <2>4, <2>5
<1>3. 0 \in 0..Rate /\ 0 <= n /\ n - 0 = n /\ \A i \in 1..n : n - 0 - i + 1 = n - i + 1
  BY <1>1
<1> QED BY <1>1, <1>2, <1>3 DEF WindowOK

(* A request is let through while there is room in the window. *)
LEMMA WindowTakes ==
  ASSUME NEW times, NEW until \in Nat, Ordered(times, until), NEW x \in Nat,
         NEW held, NEW since, WindowOK(times, held, since, x), since <= until,
         WindowSparse(times, x), held < Rate
  PROVE  /\ WindowOK(Append(times, until), held + 1, since, x)
         /\ WindowSparse(Append(times, until), x)
<1> DEFINE n == Len(times)
           more == Append(times, until)
<1>1. /\ n \in Nat /\ held \in Nat /\ held < Rate /\ held <= n /\ since \in Nat /\ Rate \in Nat
  BY LimitNumbers, OneMore DEF WindowOK
<1>2. /\ \A i \in 1..n : times[i] \in Nat /\ times[i] <= until
      /\ Ordered(more, until) /\ Len(more) = n + 1 /\ more[n + 1] = until
      /\ \A i \in 1..n : more[i] = times[i]
  BY OneMore
<1> HIDE DEF more
<1>3. WindowOK(more, held + 1, since, x)
  <2>1. held + 1 \in 0..Rate /\ held + 1 <= Len(more) /\ Len(more) - (held + 1) = n - held
    BY <1>1, <1>2
  <2>2. ASSUME NEW i \in 1..(n - held)
        PROVE  more[i] <= since /\ n - held - i + 1 <= Rate * (Windows(more[i], since) + 1 + x)
    <3>1. i \in 1..n /\ more[i] = times[i]
      BY <1>1, <1>2
    <3> QED BY <3>1 DEF WindowOK
  <2> QED BY <1>1, <2>1, <2>2 DEF WindowOK
<1>4. ASSUME NEW i \in 1..(n + 1)
      PROVE  n + 1 - i + 1 <= Rate * (Windows(more[i], until) + 2 + x)
  <2>1. PICK t \in Nat : t = more[i] /\ t <= until
    <3>1. i \in 1..n \/ i = n + 1
      BY <1>1
    <3> QED BY <1>2, <3>1
  <2>2. PICK q \in Nat : q = Windows(t, until)
    BY <2>1, WindowsType
  <2>3. PICK v \in Nat : v = q + 2 + x /\ v >= 1
    BY <2>2
  <2>4. CASE i > n - held
    <3>1. n + 1 - i + 1 <= Rate
      BY <1>1, <2>4
    <3>2. Rate * v >= Rate /\ Rate * v \in Nat
      BY <2>3, RateType
    <3>3. n + 1 - i + 1 <= Rate * v
      BY <1>1, <3>1, <3>2
    <3> QED BY <2>1, <2>2, <2>3, <3>3
  <2>5. CASE i <= n - held
    <3>b. i \in 1..(n - held) /\ i \in 1..n
      BY <1>1, <2>5
    <3>0. t = times[i] /\ t <= since
      BY <1>2, <2>1, <3>b DEF WindowOK
    <3>1. PICK p \in Nat : p = Windows(t, since) /\ p <= q
      BY <1>1, <2>1, <2>2, <3>0, WindowsGrow
    <3>2. PICK u \in Nat : u = p + 1 + x
      BY <3>1
    <3>a. n - held - i + 1 \in Nat
      BY <1>1, <2>5
    <3>3. PICK k \in Nat : k = n - held - i + 1
      BY <3>a
    <3>4. k <= Rate * u
      BY <3>b, <3>0, <3>1, <3>2, <3>3 DEF WindowOK
    <3>5. PICK h \in Nat : h = held + 1 /\ h <= Rate /\ k + h = n + 1 - i + 1
      BY <1>1, <3>3
    <3>6. u + 1 <= v
      BY <2>3, <3>1, <3>2
    <3>7. k + h <= Rate * v
      BY <3>4, <3>5, <3>6, WindowsMore
    <3> QED BY <2>1, <2>2, <2>3, <3>5, <3>7
  <2> QED BY <1>1, <2>4, <2>5
<1>5. WindowSparse(more, x)
  <2> SUFFICES ASSUME NEW i \in 1..(n + 1), NEW j \in 1..(n + 1), i <= j
               PROVE  j - i + 1 <= Rate * (Windows(more[i], more[j]) + 2 + x)
    BY <1>2 DEF WindowSparse
  <2>1. CASE j = n + 1
    BY <1>2, <1>4, <2>1
  <2>2. CASE j \in 1..n
    <3>1. i \in 1..n
      BY <1>1, <2>2
    <3> QED BY <1>2, <2>2, <3>1 DEF WindowSparse
  <2> QED BY <1>1, <2>1, <2>2
<1> QED BY <1>3, <1>5 DEF more

-----------------------------------------------------------------------------
(* Buckets, in memory and in Redis: at the time "at" there were "tok" tokens. *)

Room(x) == Burst * (1 + x)

BucketOK(times, tok, at, x) ==
  /\ tok \in 0..Burst /\ at \in Nat
  /\ \A i \in 1..Len(times) :
       /\ times[i] <= at
       /\ Len(times) - i + 1 + tok <= Room(x) + Rate * (at - times[i])

BucketSparse(times, x) ==
  \A i, j \in 1..Len(times) : i <= j => j - i + 1 <= Room(x) + Rate * (times[j] - times[i])

(* The tokens of x new buckets and of the first one. *)
LEMMA RoomMore ==
  ASSUME NEW x \in Nat, NEW y \in Nat
  PROVE  /\ Room(x) \in Nat /\ Room(x) >= Burst
         /\ y >= x => Room(y) >= Room(x)
         /\ y >= x + 1 => Room(y) >= Room(x) + Burst
<1>1. Burst \in Nat
  BY LimitNumbers
<1>2. Room(x) \in Nat /\ Room(x) >= Burst
  BY <1>1 DEF Room
<1>3. ASSUME y >= x PROVE Room(y) >= Room(x)
  BY <1>1, <1>3 DEF Room
<1>4. ASSUME y >= x + 1 PROVE Room(y) >= Room(x) + Burst
  <2>1. PICK z \in Nat : y = x + 1 + z
    <3>1. y - x - 1 \in Nat /\ y = x + 1 + (y - x - 1)
      BY <1>4
    <3> QED BY <3>1
  <2>2. Burst * (1 + y) = Burst * (1 + x) + Burst + Burst * z /\ Burst * z \in Nat
    BY <1>1, <2>1
  <2>3. Burst * (1 + x) \in Nat
    BY <1>1
  <2> QED BY <1>1, <2>2, <2>3 DEF Room
<1> QED BY <1>2, <1>3, <1>4

(* Time fills a bucket, and a new one is full: it takes the place of a bucket
   that has filled up, or x makes up for it. *)
LEMMA BucketFills ==
  ASSUME NEW times, NEW until \in Nat, Ordered(times, until), NEW x \in Nat, NEW y \in Nat,
         NEW tok, NEW at, BucketOK(times, tok, at, x), at <= until,
         NEW more \in 0..Burst,
         \/ more <= tok + Rate * (until - at) /\ y >= x
         \/ y >= x + 1
  PROVE  BucketOK(times, more, until, y)
<1> DEFINE n == Len(times)
<1>1. /\ n \in Nat /\ tok \in Nat /\ at \in Nat /\ Burst \in Nat /\ more \in Nat /\ more <= Burst
      /\ \A i \in 1..n : times[i] \in Nat /\ times[i] <= at
  BY LimitNumbers DEF Ordered, BucketOK
<1>2. ASSUME NEW i \in 1..n
      PROVE  times[i] <= until /\ n - i + 1 + more <= Room(y) + Rate * (until - times[i])
  <2>1. PICK t \in Nat : t = times[i] /\ t <= at /\ t <= until
    BY <1>1
  <2>2. PICK d \in Nat : d = at - t
    BY <1>1, <2>1
  <2>3. PICK e \in Nat : e = until - at
    BY <1>1
  <2>4. until - t = d + e
    BY <1>1, <2>1, <2>2, <2>3
  <2>5. PICK p \in Nat : p = Rate * d
    BY <2>2, RateType
  <2>6. PICK q \in Nat : q = Rate * e
    BY <2>3, RateType
  <2>7. Rate * (until - t) = p + q
    BY <2>2, <2>3, <2>4, <2>5, <2>6, RateTimes
  <2>8. n - i + 1 + tok <= Room(x) + p
    BY <2>1, <2>2, <2>5 DEF BucketOK
  <2>9. PICK rx \in Nat : rx = Room(x)
    BY RoomMore
  <2>10. PICK ry \in Nat : ry = Room(y)
    BY RoomMore
  <2>11. (y >= x => ry >= rx) /\ (y >= x + 1 => ry >= rx + Burst)
    BY <2>9, <2>10, RoomMore
  <2>12. (more <= tok + q /\ y >= x) \/ y >= x + 1
    BY <2>3, <2>6
  <2>13. n - i + 1 + more <= ry + p + q
    BY <1>1, <2>8, <2>9, <2>11, <2>12
  <2> QED BY <2>1, <2>7, <2>10, <2>13
<1> QED BY <1>1, <1>2 DEF BucketOK

(* A request is let through while there is a token. *)
LEMMA BucketTakes ==
  ASSUME NEW times, NEW until \in Nat, Ordered(times, until), NEW x \in Nat,
         NEW tok, BucketOK(times, tok, until, x), BucketSparse(times, x), tok >= 1
  PROVE  /\ BucketOK(Append(times, until), tok - 1, until, x)
         /\ BucketSparse(Append(times, until), x)
<1> DEFINE n == Len(times)
           more == Append(times, until)
<1>1. n \in Nat /\ tok \in Nat /\ tok <= Burst /\ Burst \in Nat /\ Rate \in Nat
  BY LimitNumbers, OneMore DEF BucketOK
<1>2. /\ \A i \in 1..n : times[i] \in Nat /\ times[i] <= until
      /\ Ordered(more, until) /\ Len(more) = n + 1 /\ more[n + 1] = until
      /\ \A i \in 1..n : more[i] = times[i]
  BY OneMore
<1> HIDE DEF more
<1>3. ASSUME NEW i \in 1..(n + 1)
      PROVE  /\ more[i] <= until
             /\ n + 1 - i + 1 + (tok - 1) <= Room(x) + Rate * (until - more[i])
  <2>1. CASE i \in 1..n
    <3>1. more[i] = times[i] /\ n - i + 1 + tok <= Room(x) + Rate * (until - times[i])
      BY <1>2, <2>1 DEF BucketOK
    <3>2. n + 1 - i + 1 + (tok - 1) = n - i + 1 + tok
      BY <1>1
    <3> QED BY <1>2, <2>1, <3>1, <3>2
  <2>2. CASE i = n + 1
    <3>1. more[i] = until /\ until - more[i] = 0 /\ Rate * (until - more[i]) = 0
      BY <1>1, <1>2, <2>2
    <3>2. Room(x) \in Nat /\ Room(x) >= Burst
      BY RoomMore
    <3>3. n + 1 - i + 1 + (tok - 1) = tok
      BY <1>1, <2>2
    <3>4. until <= until
      OBVIOUS
    <3> QED BY <1>1, <3>1, <3>2, <3>3, <3>4
  <2>3. i \in 1..n \/ i = n + 1
    BY <1>1
  <2> QED BY <2>1, <2>2, <2>3
<1>4. BucketOK(more, tok - 1, until, x)
  <2>1. tok - 1 \in 0..Burst
    BY <1>1
  <2> QED BY <1>2, <1>3, <2>1 DEF BucketOK
<1>5. BucketSparse(more, x)
  <2> SUFFICES ASSUME NEW i \in 1..(n + 1), NEW j \in 1..(n + 1), i <= j
               PROVE  j - i + 1 <= Room(x) + Rate * (more[j] - more[i])
    BY <1>2 DEF BucketSparse
  <2>1. CASE j = n + 1
    <3>1. PICK t \in Nat : t = more[i] /\ t <= until
      <4>1. i \in 1..n \/ i = n + 1
        BY <1>1
      <4> QED BY <1>2, <4>1
    <3>2. PICK d \in Nat : d = until - t
      BY <3>1
    <3>3. PICK p \in Nat : p = Rate * d
      BY <3>2, RateType
    <3>4. n + 1 - i + 1 + (tok - 1) <= Room(x) + p /\ Room(x) \in Nat
      BY <1>3, <3>1, <3>2, <3>3, RoomMore
    <3>5. n + 1 - i + 1 <= Room(x) + p
      BY <1>1, <3>4
    <3> QED BY <1>2, <2>1, <3>1, <3>2, <3>3, <3>5
  <2>2. CASE j \in 1..n
    <3>1. i \in 1..n
      BY <1>1, <2>2
    <3> QED BY <1>2, <2>2, <3>1 DEF BucketSparse
  <2> QED BY <1>1, <2>1, <2>2
<1> QED BY <1>4, <1>5 DEF more

-----------------------------------------------------------------------------
(* Times of which any Rate that follow one another take a Duration. *)

Spread(times) ==
  \A i, j \in 1..Len(times) : i <= j => j - i + 1 <= Rate * (Windows(times[i], times[j]) + 1)

(* One more, a Duration after the one that is Rate before it. *)
LEMMA SpreadTakes ==
  ASSUME NEW times, NEW until \in Nat, Ordered(times, until), Spread(times),
         Len(times) >= Rate => times[Len(times) - Rate + 1] + Duration <= until
  PROVE  Spread(Append(times, until))
<1> DEFINE n == Len(times)
           more == Append(times, until)
<1>1. n \in Nat /\ Rate \in Nat /\ Rate >= 1 /\ Duration \in Nat
  BY LimitNumbers, OneMore
<1>2. /\ \A i \in 1..n : times[i] \in Nat /\ times[i] <= until
      /\ Len(more) = n + 1 /\ more[n + 1] = until
      /\ \A i \in 1..n : more[i] = times[i]
  BY OneMore
<1> HIDE DEF more
<1>3. ASSUME NEW i \in 1..(n + 1)
      PROVE  n + 1 - i + 1 <= Rate * (Windows(more[i], until) + 1)
  <2>1. PICK t \in Nat : t = more[i] /\ t <= until
    <3>1. i \in 1..n \/ i = n + 1
      BY <1>1
    <3> QED BY <1>2, <3>1
  <2>2. PICK q \in Nat : q = Windows(t, until)
    BY <2>1, WindowsType
  <2>3. PICK v \in Nat : v = q + 1 /\ v >= 1
    BY <2>2
  <2>4. CASE n + 1 - i + 1 <= Rate
    <3>1. Rate * v >= Rate /\ Rate * v \in Nat
      BY <2>3, RateType
    <3>2. n + 1 - i + 1 <= Rate * v
      BY <1>1, <2>4, <3>1
    <3> QED BY <2>1, <2>2, <2>3, <3>2
  <2>5. CASE n + 1 - i + 1 > Rate
    <3>1. PICK m \in 1..n : m = n - Rate + 1 /\ i <= m
      <4>1. n - Rate + 1 \in 1..n /\ i <= n - Rate + 1
        BY <1>1, <2>5
      <4> QED BY <4>1
    <3>2. i \in 1..n /\ n >= Rate
      BY <1>1, <3>1
    <3>3. PICK s \in Nat : s = times[m] /\ t <= s /\ s <= until /\ s + Duration <= until
      BY <1>2, <2>1, <3>1, <3>2 DEF Ordered
    <3>4. PICK p \in Nat : p = Windows(t, s) /\ p + 1 <= q
      BY <2>1, <2>2, <3>3, WindowsGrow
    <3>5. PICK u \in Nat : u = p + 1 /\ u + 1 <= v
      BY <2>3, <3>4
    <3>6. PICK k \in Nat : k = m - i + 1
      <4>1. m - i + 1 \in Nat
        BY <3>1
      <4> QED BY <4>1
    <3>7. k <= Rate * u
      BY <1>2, <2>1, <3>1, <3>2, <3>3, <3>4, <3>5, <3>6 DEF Spread
    <3>8. k + Rate = n + 1 - i + 1
      BY <1>1, <3>1, <3>6
    <3>9. k + Rate <= Rate * v
      BY <1>1, <3>5, <3>7, WindowsMore
    <3> QED BY <2>1, <2>2, <2>3, <3>8, <3>9
  <2> QED BY <1>1, <2>4, <2>5
<1>4. Spread(more)
  <2> SUFFICES ASSUME NEW i \in 1..(n + 1), NEW j \in 1..(n + 1), i <= j
               PROVE  j - i + 1 <= Rate * (Windows(more[i], more[j]) + 1)
    BY <1>2 DEF Spread
  <2>1. CASE j = n + 1
    BY <1>2, <1>3, <2>1
  <2>2. CASE j \in 1..n
    <3>1. i \in 1..n
      BY <1>1, <2>2
    <3> QED BY <1>2, <2>2, <3>1 DEF Spread
  <2> QED BY <1>1, <2>1, <2>2
<1> QED BY <1>4 DEF more

(* The shards keep the newest times; of the newest Rate they let go only what
   has expired. *)
QueueOK(times, queue, at) ==
  /\ queue \in Seq(Nat) /\ Len(queue) <= Rate /\ Len(queue) <= Len(times)
  /\ \A k \in 1..Len(queue) : queue[k] = times[Len(times) - Len(queue) + k]
  /\ \A i \in 1..(Len(times) - Len(queue)) :
       i + Rate > Len(times) => times[i] + Expiration < at

(* A request goes to the end of the queue, and the oldest one makes room. *)
LEMMA QueueTakes ==
  ASSUME NEW times, NEW until \in Nat, Ordered(times, until), Spread(times),
         NEW queue, QueueOK(times, queue, until), NEW after,
         \/ Len(queue) < Rate /\ after = Append(queue, until)
         \/ /\ Len(queue) >= Rate /\ until - queue[1] >= Duration
            /\ after = Append(Tail(queue), until)
  PROVE  /\ QueueOK(Append(times, until), after, until)
         /\ Spread(Append(times, until))
<1> DEFINE n == Len(times)
           m == Len(queue)
           more == Append(times, until)
<1>1. /\ n \in Nat /\ m \in Nat /\ m <= Rate /\ m <= n /\ queue \in Seq(Nat)
      /\ Rate \in Nat /\ Rate >= 1 /\ Duration \in Nat /\ Duration <= Expiration
      /\ Expiration \in Nat
  BY LimitNumbers, OneMore DEF QueueOK
<1>2. /\ \A i \in 1..n : times[i] \in Nat /\ times[i] <= until
      /\ Len(more) = n + 1 /\ more[n + 1] = until
      /\ \A i \in 1..n : more[i] = times[i]
  BY OneMore
<1>3. /\ \A k \in 1..m : queue[k] = times[n - m + k]
      /\ \A i \in 1..(n - m) : i + Rate > n => times[i] + Expiration < until
  BY DEF QueueOK
<1> HIDE DEF more, n, m
<1>4. CASE Len(queue) < Rate /\ after = Append(queue, until)
  <2>1. /\ after \in Seq(Nat) /\ Len(after) = m + 1 /\ after[m + 1] = until
        /\ \A k \in 1..m : after[k] = queue[k]
    BY <1>1, <1>4 DEF m
  <2>2. ASSUME NEW k \in 1..(m + 1) PROVE after[k] = more[n + 1 - (m + 1) + k]
    <3>1. CASE k \in 1..m
      <4>1. n - m + k \in 1..n /\ n + 1 - (m + 1) + k = n - m + k
        BY <1>1, <3>1
      <4> QED BY <1>2, <1>3, <2>1, <3>1, <4>1
    <3>2. CASE k = m + 1
      <4>1. n + 1 - (m + 1) + k = n + 1
        BY <1>1, <3>2
      <4> QED BY <1>2, <2>1, <3>2, <4>1
    <3> QED BY <1>1, <3>1, <3>2
  <2>3. ASSUME NEW i \in 1..(n + 1 - (m + 1)), i + Rate > n + 1
        PROVE  more[i] + Expiration < until
    <3>1. i \in 1..(n - m) /\ i \in 1..n /\ i + Rate > n
      BY <1>1, <2>3
    <3> QED BY <1>2, <1>3, <3>1
  <2>4. QueueOK(more, after, until)
    <3>1. Len(after) <= Rate /\ Len(after) <= Len(more)
      BY <1>1, <1>2, <1>4, <2>1 DEF m
    <3>2. \A k \in 1..Len(after) : after[k] = more[Len(more) - Len(after) + k]
      BY <1>1, <1>2, <2>1, <2>2
    <3>3. \A i \in 1..(Len(more) - Len(after)) :
            i + Rate > Len(more) => more[i] + Expiration < until
      BY <1>1, <1>2, <2>1, <2>3
    <3> QED BY <2>1, <3>1, <3>2, <3>3 DEF QueueOK
  <2>5. n >= Rate => times[n - Rate + 1] + Duration <= until
    <3> SUFFICES ASSUME n >= Rate PROVE times[n - Rate + 1] + Duration <= until
      OBVIOUS
    <3>1. PICK i \in 1..n : i = n - Rate + 1
      <4>1. n - Rate + 1 \in 1..n
        BY <1>1
      <4> QED BY <4>1
    <3>2. i \in 1..(n - m) /\ i + Rate > n
      BY <1>1, <1>4, <3>1 DEF m
    <3>3. times[i] + Expiration < until /\ times[i] \in Nat
      BY <1>2, <1>3, <3>2
    <3> QED BY <1>1, <3>1, <3>3
  <2> QED BY <2>4, <2>5, SpreadTakes DEF more, n
<1>5. CASE /\ Len(queue) >= Rate /\ until - queue[1] >= Duration
           /\ after = Append(Tail(queue), until)
  <2>0. m = Rate /\ m >= 1
    BY <1>1, <1>5 DEF m
  <2>a. /\ Tail(queue) \in Seq(Nat) /\ Len(Tail(queue)) = m - 1
        /\ \A k \in 1..(m - 1) : Tail(queue)[k] = queue[k + 1]
    BY <1>1, <2>0 DEF m
  <2>1. /\ after \in Seq(Nat) /\ Len(after) = m /\ after[m] = until
        /\ \A k \in 1..(m - 1) : after[k] = queue[k + 1]
    <3> DEFINE rest == Tail(queue)
    <3> HIDE DEF rest
    <3>1. /\ rest \in Seq(Nat) /\ Len(rest) = m - 1 /\ after = Append(rest, until)
          /\ \A k \in 1..(m - 1) : rest[k] = queue[k + 1]
      BY <1>5, <2>a DEF rest
    <3> QED BY <1>1, <2>0, <3>1
  <2>2. ASSUME NEW k \in 1..m PROVE after[k] = more[n + 1 - m + k]
    <3>1. CASE k \in 1..(m - 1)
      <4>1. n - m + (k + 1) \in 1..n /\ n + 1 - m + k = n - m + (k + 1) /\ k + 1 \in 1..m
        BY <1>1, <3>1
      <4> QED BY <1>2, <1>3, <2>1, <3>1, <4>1
    <3>2. CASE k = m
      <4>1. n + 1 - m + k = n + 1
        BY <1>1, <3>2
      <4> QED BY <1>2, <2>1, <3>2, <4>1
    <3> QED BY <1>1, <3>1, <3>2
  <2>3. ASSUME NEW i \in 1..(n + 1 - m), i + Rate > n + 1
        PROVE  more[i] + Expiration < until
    BY <1>1, <2>0, <2>3
  <2>4. QueueOK(more, after, until)
    <3>1. Len(after) <= Rate /\ Len(after) <= Len(more)
      BY <1>1, <1>2, <2>1
    <3>2. \A k \in 1..Len(after) : after[k] = more[Len(more) - Len(after) + k]
      BY <1>1, <1>2, <2>1, <2>2
    <3>3. \A i \in 1..(Len(more) - Len(after)) :
            i + Rate > Len(more) => more[i] + Expiration < until
      BY <1>1, <1>2, <2>1, <2>3
    <3> QED BY <2>1, <3>1, <3>2, <3>3 DEF QueueOK
  <2>5. n >= Rate => times[n - Rate + 1] + Duration <= until
    <3>1. n - m + 1 \in 1..n /\ 1 \in 1..m
      BY <1>1, <2>0
    <3>2. queue[1] = times[n - Rate + 1] /\ queue[1] \in Nat
      BY <1>2, <1>3, <2>0, <3>1
    <3> QED BY <1>1, <1>5, <3>2
  <2> QED BY <2>4, <2>5, SpreadTakes DEF more, n
<1> QED BY <1>4, <1>5

(* The cleanup lets the expired ones go. *)
LEMMA QueueCleaned ==
  ASSUME NEW times, NEW until \in Nat, Ordered(times, until),
         NEW queue, QueueOK(times, queue, until), NEW cutoff \in 1..Len(queue),
         \A i \in 1..cutoff : until - queue[i] > Expiration, NEW after,
         \/ cutoff = Len(queue) /\ after = <<>>
         \/ cutoff < Len(queue) /\ after = SubSeq(queue, cutoff + 1, Len(queue))
  PROVE  QueueOK(times, after, until)
<1> DEFINE n == Len(times)
           m == Len(queue)
<1>1. /\ n \in Nat /\ m \in Nat /\ m <= Rate /\ m <= n /\ queue \in Seq(Nat) /\ cutoff \in Nat
      /\ Rate \in Nat /\ Expiration \in Nat /\ cutoff <= m /\ m - cutoff \in Nat
  BY LimitNumbers, OneMore DEF QueueOK
<1>2. /\ \A k \in 1..m : queue[k] = times[n - m + k]
      /\ \A i \in 1..(n - m) : i + Rate > n => times[i] + Expiration < until
      /\ \A i \in 1..n : times[i] \in Nat /\ times[i] <= until
  BY OneMore DEF QueueOK
<1>3. /\ after \in Seq(Nat) /\ Len(after) = m - cutoff
      /\ \A k \in 1..(m - cutoff) : after[k] = queue[cutoff + k]
  <2>1. CASE cutoff = Len(queue) /\ after = <<>>
    BY <1>1, <2>1
  <2>2. CASE cutoff < Len(queue) /\ after = SubSeq(queue, cutoff + 1, Len(queue))
    BY <1>1, <2>2
  <2> QED BY <2>1, <2>2
<1> HIDE DEF n, m
<1>4. ASSUME NEW k \in 1..(m - cutoff) PROVE after[k] = times[n - (m - cutoff) + k]
  <2>1. cutoff + k \in 1..m /\ n - m + (cutoff + k) = n - (m - cutoff) + k
    BY <1>1
  <2> QED BY <1>2, <1>3, <2>1
<1>5. ASSUME NEW i \in 1..(n - (m - cutoff)), i + Rate > n
      PROVE  times[i] + Expiration < until
  <2>1. CASE i \in 1..(n - m)
    BY <1>2, <1>5, <2>1
  <2>2. CASE i > n - m
    <3>1. PICK c \in 1..cutoff : c = i - (n - m)
      <4>1. i - (n - m) \in 1..cutoff
        BY <1>1, <2>2
      <4> QED BY <4>1
    <3>2. c \in 1..m /\ n - m + c = i /\ i \in 1..n
      BY <1>1, <3>1
    <3>3. queue[c] = times[i] /\ times[i] \in Nat /\ until - queue[c] > Expiration
      BY <1>2, <3>1, <3>2
    <3> QED BY <1>1, <3>3
  <2> QED BY <1>1, <2>1, <2>2
<1>6. Len(after) <= Rate /\ Len(after) <= n
  BY <1>1, <1>3
<1> QED BY <1>3, <1>4, <1>5, <1>6 DEF QueueOK, n

(* Time only makes more of them expired. *)
LEMMA QueueWaits ==
  ASSUME NEW times, NEW queue, NEW until \in Nat, NEW later \in Nat, until <= later,
         Ordered(times, until), QueueOK(times, queue, until)
  PROVE  QueueOK(times, queue, later)
<1>1. Len(times) \in Nat /\ Len(queue) \in Nat /\ Expiration \in Nat
  BY LimitNumbers, OneMore DEF QueueOK
<1>2. \A i \in 1..Len(times) : times[i] \in Nat
  BY OneMore
<1>3. ASSUME NEW i \in 1..(Len(times) - Len(queue)), i + Rate > Len(times)
      PROVE  times[i] + Expiration < later
  <2>1. i \in 1..Len(times) /\ times[i] + Expiration < until
    BY <1>1, <1>3 DEF QueueOK
  <2> QED BY <1>1, <1>2, <2>1
<1> QED BY <1>3 DEF QueueOK

(* Times stay ordered while time goes on. *)
LEMMA OrderedLater ==
  ASSUME NEW times, NEW until \in Nat, NEW later \in Nat, until <= later, Ordered(times, until)
  PROVE  Ordered(times, later)
<1>1. \A i \in 1..Len(times) : times[i] \in Nat /\ times[i] <= later
  BY DEF Ordered
<1> QED BY <1>1 DEF Ordered

-----------------------------------------------------------------------------
(* What is stored under the key, kind by kind, and what it says of the times
   at which requests were let through. *)

LimitTypes ==
  /\ limiter \in Limiters /\ now \in Nat /\ reloads \in Nat
  /\ Ordered(grants, now)

WindowKept ==
  limiter = "window" =>
    /\ WindowSparse(grants, reloads)
    /\ \/ entry = Absent /\ WindowOK(grants, 0, now, reloads)
       \/ \E held, since, used \in Nat :
            /\ entry = [count |-> held, start |-> since, updated |-> used]
            /\ since <= used /\ used <= now /\ WindowOK(grants, held, since, reloads)

CountKept ==
  limiter = "count" =>
    /\ WindowSparse(grants, 0)
    /\ \/ entry = Absent /\ WindowOK(grants, 0, now, 0)
       \/ \E count, since \in Nat :
            /\ entry = [count |-> count, expires |-> since + Duration]
            /\ since <= now /\ now < since + Duration
            /\ WindowOK(grants, Least(count, Rate), since, 0)

BucketKept ==
  limiter = "bucket" =>
    /\ BucketSparse(grants, reloads)
    /\ \/ entry = Absent /\ BucketOK(grants, Burst, now, reloads)
       \/ \E tok, at \in Nat :
            /\ entry = [tokens |-> tok, last |-> at, updated |-> at]
            /\ at <= now /\ BucketOK(grants, tok, at, reloads)

TokenKept ==
  limiter = "token" =>
    /\ BucketSparse(grants, 0)
    /\ \/ entry = Absent /\ BucketOK(grants, Burst, now, 0)
       \/ \E tok, at \in Nat :
            /\ entry = [tokens |-> tok, last |-> at, expires |-> at + ((2 * Burst) \div Rate)]
            /\ at <= now /\ BucketOK(grants, tok, at, 0)

ShardsKept ==
  limiter = "shards" =>
    /\ Spread(grants)
    /\ \/ entry = Absent /\ QueueOK(grants, <<>>, now)
       \/ \E queue : entry = [queue |-> queue] /\ QueueOK(grants, queue, now)

(* No step takes back what was let through, nor time. *)
LEMMA TimesKept ==
  ASSUME LimitTypes, [LimitNext]_limitVars
  PROVE  /\ LimitTypes' /\ limiter' = limiter /\ now' \in Nat /\ now <= now'
         /\ Len(grants) \in Nat
<1>1. Ordered(grants, now) /\ now \in Nat /\ Len(grants) \in Nat
  BY OneMore DEF LimitTypes
<1>2. now <= now /\ now <= now + 1 /\ now + 1 \in Nat
  BY <1>1
<1>3. Ordered(Append(grants, now), now) /\ Ordered(grants, now + 1)
  BY <1>1, <1>2, OneMore, OrderedLater
<1>4. CASE now' = now /\ grants' \in {grants, Append(grants, now)} /\ limiter' = limiter
           /\ reloads' \in {reloads, reloads + 1}
  <2>1. reloads' \in Nat /\ limiter' \in Limiters /\ now' \in Nat
    BY <1>4 DEF LimitTypes
  <2>2. Ordered(grants', now')
    BY <1>1, <1>3, <1>4
  <2> QED BY <1>1, <1>2, <1>4, <2>1, <2>2 DEF LimitTypes
<1>5. CASE now' = now + 1 /\ grants' = grants /\ limiter' = limiter /\ reloads' = reloads
  BY <1>1, <1>2, <1>3, <1>5 DEF LimitTypes
<1>6. CASE UNCHANGED limitVars
  BY <1>4, <1>6 DEF limitVars
<1>7. CASE Ask
  BY <1>4, <1>7 DEF Ask, AskWindow, AskBucket, AskCount, AskToken, AskShards, Grant
<1>8. CASE RemoveExpired \/ ReloadGroups \/ CleanShards
  BY <1>4, <1>8 DEF RemoveExpired, ReloadGroups, CleanShards
<1>9. CASE Tick
  BY <1>5, <1>9 DEF Tick
<1>10. ASSUME NEW a \in Askers, AskerStep(a) PROVE LimitTypes' /\ limiter' = limiter /\ now' = now
  <2>1. now' = now /\ grants' \in {grants, Append(grants, now)} /\ limiter' = limiter
        /\ reloads' = reloads
    BY <1>10 DEF AskerStep, ReadLength, ReadOldest, Push, PushOver, TrimList, AskerGoes, Grant
  <2> QED BY <1>1, <1>2, <1>3, <2>1 DEF LimitTypes
<1> QED BY <1>1, <1>2, <1>6, <1>7, <1>8, <1>9, <1>10 DEF LimitNext

(* A window of one request that begins now, and what stays as it is. *)
LEMMA WindowBegins ==
  ASSUME LimitTypes, NEW x \in Nat, WindowOK(grants, 0, now, x), WindowSparse(grants, x)
  PROVE  /\ WindowOK(Append(grants, now), 1, now, x)
         /\ WindowSparse(Append(grants, now), x)
<1>1. now \in Nat /\ now <= now /\ 0 < Rate /\ Ordered(grants, now) /\ 0 + 1 = 1
  BY LimitNumbers DEF LimitTypes
<1>2. /\ WindowOK(Append(grants, now), 0 + 1, now, x)
      /\ WindowSparse(Append(grants, now), x)
  BY <1>1, WindowTakes
<1> QED BY <1>1, <1>2

(* The window in memory: a request, the cleanup, a reload of the groups, time. *)
LEMMA WindowSteps ==
  ASSUME LimitTypes, WindowKept, limiter = "window", [LimitNext]_limitVars
  PROVE  WindowKept'
<1>0. /\ limiter' = limiter /\ now \in Nat /\ now' \in Nat /\ now <= now' /\ now <= now
      /\ reloads \in Nat /\ reloads + 1 \in Nat /\ Rate \in Nat /\ Rate >= 1
      /\ Duration \in Nat /\ Duration >= 1
      /\ reloads >= reloads /\ reloads + 1 >= reloads + 1 /\ Ordered(grants, now)
      /\ Ordered(grants, now')
  BY TimesKept, LimitNumbers, OrderedLater DEF LimitTypes
<1>1. WindowSparse(grants, reloads)
  BY DEF WindowKept
<1>2. WindowSparse(grants, reloads + 1)
  <2> SUFFICES ASSUME NEW i \in 1..Len(grants), NEW j \in 1..Len(grants), i <= j
               PROVE  j - i + 1 <= Rate * (Windows(grants[i], grants[j]) + 2 + (reloads + 1))
    BY DEF WindowSparse
  <2>1. PICK q \in Nat : q = Windows(grants[i], grants[j])
    <3>1. grants[i] \in Nat /\ grants[j] \in Nat /\ grants[i] <= grants[j]
      BY <1>0 DEF Ordered
    <3> QED BY <3>1, WindowsType
  <2>2. PICK u \in Nat : u = q + 2 + reloads
    BY <1>0
  <2>3. PICK v \in Nat : v = q + 2 + (reloads + 1) /\ u <= v
    BY <1>0, <2>2
  <2>4. j - i + 1 <= Rate * u
    BY <1>1, <2>1, <2>2 DEF WindowSparse
  <2>5. Rate * u <= Rate * v /\ Rate * u \in Nat /\ Rate * v \in Nat
    BY <2>3, RateTimes, RateType
  <2>6. j - i + 1 <= Rate * v
    BY <2>4, <2>5
  <2> QED BY <2>1, <2>3, <2>6
<1>3. PICK held \in Nat, since \in Nat, used \in Nat :
        /\ \/ entry = Absent /\ held = 0 /\ since = now /\ used = now
           \/ entry = [count |-> held, start |-> since, updated |-> used]
        /\ since <= used /\ used <= now /\ WindowOK(grants, held, since, reloads)
  BY <1>0 DEF WindowKept
<1>4. since <= now /\ held <= Rate
  BY <1>0, <1>3 DEF WindowOK
<1>5. [count |-> held, start |-> since, updated |-> used] # Absent
  <2>1. DOMAIN [count |-> held, start |-> since, updated |-> used] # DOMAIN Absent
    BY DEF Absent
  <2> QED BY <2>1
<1>6. CASE AskWindow
  <2>1. grants' = Append(grants, now) /\ now' = now /\ reloads' = reloads
    BY <1>6 DEF AskWindow, Grant
  <2>2. CASE entry' = [count |-> 1, start |-> now, updated |-> now]
             /\ (entry = Absent \/ since + Duration <= now)
    <3>1. WindowOK(grants, 0, now, reloads)
      <4>1. CASE since + Duration <= now
        BY <1>0, <1>3, <1>4, <4>1, WindowEnds
      <4>2. CASE entry = Absent
        BY <1>3, <1>5, <4>2
      <4> QED BY <2>2, <4>1, <4>2
    <3>2. WindowOK(grants', 1, now, reloads) /\ WindowSparse(grants', reloads)
      BY <1>0, <1>1, <2>1, <3>1, WindowBegins
    <3> QED BY <1>0, <2>1, <2>2, <3>2 DEF WindowKept
  <2>3. CASE held + 1 <= Rate /\ entry' = [count |-> held + 1, start |-> since, updated |-> now]
    <3>1. held < Rate
      BY <1>0, <2>3
    <3>2. WindowOK(grants', held + 1, since, reloads) /\ WindowSparse(grants', reloads)
      BY <1>0, <1>1, <1>3, <1>4, <2>1, <3>1, WindowTakes
    <3>3. held + 1 \in Nat
      BY <1>3
    <3> QED BY <1>0, <1>4, <2>1, <2>3, <3>2, <3>3 DEF WindowKept
  <2>4. CASE ~Stored \/ now - entry.start >= Duration
    <3>1. entry' = [count |-> 1, start |-> now, updated |-> now]
      BY <1>6, <2>4 DEF AskWindow
    <3>2. entry = Absent \/ since + Duration <= now
      BY <1>0, <1>3, <2>4 DEF Stored
    <3> QED BY <2>2, <3>1, <3>2
  <2>5. CASE ~(~Stored \/ now - entry.start >= Duration)
    <3>1. entry.count + 1 <= Rate /\ entry' = [entry EXCEPT !.count = @ + 1, !.updated = now]
      BY <1>6, <2>5 DEF AskWindow
    <3>2. entry = [count |-> held, start |-> since, updated |-> used]
      BY <1>3, <2>5 DEF Stored
    <3> QED BY <2>3, <3>1, <3>2
  <2> QED BY <2>4, <2>5
<1>7. CASE RemoveExpired
  <2>1. /\ grants' = grants /\ now' = now /\ reloads' = reloads /\ entry' = Absent
        /\ entry # Absent /\ now - entry.updated > 2 * Duration
    BY <1>7 DEF RemoveExpired, Stored
  <2>2. since + Duration <= now
    BY <1>0, <1>3, <1>4, <2>1
  <2>3. WindowOK(grants, 0, now, reloads)
    BY <1>0, <1>3, <1>4, <2>2, WindowEnds
  <2> QED BY <1>1, <2>1, <2>3 DEF WindowKept
<1>8. CASE ReloadGroups
  <2>1. grants' = grants /\ now' = now /\ reloads' = reloads + 1 /\ entry' = Absent
    BY <1>8 DEF ReloadGroups
  <2>2. WindowOK(grants, 0, now, reloads + 1)
    BY <1>0, <1>3, <1>4, WindowEnds
  <2> QED BY <1>2, <2>1, <2>2 DEF WindowKept
<1>9. CASE Tick
  <2>1. grants' = grants /\ reloads' = reloads /\ entry' = entry
    BY <1>9 DEF Tick
  <2>2. CASE entry = Absent
    <3>1. held = 0 /\ since <= now'
      BY <1>0, <1>3, <1>5, <2>2
    <3>2. WindowOK(grants, 0, now', reloads)
      BY <1>0, <1>3, <3>1, WindowEnds
    <3> QED BY <1>1, <2>1, <2>2, <3>2 DEF WindowKept
  <2>3. CASE entry # Absent
    <3>1. used <= now' /\ entry = [count |-> held, start |-> since, updated |-> used]
      BY <1>0, <1>3, <2>3
    <3> QED BY <1>1, <1>3, <2>1, <3>1 DEF WindowKept
  <2> QED BY <2>2, <2>3
<1>10. CASE UNCHANGED limitVars
  BY <1>10 DEF limitVars, WindowKept
<1> QED BY <1>6, <1>7, <1>8, <1>9, <1>10
        DEF LimitNext, Ask, AskBucket, AskCount, AskToken, AskShards, CleanShards,
            AskerStep, ReadLength, ReadOldest, Push, PushOver, TrimList, AskerGoes

(* The counter in Redis: a request, and the expiration with the time. *)
LEMMA CountSteps ==
  ASSUME LimitTypes, CountKept, limiter = "count", [LimitNext]_limitVars
  PROVE  CountKept'
<1>0. /\ limiter' = limiter /\ now \in Nat /\ now' \in Nat /\ now <= now' /\ now <= now
      /\ 0 \in Nat /\ 0 >= 0 /\ Rate \in Nat /\ Rate >= 1
      /\ Duration \in Nat /\ Duration >= 1 /\ Ordered(grants, now) /\ Ordered(grants, now')
  BY TimesKept, LimitNumbers, OrderedLater DEF LimitTypes
<1>1. WindowSparse(grants, 0)
  BY DEF CountKept
<1>2. Least(0, Rate) = 0 /\ Least(1, Rate) = 1
  BY <1>0 DEF Least
<1>3. PICK count \in Nat, since \in Nat :
        /\ \/ entry = Absent /\ count = 0 /\ since = now
           \/ entry = [count |-> count, expires |-> since + Duration]
        /\ since <= now /\ now < since + Duration
        /\ WindowOK(grants, Least(count, Rate), since, 0)
  BY <1>0, <1>2 DEF CountKept
<1>5. [count |-> count, expires |-> since + Duration] # Absent
  <2>1. DOMAIN [count |-> count, expires |-> since + Duration] # DOMAIN Absent
    BY DEF Absent
  <2> QED BY <2>1
<1>6. CASE AskCount
  <2>1. now' = now
    BY <1>6 DEF AskCount
  <2>2. /\ entry' = [count |-> Least(count + 1, Rate + 1), expires |-> since + Duration]
        /\ IF count + 1 <= Rate THEN grants' = Append(grants, now) ELSE grants' = grants
    <3>1. CASE entry = Absent
      <4>1. count = 0 /\ since = now
        BY <1>3, <1>5, <3>1
      <4> QED BY <1>6, <3>1, <4>1 DEF AskCount, Stored, Grant
    <3>2. CASE entry # Absent
      <4>1. entry = [count |-> count, expires |-> since + Duration]
        BY <1>3, <3>2
      <4> QED BY <1>6, <3>2, <4>1 DEF AskCount, Stored, Grant
    <3> QED BY <3>1, <3>2
  <2>3. PICK next \in Nat : next = Least(count + 1, Rate + 1)
    BY <1>0 DEF Least
  <2>4. CASE count + 1 <= Rate
    <3>1. next = count + 1 /\ Least(count, Rate) = count /\ Least(next, Rate) = count + 1
          /\ count < Rate
      BY <1>0, <2>3, <2>4 DEF Least
    <3>2. WindowOK(grants', count + 1, since, 0) /\ WindowSparse(grants', 0)
      BY <1>0, <1>1, <1>3, <2>2, <2>4, <3>1, WindowTakes
    <3> QED BY <1>0, <1>3, <2>1, <2>2, <2>3, <3>1, <3>2 DEF CountKept
  <2>5. CASE ~(count + 1 <= Rate)
    <3>1. Least(next, Rate) = Rate /\ Least(count, Rate) = Rate
      BY <1>0, <2>3, <2>5 DEF Least
    <3> QED BY <1>0, <1>1, <1>3, <2>1, <2>2, <2>3, <2>5, <3>1 DEF CountKept
  <2> QED BY <2>4, <2>5
<1>7. CASE Tick
  <2>1. /\ grants' = grants /\ now' = now + 1
        /\ entry' = IF entry # Absent /\ entry.expires <= now + 1 THEN Absent ELSE entry
    BY <1>7 DEF Tick, Stored
  <2>2. CASE entry = Absent
    <3>1. Least(count, Rate) = 0 /\ since = now
      BY <1>2, <1>3, <1>5, <2>2
    <3>2. WindowOK(grants, 0, now', 0)
      BY <1>0, <1>3, <3>1, WindowEnds
    <3> QED BY <1>1, <2>1, <2>2, <3>2 DEF CountKept
  <2>3. CASE entry # Absent
    <3>1. entry = [count |-> count, expires |-> since + Duration]
      BY <1>3, <2>3
    <3>2. CASE since + Duration <= now + 1
      <4>1. since <= now'
        BY <1>0, <1>3
      <4>2. WindowOK(grants, 0, now', 0)
        BY <1>0, <1>3, <2>1, <3>2, <4>1, WindowEnds
      <4> QED BY <1>1, <2>1, <2>3, <3>1, <3>2, <4>2 DEF CountKept
    <3>3. CASE ~(since + Duration <= now + 1)
      <4>1. now' < since + Duration /\ since <= now'
        BY <1>0, <1>3, <2>1, <3>3
      <4> QED BY <1>1, <1>3, <2>1, <3>1, <3>3, <4>1 DEF CountKept
    <3> QED BY <3>2, <3>3
  <2> QED BY <2>2, <2>3
<1>8. CASE UNCHANGED limitVars
  BY <1>8 DEF limitVars, CountKept
<1> QED BY <1>6, <1>7, <1>8
        DEF LimitNext, Ask, AskBucket, AskWindow, AskToken, AskShards, CleanShards, RemoveExpired,
            ReloadGroups, AskerStep, ReadLength, ReadOldest, Push, PushOver, TrimList, AskerGoes

(* What a bucket holds after a while. *)
LEMMA FilledType ==
  ASSUME NEW tok \in 0..Burst, NEW at \in Nat, NEW until \in Nat, at <= until
  PROVE  /\ Least(Burst, tok + (until - at) * Rate) \in 0..Burst
         /\ Least(Burst, tok + (until - at) * Rate) <= tok + Rate * (until - at)
         /\ Least(Burst, tok + (until - at) * Rate) < 1 => until = at
<1>1. PICK d \in Nat : d = until - at
  OBVIOUS
<1>2. Rate * d \in Nat /\ (d >= 1 => Rate * d >= 1) /\ d * Rate = Rate * d
  BY LimitNumbers, RateType
<1>3. Burst \in Nat /\ Burst >= 1
  BY LimitNumbers
<1>4. PICK p \in Nat : p = Rate * d /\ p = d * Rate /\ (d >= 1 => p >= 1)
  BY <1>2
<1>5. Least(Burst, tok + p) \in 0..Burst /\ Least(Burst, tok + p) <= tok + p
      /\ (Least(Burst, tok + p) < 1 => p = 0)
  BY <1>3 DEF Least
<1>6. p = 0 => d = 0
  BY <1>4
<1> QED BY <1>1, <1>4, <1>5, <1>6

(* A bucket never holds less than before. *)
LEMMA FilledMore ==
  ASSUME NEW at \in Nat, NEW until \in Nat, at <= until
  PROVE  Rate * (until - at) \in Nat /\ \A tok \in Nat : tok <= tok + Rate * (until - at)
<1>1. PICK d \in Nat : d = until - at
  OBVIOUS
<1>2. PICK p \in Nat : p = Rate * d
  BY RateType
<1> QED BY <1>1, <1>2

(* The bucket in memory: a request, the cleanup, a reload of the groups, time. *)
LEMMA BucketSteps ==
  ASSUME LimitTypes, BucketKept, limiter = "bucket", [LimitNext]_limitVars
  PROVE  BucketKept'
<1>0. /\ limiter' = limiter /\ now \in Nat /\ now' \in Nat /\ now <= now' /\ now <= now
      /\ reloads \in Nat /\ reloads + 1 \in Nat /\ Rate \in Nat /\ Rate >= 1 /\ Burst \in Nat
      /\ Duration \in Nat /\ Duration >= 1 /\ Burst \in 0..Burst /\ Rate <= Burst
      /\ reloads >= reloads /\ reloads + 1 >= reloads + 1 /\ Ordered(grants, now)
      /\ Ordered(grants, now')
  BY TimesKept, LimitNumbers, OrderedLater DEF LimitTypes
<1>1. BucketSparse(grants, reloads)
  BY DEF BucketKept
<1>2. BucketSparse(grants, reloads + 1)
  <2>1. PICK a \in Nat : a = Room(reloads)
    BY <1>0, RoomMore
  <2>2. PICK b \in Nat : b = Room(reloads + 1) /\ b >= a
    <3>1. reloads + 1 >= reloads
      BY <1>0
    <3> QED BY <1>0, <2>1, <3>1, RoomMore
  <2> SUFFICES ASSUME NEW i \in 1..Len(grants), NEW j \in 1..Len(grants), i <= j
               PROVE  j - i + 1 <= b + Rate * (grants[j] - grants[i])
    BY <2>2 DEF BucketSparse
  <2>3. PICK d \in Nat : d = grants[j] - grants[i]
    <3>1. grants[i] \in Nat /\ grants[j] \in Nat /\ grants[i] <= grants[j]
      BY <1>0 DEF Ordered
    <3> QED BY <3>1
  <2>4. PICK p \in Nat : p = Rate * d
    BY <2>3, RateType
  <2>5. j - i + 1 <= a + p
    BY <1>1, <2>1, <2>3, <2>4 DEF BucketSparse
  <2>6. j - i + 1 <= b + p
    BY <2>2, <2>5
  <2> QED BY <2>3, <2>4, <2>6
<1>3. PICK tok \in Nat, at \in Nat :
        /\ \/ entry = Absent /\ tok = Burst /\ at = now
           \/ entry = [tokens |-> tok, last |-> at, updated |-> at]
        /\ at <= now /\ BucketOK(grants, tok, at, reloads)
  BY <1>0 DEF BucketKept
<1>4. tok \in 0..Burst /\ tok <= Burst
  BY <1>0, <1>3 DEF BucketOK
<1>5. [tokens |-> tok, last |-> at, updated |-> at] # Absent
  <2>1. DOMAIN [tokens |-> tok, last |-> at, updated |-> at] # DOMAIN Absent
    BY DEF Absent
  <2> QED BY <2>1
<1>a. CASE AskBucket
  <2>1. now' = now /\ reloads' = reloads
    BY <1>a DEF AskBucket
  <2>2. PICK full \in 0..Burst :
          /\ full <= tok + Rate * (now - at) /\ (full < 1 => now = at)
          /\ full = IF entry # Absent THEN Filled(entry) ELSE Burst
    <3>1. CASE entry = Absent
      <4>1. at = now /\ tok = Burst /\ now - at = 0 /\ Rate * (now - at) = 0
        BY <1>0, <1>3, <1>5, <3>1
      <4>2. Burst <= tok + Rate * (now - at) /\ (Burst < 1 => now = at)
        BY <1>0, <4>1
      <4> QED BY <1>0, <3>1, <4>2
    <3>2. CASE entry # Absent
      <4>1. entry.tokens = tok /\ entry.last = at
        BY <1>3, <3>2
      <4>2. Filled(entry) = Least(Burst, tok + (now - at) * Rate)
        BY <4>1 DEF Filled
      <4> QED BY <1>0, <1>3, <1>4, <3>2, <4>2, FilledType
    <3> QED BY <3>1, <3>2
  <2>3. BucketOK(grants, full, now, reloads)
    BY <1>0, <1>3, <2>2, BucketFills
  <2>4. CASE full >= 1
    <3>1. /\ grants' = Append(grants, now)
          /\ entry' = [tokens |-> full - 1, last |-> now, updated |-> now]
      BY <1>a, <2>2, <2>4 DEF AskBucket, Stored, Grant
    <3>2. BucketOK(grants', full - 1, now, reloads) /\ BucketSparse(grants', reloads)
      BY <1>0, <1>1, <2>3, <2>4, <3>1, BucketTakes
    <3>3. full - 1 \in Nat
      BY <2>4
    <3> QED BY <1>0, <2>1, <3>1, <3>2, <3>3 DEF BucketKept
  <2>5. CASE full < 1
    <3>1. full = 0 /\ at = now
      BY <2>2, <2>5
    <3>2. /\ grants' = grants /\ entry # Absent
          /\ entry' = [entry EXCEPT !.tokens = full, !.last = now]
      BY <1>0, <1>a, <2>2, <2>5 DEF AskBucket, Stored
    <3>3. entry = [tokens |-> tok, last |-> at, updated |-> at]
      BY <1>3, <3>2
    <3>4. entry' = [tokens |-> full, last |-> now, updated |-> now]
      BY <3>1, <3>2, <3>3
    <3>5. full \in Nat /\ BucketOK(grants', full, now, reloads) /\ BucketSparse(grants', reloads)
      BY <1>1, <2>3, <3>1, <3>2
    <3> QED BY <1>0, <2>1, <3>4, <3>5 DEF BucketKept
  <2> QED BY <2>4, <2>5
<1>7. CASE RemoveExpired
  <2>1. /\ grants' = grants /\ now' = now /\ reloads' = reloads /\ entry' = Absent
        /\ entry # Absent /\ now - entry.updated > 2 * Duration
    BY <1>7 DEF RemoveExpired, Stored
  <2>2. now - at >= 2 * Duration
    BY <1>0, <1>3, <2>1
  <2>3. Burst <= tok + Rate * (now - at)
    <3>1. PICK d \in Nat : d = now - at /\ d >= 2 * Duration
      BY <1>0, <1>3, <2>2
    <3>2. PICK e \in Nat : e = 2 * Duration
      BY <1>0
    <3>3. Rate * e <= Rate * d /\ Rate * e \in Nat /\ Rate * d \in Nat
      BY <3>1, <3>2, RateTimes, RateType
    <3>4. Burst <= Rate * e
      <4>1. 2 * Duration * Rate = Rate * e
        BY <1>0, <3>2
      <4> QED BY <4>1, LimitNumbers
    <3> QED BY <1>0, <1>3, <3>1, <3>3, <3>4
  <2>4. BucketOK(grants, Burst, now, reloads)
    BY <1>0, <1>3, <2>3, BucketFills
  <2> QED BY <1>1, <2>1, <2>4 DEF BucketKept
<1>8. CASE ReloadGroups
  <2>1. grants' = grants /\ now' = now /\ reloads' = reloads + 1 /\ entry' = Absent
    BY <1>8 DEF ReloadGroups
  <2>2. BucketOK(grants, Burst, now, reloads + 1)
    BY <1>0, <1>3, BucketFills
  <2> QED BY <1>2, <2>1, <2>2 DEF BucketKept
<1>9. CASE Tick
  <2>1. grants' = grants /\ reloads' = reloads /\ entry' = entry
    BY <1>9 DEF Tick
  <2>2. CASE entry = Absent
    <3>1. tok = Burst /\ at <= now'
      BY <1>0, <1>3, <1>5, <2>2
    <3>2. Burst <= tok + Rate * (now' - at)
      BY <1>0, <3>1, FilledMore
    <3>3. BucketOK(grants, Burst, now', reloads)
      BY <1>0, <1>3, <3>1, <3>2, BucketFills
    <3> QED BY <1>1, <2>1, <2>2, <3>3 DEF BucketKept
  <2>3. CASE entry # Absent
    <3>1. at <= now' /\ entry = [tokens |-> tok, last |-> at, updated |-> at]
      BY <1>0, <1>3, <2>3
    <3> QED BY <1>1, <1>3, <2>1, <3>1 DEF BucketKept
  <2> QED BY <2>2, <2>3
<1>10. CASE UNCHANGED limitVars
  BY <1>10 DEF limitVars, BucketKept
<1> QED BY <1>a, <1>7, <1>8, <1>9, <1>10
        DEF LimitNext, Ask, AskWindow, AskCount, AskToken, AskShards, CleanShards,
            AskerStep, ReadLength, ReadOldest, Push, PushOver, TrimList, AskerGoes

(* The keys in Redis last until the bucket would be full. *)
LEMMA TokensLast ==
  ASSUME NEW at \in Nat, NEW until \in Nat, at + ((2 * Burst) \div Rate) <= until
  PROVE  at <= until /\ Burst <= Rate * (until - at)
<1>1. Rate \in Nat /\ Rate >= 1 /\ Burst \in Nat /\ Rate <= Burst
  BY LimitNumbers
<1>2. PICK ttl \in Nat : ttl = (2 * Burst) \div Rate
  BY <1>1
<1>3. Rate * ttl \in Nat /\ 2 * Burst < Rate * ttl + Rate
  BY <1>1, <1>2
<1>4. Burst <= Rate * ttl
  BY <1>1, <1>3
<1>5. PICK d \in Nat : d = until - at /\ ttl <= d /\ at <= until
  <2>1. until - at \in Nat /\ ttl <= until - at /\ at <= until
    BY <1>2
  <2> QED BY <2>1
<1>6. Rate * ttl <= Rate * d /\ Rate * d \in Nat
  BY <1>5, RateTimes, RateType
<1> QED BY <1>1, <1>3, <1>4, <1>5, <1>6

(* The bucket in Redis: a request, and the expiration with the time. *)
LEMMA TokenSteps ==
  ASSUME LimitTypes, TokenKept, limiter = "token", [LimitNext]_limitVars
  PROVE  TokenKept'
<1>0. /\ limiter' = limiter /\ now \in Nat /\ now' \in Nat /\ now <= now' /\ now <= now
      /\ 0 \in Nat /\ 0 >= 0 /\ Rate \in Nat /\ Rate >= 1 /\ Burst \in Nat
      /\ Burst \in 0..Burst /\ Rate <= Burst /\ Ordered(grants, now) /\ Ordered(grants, now')
  BY TimesKept, LimitNumbers, OrderedLater DEF LimitTypes
<1> DEFINE ttl == (2 * Burst) \div Rate
<1>t. ttl \in Nat
  BY <1>0
<1> HIDE DEF ttl
<1>1. BucketSparse(grants, 0)
  BY DEF TokenKept
<1>3. PICK tok \in Nat, at \in Nat :
        /\ \/ entry = Absent /\ tok = Burst /\ at = now
           \/ entry = [tokens |-> tok, last |-> at, expires |-> at + ttl]
        /\ at <= now /\ BucketOK(grants, tok, at, 0)
  BY <1>0 DEF TokenKept, ttl
<1>4. tok \in 0..Burst /\ tok <= Burst
  BY <1>0, <1>3 DEF BucketOK
<1>5. [tokens |-> tok, last |-> at, expires |-> at + ttl] # Absent
  <2>1. DOMAIN [tokens |-> tok, last |-> at, expires |-> at + ttl] # DOMAIN Absent
    BY DEF Absent
  <2> QED BY <2>1
<1>6. CASE AskToken
  <2>1. now' = now
    BY <1>6 DEF AskToken
  <2>2. PICK full \in 0..Burst :
          /\ full <= tok + Rate * (now - at)
          /\ full = IF entry # Absent THEN Filled(entry) ELSE Burst
    <3>1. CASE entry = Absent
      <4>1. at = now /\ tok = Burst /\ now - at = 0 /\ Rate * (now - at) = 0
        BY <1>0, <1>3, <1>5, <3>1
      <4>2. Burst <= tok + Rate * (now - at)
        BY <1>0, <4>1
      <4> QED BY <1>0, <3>1, <4>2
    <3>2. CASE entry # Absent
      <4>1. entry.tokens = tok /\ entry.last = at
        BY <1>3, <3>2
      <4>2. Filled(entry) = Least(Burst, tok + (now - at) * Rate)
        BY <4>1 DEF Filled
      <4> QED BY <1>0, <1>3, <1>4, <3>2, <4>2, FilledType
    <3> QED BY <3>1, <3>2
  <2>3. BucketOK(grants, full, now, 0)
    BY <1>0, <1>3, <2>2, BucketFills
  <2>4. CASE full >= 1
    <3>1. /\ grants' = Append(grants, now)
          /\ entry' = [tokens |-> full - 1, last |-> now, expires |-> now + ttl]
      BY <1>6, <2>2, <2>4 DEF AskToken, Stored, Grant, ttl
    <3>2. BucketOK(grants', full - 1, now, 0) /\ BucketSparse(grants', 0)
      BY <1>0, <1>1, <2>3, <2>4, <3>1, BucketTakes
    <3>3. full - 1 \in Nat
      BY <2>4
    <3> QED BY <1>0, <2>1, <3>1, <3>2, <3>3 DEF TokenKept, ttl
  <2>5. CASE ~(full >= 1)
    <3>1. /\ grants' = grants
          /\ entry' = [tokens |-> full, last |-> now, expires |-> now + ttl]
      BY <1>6, <2>2, <2>5 DEF AskToken, Stored, ttl
    <3>2. full \in Nat /\ BucketOK(grants', full, now, 0) /\ BucketSparse(grants', 0)
      BY <1>1, <2>3, <3>1
    <3> QED BY <1>0, <2>1, <3>1, <3>2 DEF TokenKept, ttl
  <2> QED BY <2>4, <2>5
<1>7. CASE Tick
  <2>1. /\ grants' = grants /\ now' = now + 1
        /\ entry' = IF entry # Absent /\ entry.expires <= now + 1 THEN Absent ELSE entry
    BY <1>0, <1>7 DEF Tick, Stored
  <2>2. at <= now'
    BY <1>0, <1>3
  <2>3. ASSUME entry' = Absent PROVE BucketOK(grants, Burst, now', 0)
    <3>1. CASE entry = Absent
      <4>1. tok = Burst
        BY <1>3, <1>5, <3>1
      <4>2. Burst <= tok + Rate * (now' - at)
        BY <1>0, <2>2, <4>1, FilledMore
      <4> QED BY <1>0, <1>3, <2>2, <4>2, BucketFills
    <3>2. CASE entry # Absent
      <4>1. at + ttl <= now'
        BY <1>0, <1>3, <2>1, <2>3, <3>2
      <4>2. Burst <= Rate * (now' - at)
        BY <1>0, <4>1, TokensLast DEF ttl
      <4>3. PICK p \in Nat : p = Rate * (now' - at)
        BY <1>0, <2>2, FilledMore
      <4>4. Burst <= tok + Rate * (now' - at)
        <5>1. Burst <= p
          BY <4>2, <4>3
        <5>2. Burst <= tok + p
          BY <1>0, <5>1
        <5> QED BY <4>3, <5>2
      <4> QED BY <1>0, <1>3, <2>2, <4>4, BucketFills
    <3> QED BY <3>1, <3>2
  <2>4. CASE entry' = Absent
    BY <1>1, <2>1, <2>3, <2>4 DEF TokenKept
  <2>5. CASE entry' # Absent
    <3>1. entry' = entry /\ entry # Absent
      BY <2>1, <2>5
    <3>2. entry' = [tokens |-> tok, last |-> at, expires |-> at + ttl]
      BY <1>3, <3>1
    <3> QED BY <1>1, <1>3, <2>1, <2>2, <3>2 DEF TokenKept, ttl
  <2> QED BY <2>4, <2>5
<1>8. CASE UNCHANGED limitVars
  BY <1>8 DEF limitVars, TokenKept
<1> QED BY <1>6, <1>7, <1>8
        DEF LimitNext, Ask, AskBucket, AskWindow, AskCount, AskShards, CleanShards, RemoveExpired,
            ReloadGroups, AskerStep, ReadLength, ReadOldest, Push, PushOver, TrimList, AskerGoes

(* The queues in memory: a request and the cleanup. *)
LEMMA ShardsSteps ==
  ASSUME LimitTypes, ShardsKept, limiter = "shards", [LimitNext]_limitVars
  PROVE  ShardsKept'
<1>0. /\ limiter' = limiter /\ now \in Nat /\ now' \in Nat /\ now <= now'
      /\ Ordered(grants, now) /\ Rate \in Nat /\ Rate >= 1
  BY TimesKept, LimitNumbers DEF LimitTypes
<1>1. Spread(grants)
  BY DEF ShardsKept
<1>2. PICK queue :
        /\ (entry = Absent /\ queue = <<>>) \/ entry = [queue |-> queue]
        /\ QueueOK(grants, queue, now)
  BY <1>0 DEF ShardsKept
<1>3. [queue |-> queue] # Absent
  <2>1. DOMAIN [queue |-> queue] # DOMAIN Absent
    BY DEF Absent
  <2> QED BY <2>1
<1>4. queue = IF Stored THEN entry.queue ELSE <<>>
  BY <1>2, <1>3 DEF Stored
<1>5. CASE AskShards
  <2>1. grants' = Append(grants, now) /\ now' = now
    BY <1>5 DEF AskShards, Grant
  <2>2. PICK after :
          /\ \/ Len(queue) < Rate /\ after = Append(queue, now)
             \/ /\ Len(queue) >= Rate /\ now - queue[1] >= Duration
                /\ after = Append(Tail(queue), now)
          /\ entry' = [queue |-> after]
    BY <1>4, <1>5 DEF AskShards
  <2>3. QueueOK(grants', after, now) /\ Spread(grants')
    BY <1>0, <1>1, <1>2, <2>1, <2>2, QueueTakes
  <2> QED BY <2>1, <2>2, <2>3 DEF ShardsKept
<1>6. CASE CleanShards
  <2>1. /\ grants' = grants /\ now' = now /\ entry = [queue |-> queue] /\ entry.queue = queue
    BY <1>2, <1>6 DEF CleanShards, Stored
  <2>2. PICK cutoff \in 1..Len(queue) :
          /\ \A i \in 1..cutoff : now - queue[i] > Expiration
          /\ IF cutoff = Len(queue) THEN entry' = Absent
             ELSE entry' = [queue |-> SubSeq(queue, cutoff + 1, Len(queue))]
    BY <1>6, <2>1 DEF CleanShards
  <2>3. CASE cutoff = Len(queue)
    <3>1. QueueOK(grants, <<>>, now)
      BY <1>0, <1>2, <2>2, <2>3, QueueCleaned
    <3> QED BY <1>1, <2>1, <2>2, <2>3, <3>1 DEF ShardsKept
  <2>4. CASE cutoff # Len(queue)
    <3>1. cutoff < Len(queue)
      <4>1. Len(queue) \in Nat
        BY <1>2 DEF QueueOK
      <4> QED BY <2>4, <4>1
    <3>2. PICK after : after = SubSeq(queue, cutoff + 1, Len(queue))
      OBVIOUS
    <3>3. QueueOK(grants, after, now)
      BY <1>0, <1>2, <2>2, <3>1, <3>2, QueueCleaned
    <3>4. entry' = [queue |-> after]
      BY <2>2, <2>4, <3>2
    <3> QED BY <1>1, <2>1, <3>3, <3>4 DEF ShardsKept
  <2> QED BY <2>3, <2>4
<1>7. CASE Tick
  <2>1. grants' = grants /\ entry' = entry
    BY <1>7 DEF Tick
  <2>2. QueueOK(grants, queue, now')
    BY <1>0, <1>2, QueueWaits
  <2> QED BY <1>1, <1>2, <2>1, <2>2 DEF ShardsKept
<1>8. CASE UNCHANGED limitVars
  BY <1>8 DEF limitVars, ShardsKept
<1> QED BY <1>5, <1>6, <1>7, <1>8
        DEF LimitNext, Ask, AskBucket, AskWindow, AskCount, AskToken, RemoveExpired,
            ReloadGroups, AskerStep, ReadLength, ReadOldest, Push, PushOver, TrimList, AskerGoes

-----------------------------------------------------------------------------
(* The list, the newest first, and the times at which one asker was let
   through: what of them has not expired the list still holds, at its place or
   before it; and of the newest Rate nothing else in the list is older. *)

Newest(times, k) == times[Len(times) - k + 1]
Fresh(t, at) == t + Expiration > at

Descending(list, at) ==
  /\ list \in Seq(Nat)
  /\ \A i, j \in 1..Len(list) : i <= j => list[j] <= list[i]
  /\ \A i \in 1..Len(list) : list[i] <= at

Covers(list, times, at) ==
  \A k \in 1..Len(times) :
    k <= Rate /\ Fresh(Newest(times, k), at) => k <= Len(list) /\ Newest(times, k) <= list[k]

Above(list, times, at) ==
  Len(times) >= Rate /\ Fresh(Newest(times, Rate), at) =>
    \A i \in 1..Len(list) : Newest(times, Rate) <= list[i]

(* The newest of the times, before and after one is added. *)
LEMMA NewestType ==
  ASSUME NEW times, NEW at \in Nat, Ordered(times, at)
  PROVE  /\ Len(times) \in Nat
         /\ \A k \in 1..Len(times) : Newest(times, k) \in Nat /\ Newest(times, k) <= at
         /\ Len(Append(times, at)) = Len(times) + 1
         /\ Newest(Append(times, at), 1) = at
         /\ \A k \in 1..Len(times) : Newest(Append(times, at), k + 1) = Newest(times, k)
<1>1. /\ Len(times) \in Nat /\ Len(Append(times, at)) = Len(times) + 1
      /\ \A i \in 1..Len(times) : times[i] \in Nat /\ times[i] <= at
      /\ \A i \in 1..Len(times) : Append(times, at)[i] = times[i]
      /\ Append(times, at)[Len(times) + 1] = at
  BY OneMore
<1>2. ASSUME NEW k \in 1..Len(times)
      PROVE  /\ Newest(times, k) \in Nat /\ Newest(times, k) <= at
             /\ Newest(Append(times, at), k + 1) = Newest(times, k)
  <2>1. /\ Len(times) - k + 1 \in 1..Len(times)
        /\ Len(Append(times, at)) - (k + 1) + 1 = Len(times) - k + 1
    BY <1>1
  <2> QED BY <1>1, <2>1 DEF Newest
<1>3. Newest(Append(times, at), 1) = at
  <2>1. Len(Append(times, at)) - 1 + 1 = Len(times) + 1
    BY <1>1
  <2> QED BY <1>1, <2>1 DEF Newest
<1> QED BY <1>1, <1>2, <1>3

(* What is pushed comes first, and the others after it. *)
LEMMA PushedFirst ==
  ASSUME NEW list, NEW at \in Nat, Descending(list, at)
  PROVE  /\ Descending(<<at>> \o list, at)
         /\ Len(list) \in Nat /\ Len(<<at>> \o list) = Len(list) + 1
         /\ (<<at>> \o list)[1] = at
         /\ \A i \in 1..Len(list) : (<<at>> \o list)[i + 1] = list[i]
         /\ \A i \in 1..Len(list) : list[i] \in Nat /\ list[i] <= at
<1> DEFINE more == <<at>> \o list
           n == Len(list)
<1>1. /\ list \in Seq(Nat) /\ n \in Nat /\ \A i \in 1..n : list[i] \in Nat /\ list[i] <= at
      /\ \A i, j \in 1..n : i <= j => list[j] <= list[i]
  BY DEF Descending
<1>2. /\ more \in Seq(Nat) /\ Len(more) = n + 1 /\ more[1] = at
      /\ \A i \in 1..n : more[i + 1] = list[i]
  BY <1>1
<1> HIDE DEF more, n
<1>3. ASSUME NEW i \in 1..(n + 1)
      PROVE  i = 1 \/ \E k \in 1..n : i = k + 1
  <2>1. i = 1 \/ (i - 1 \in 1..n /\ i = (i - 1) + 1)
    BY <1>1
  <2> QED BY <2>1
<1>4. ASSUME NEW i \in 1..(n + 1) PROVE more[i] \in Nat /\ more[i] <= at
  <2>1. CASE i = 1
    <3>1. more[i] = at /\ at <= at
      BY <1>2, <2>1
    <3> QED BY <3>1
  <2>2. CASE \E k \in 1..n : i = k + 1
    BY <1>1, <1>2, <2>2
  <2> QED BY <1>3, <2>1, <2>2
<1>5. ASSUME NEW i \in 1..(n + 1), NEW j \in 1..(n + 1), i <= j PROVE more[j] <= more[i]
  <2>1. CASE i = 1
    BY <1>2, <1>4, <2>1
  <2>2. ASSUME NEW k \in 1..n, i = k + 1 PROVE more[j] <= more[i]
    <3>1. PICK l \in 1..n : j = l + 1
      <4>1. j # 1
        BY <1>5, <2>2
      <4> QED BY <1>3, <4>1
    <3>2. k <= l
      BY <1>5, <2>2, <3>1
    <3> QED BY <1>1, <1>2, <2>2, <3>1, <3>2
  <2> QED BY <1>3, <2>1, <2>2
<1>6. Descending(more, at)
  BY <1>2, <1>4, <1>5 DEF Descending
<1> QED BY <1>1, <1>2, <1>6 DEF more, n

(* A push, by the asker itself or by another one. *)
LEMMA PushCovers ==
  ASSUME NEW list, NEW times, NEW at \in Nat, Descending(list, at), Ordered(times, at),
         Covers(list, times, at)
  PROVE  /\ Covers(<<at>> \o list, Append(times, at), at)
         /\ Covers(<<at>> \o list, times, at)
<1> DEFINE more == <<at>> \o list
           n == Len(list)
           m == Len(times)
           news == Append(times, at)
<1>1. /\ n \in Nat /\ Len(more) = n + 1 /\ more[1] = at
      /\ \A i \in 1..n : more[i + 1] = list[i]
      /\ \A i \in 1..n : list[i] \in Nat /\ list[i] <= at
      /\ \A i, j \in 1..(n + 1) : i <= j => more[j] <= more[i]
  BY PushedFirst DEF Descending
<1>2. /\ m \in Nat /\ Len(news) = m + 1 /\ Newest(news, 1) = at
      /\ \A k \in 1..m : Newest(times, k) \in Nat /\ Newest(times, k) <= at
      /\ \A k \in 1..m : Newest(news, k + 1) = Newest(times, k)
  BY NewestType
<1>0. Rate \in Nat /\ at <= at
  BY LimitNumbers
<1> HIDE DEF more, n, m, news
<1>3. ASSUME NEW k \in 1..m, k <= Rate, Fresh(Newest(times, k), at)
      PROVE  k \in 1..n /\ Newest(times, k) <= list[k]
  <2>1. k <= n /\ Newest(times, k) <= list[k]
    BY <1>3 DEF Covers, n, m
  <2> QED BY <2>1
<1>4. Covers(more, news, at)
  <2> SUFFICES ASSUME NEW k \in 1..(m + 1), k <= Rate, Fresh(Newest(news, k), at)
               PROVE  k <= n + 1 /\ Newest(news, k) <= more[k]
    BY <1>1, <1>2 DEF Covers
  <2>1. CASE k = 1
    BY <1>0, <1>1, <1>2, <2>1
  <2>2. CASE k # 1
    <3>1. PICK l \in 1..m : k = l + 1 /\ l <= Rate
      <4>1. k - 1 \in 1..m /\ k = (k - 1) + 1 /\ k - 1 <= Rate
        BY <1>0, <1>2, <2>2
      <4> QED BY <4>1
    <3>2. l \in 1..n /\ Newest(times, l) <= list[l]
      BY <1>2, <1>3, <3>1
    <3> QED BY <1>1, <1>2, <3>1, <3>2
  <2> QED BY <2>1, <2>2
<1>5. Covers(more, times, at)
  <2> SUFFICES ASSUME NEW k \in 1..m, k <= Rate, Fresh(Newest(times, k), at)
               PROVE  k <= n + 1 /\ Newest(times, k) <= more[k]
    BY <1>1 DEF Covers, m
  <2>1. k \in 1..n /\ Newest(times, k) <= list[k] /\ Newest(times, k) \in Nat
    BY <1>2, <1>3
  <2>2. k \in 1..(n + 1) /\ k + 1 \in 1..(n + 1) /\ k <= k + 1
    BY <1>1, <2>1
  <2>3. list[k] <= more[k] /\ list[k] \in Nat
    BY <1>1, <2>1, <2>2
  <2>4. more[k] \in Nat
    <3>1. k = 1 \/ (k - 1 \in 1..n /\ k = (k - 1) + 1)
      BY <1>1, <2>1
    <3> QED BY <1>1, <3>1
  <2> QED BY <2>1, <2>2, <2>3, <2>4
<1> QED BY <1>4, <1>5 DEF more, news

(* What is pushed is not older than any time. *)
LEMMA PushAbove ==
  ASSUME NEW list, NEW times, NEW at \in Nat, Descending(list, at), Ordered(times, at),
         Above(list, times, at)
  PROVE  Above(<<at>> \o list, times, at)
<1> SUFFICES ASSUME Len(times) >= Rate, Fresh(Newest(times, Rate), at),
                    NEW i \in 1..Len(<<at>> \o list)
             PROVE  Newest(times, Rate) <= (<<at>> \o list)[i]
  BY DEF Above
<1>1. /\ Len(list) \in Nat /\ Len(<<at>> \o list) = Len(list) + 1
      /\ (<<at>> \o list)[1] = at
      /\ \A k \in 1..Len(list) : (<<at>> \o list)[k + 1] = list[k]
  BY PushedFirst
<1>2. Newest(times, Rate) <= at
  <2>1. Rate \in 1..Len(times)
    BY LimitNumbers, NewestType
  <2> QED BY <2>1, NewestType
<1>3. i = 1 \/ (i - 1 \in 1..Len(list) /\ i = (i - 1) + 1)
  BY <1>1
<1>4. \A k \in 1..Len(list) : Newest(times, Rate) <= list[k]
  BY DEF Above
<1> QED BY <1>1, <1>2, <1>3, <1>4

(* The trim. *)
Trimmed(list) == SubSeq(list, 1, Least(Rate, Len(list)))

(* A trim keeps the first Rate of the list, *)
LEMMA TrimmedType ==
  ASSUME NEW list, NEW at \in Nat, Descending(list, at)
  PROVE  /\ Descending(Trimmed(list), at) /\ Len(list) \in Nat
         /\ Len(Trimmed(list)) = Least(Rate, Len(list))
         /\ \A i \in 1..Len(Trimmed(list)) :
              i <= Rate /\ i <= Len(list) /\ Trimmed(list)[i] = list[i]
         /\ \A i \in 1..Len(list) : i <= Rate => i <= Len(Trimmed(list))
<1>1. /\ list \in Seq(Nat) /\ Len(list) \in Nat /\ Rate \in Nat
      /\ \A i \in 1..Len(list) : list[i] \in Nat /\ list[i] <= at
  BY LimitNumbers DEF Descending
<1>2. PICK n \in Nat : n = Least(Rate, Len(list)) /\ n <= Rate /\ n <= Len(list)
                       /\ \A i \in Nat : i <= Rate /\ i <= Len(list) => i <= n
  BY <1>1 DEF Least
<1>3. /\ Trimmed(list) \in Seq(Nat) /\ Len(Trimmed(list)) = n
      /\ \A i \in 1..n : Trimmed(list)[i] = list[i]
  BY <1>1, <1>2 DEF Trimmed
<1>4. \A i \in 1..n : i \in 1..Len(list) /\ i <= Rate
  BY <1>1, <1>2
<1>5. Descending(Trimmed(list), at)
  BY <1>1, <1>3, <1>4 DEF Descending
<1> QED BY <1>1, <1>2, <1>3, <1>4, <1>5

(* and with them what each asker counts on. *)
LEMMA TrimKeeps ==
  ASSUME NEW list, NEW times, NEW at \in Nat, Descending(list, at), Ordered(times, at),
         Covers(list, times, at)
  PROVE  /\ Covers(Trimmed(list), times, at)
         /\ Above(Trimmed(list), times, at)
         /\ \A more : Above(list, more, at) => Above(Trimmed(list), more, at)
<1>1. /\ Len(list) \in Nat /\ Len(times) \in Nat /\ Rate \in Nat /\ Rate >= 1
      /\ Len(Trimmed(list)) \in Nat
      /\ \A i \in 1..Len(list) : list[i] \in Nat
      /\ \A k \in 1..Len(times) : Newest(times, k) \in Nat
  BY TrimmedType, LimitNumbers, NewestType DEF Descending
<1>2. /\ \A i \in 1..Len(Trimmed(list)) :
           i <= Rate /\ i \in 1..Len(list) /\ Trimmed(list)[i] = list[i]
      /\ \A i \in 1..Len(list) : i <= Rate => i \in 1..Len(Trimmed(list))
  BY <1>1, TrimmedType
<1>3. Covers(Trimmed(list), times, at)
  <2> SUFFICES ASSUME NEW k \in 1..Len(times), k <= Rate, Fresh(Newest(times, k), at)
               PROVE  k <= Len(Trimmed(list)) /\ Newest(times, k) <= Trimmed(list)[k]
    BY DEF Covers
  <2>1. k \in 1..Len(list) /\ Newest(times, k) <= list[k]
    BY DEF Covers
  <2> QED BY <1>2, <2>1
<1>4. Above(Trimmed(list), times, at)
  <2> SUFFICES ASSUME Len(times) >= Rate, Fresh(Newest(times, Rate), at),
                      NEW i \in 1..Len(Trimmed(list))
               PROVE  Newest(times, Rate) <= Trimmed(list)[i]
    BY DEF Above
  <2>1. Rate \in 1..Len(times) /\ Rate <= Rate
    BY <1>1
  <2>2. Rate <= Len(list) /\ Newest(times, Rate) <= list[Rate]
    BY <2>1 DEF Covers
  <2>3. Rate \in 1..Len(list) /\ i \in 1..Len(list) /\ i <= Rate /\ Trimmed(list)[i] = list[i]
    BY <1>1, <1>2, <2>2
  <2>4. list[Rate] <= list[i]
    BY <2>3 DEF Descending
  <2> QED BY <1>1, <2>1, <2>2, <2>3, <2>4
<1>5. \A more : Above(list, more, at) => Above(Trimmed(list), more, at)
  BY <1>2 DEF Above
<1> QED BY <1>3, <1>4, <1>5

(* Time, and the expiration of the whole list. *)
LEMMA FreshBefore ==
  ASSUME NEW t \in Nat, NEW at \in Nat, NEW later \in Nat, at <= later, Fresh(t, later)
  PROVE  Fresh(t, at)
BY LimitNumbers DEF Fresh

(* As time goes on there is less to hold, *)
LEMMA WaitKeeps ==
  ASSUME NEW list, NEW times, NEW at \in Nat, NEW later \in Nat, at <= later, Ordered(times, at)
  PROVE  /\ Covers(list, times, at) => Covers(list, times, later)
         /\ Above(list, times, at) => Above(list, times, later)
<1>1. \A k \in 1..Len(times) : Fresh(Newest(times, k), later) => Fresh(Newest(times, k), at)
  BY NewestType, FreshBefore
<1>2. Len(times) >= Rate => Rate \in 1..Len(times)
  BY LimitNumbers, NewestType
<1> QED BY <1>1, <1>2 DEF Covers, Above

(* and nothing once the list has expired. *)
LEMMA ExpireKeeps ==
  ASSUME NEW times, NEW at \in Nat, Ordered(times, at), NEW later \in Nat,
         \A i \in 1..Len(times) : times[i] + Expiration <= later
  PROVE  Covers(<<>>, times, later) /\ Above(<<>>, times, later)
<1>1. \A k \in 1..Len(times) : Len(times) - k + 1 \in 1..Len(times)
  BY NewestType
<1>2. \A k \in 1..Len(times) : ~Fresh(Newest(times, k), later)
  BY <1>1, LimitNumbers, NewestType DEF Fresh, Newest
<1>3. Above(<<>>, times, later)
  BY DEF Above
<1> QED BY <1>2, <1>3 DEF Covers

(* A short list leaves room for one more, *)
LEMMA ShortList ==
  ASSUME NEW list, NEW times, NEW at \in Nat, Descending(list, at), Ordered(times, at),
         Covers(list, times, at), Spread(times), Len(list) < Rate
  PROVE  Spread(Append(times, at)) /\ Above(list, Append(times, at), at)
<1>1. /\ Rate \in Nat /\ Rate >= 1 /\ Duration \in Nat /\ Expiration \in Nat
      /\ Duration <= Expiration /\ Len(times) \in Nat /\ Len(list) \in Nat
      /\ \A k \in 1..Len(times) : Newest(times, k) \in Nat /\ Newest(times, k) <= at
  BY LimitNumbers, NewestType DEF Descending
<1>2. Len(times) >= Rate => times[Len(times) - Rate + 1] + Duration <= at
  <2> SUFFICES ASSUME Len(times) >= Rate PROVE Newest(times, Rate) + Duration <= at
    BY DEF Newest
  <2>1. Rate \in 1..Len(times) /\ Rate <= Rate /\ ~(Rate <= Len(list))
    BY <1>1
  <2>2. ~Fresh(Newest(times, Rate), at)
    BY <2>1 DEF Covers
  <2> QED BY <1>1, <2>1, <2>2 DEF Fresh
<1>3. Spread(Append(times, at))
  BY <1>2, SpreadTakes
<1>4. Above(list, Append(times, at), at)
  <2> SUFFICES ASSUME Len(Append(times, at)) >= Rate, Fresh(Newest(Append(times, at), Rate), at),
                      NEW i \in 1..Len(list)
               PROVE  Newest(Append(times, at), Rate) <= list[i]
    BY DEF Above
  <2>1. PICK k \in 1..Len(times) : Rate = k + 1
    <3>1. Rate - 1 \in 1..Len(times) /\ Rate = (Rate - 1) + 1
      BY <1>1, NewestType
    <3> QED BY <3>1
  <2>2. Newest(Append(times, at), Rate) = Newest(times, k)
    BY <2>1, NewestType
  <2>3. k <= Len(list) /\ Newest(times, k) <= list[k]
    <3>1. k <= Rate
      BY <2>1
    <3> QED BY <2>2, <3>1 DEF Covers
  <2>4. k \in 1..Len(list) /\ i <= k
    BY <1>1, <2>1, <2>3
  <2>5. list[k] <= list[i] /\ list[k] \in Nat /\ list[i] \in Nat
    BY <2>4 DEF Descending
  <2> QED BY <1>1, <2>2, <2>3, <2>5
<1> QED BY <1>3, <1>4

(* and so does one whose last is old. *)
LEMMA OldList ==
  ASSUME NEW list, NEW times, NEW at \in Nat, Descending(list, at), Ordered(times, at),
         Above(list, times, at), Spread(times), Len(list) >= 1,
         at - list[Len(list)] >= Duration
  PROVE  Spread(Append(times, at))
<1>1. /\ Rate \in Nat /\ Rate >= 1 /\ Duration \in Nat /\ Expiration \in Nat
      /\ Duration <= Expiration /\ Len(times) \in Nat
      /\ \A k \in 1..Len(times) : Newest(times, k) \in Nat /\ Newest(times, k) <= at
      /\ Len(list) \in 1..Len(list) /\ list[Len(list)] \in Nat
  BY LimitNumbers, NewestType DEF Descending
<1>2. Len(times) >= Rate => times[Len(times) - Rate + 1] + Duration <= at
  <2> SUFFICES ASSUME Len(times) >= Rate PROVE Newest(times, Rate) + Duration <= at
    BY DEF Newest
  <2>1. Rate \in 1..Len(times)
    BY <1>1
  <2>2. CASE Fresh(Newest(times, Rate), at)
    <3>1. Newest(times, Rate) <= list[Len(list)]
      BY <1>1, <2>2 DEF Above
    <3> QED BY <1>1, <2>1, <3>1
  <2>3. CASE ~Fresh(Newest(times, Rate), at)
    BY <1>1, <2>1, <2>3 DEF Fresh
  <2> QED BY <2>2, <2>3
<1> QED BY <1>2, SpreadTakes

-----------------------------------------------------------------------------
(* What the steps of the askers keep. *)

AskerSteps == {"idle", "push", "oldest", "roll", "trim"}

ListedWell ==
  \/ entry = Absent
  \/ \E list : \E expires \in Nat :
       /\ entry = [list |-> list, expires |-> expires]
       /\ Descending(list, now) /\ Len(list) >= 1

(* The asker's times, with the one that it is sure to add. *)
Counted(times, a) == IF asker[a] \in {"push", "roll"} THEN Append(times, now) ELSE times

AskerKept(times, a) ==
  /\ Ordered(times, now) /\ Covers(Listed, times, now)
  /\ Spread(Counted(times, a))
  /\ asker[a] \in {"idle", "push", "oldest"} => Above(Listed, Counted(times, a), now)
  /\ Stored => \A i \in 1..Len(times) : times[i] + Expiration <= entry.expires
  /\ asker[a] = "oldest" => Stored

(* Each request that was let through is one of one asker's. *)
Placed(times, own, by, nth) ==
  /\ own \in [Askers -> Seq(Nat)] /\ by \in Seq(Askers) /\ nth \in Seq(Nat)
  /\ Len(by) = Len(times) /\ Len(nth) = Len(times)
  /\ \A i \in 1..Len(times) :
       nth[i] \in 1..Len(own[by[i]]) /\ own[by[i]][nth[i]] = times[i]
  /\ \A i, j \in 1..Len(times) : by[i] = by[j] /\ nth[i] = nth[j] => i = j

ListKept ==
  limiter = "list" =>
    /\ asker \in [Askers -> AskerSteps] /\ ListedWell
    /\ \E own, by, nth : Placed(grants, own, by, nth) /\ \A a \in Askers : AskerKept(own[a], a)

(* The list is empty or stored. *)
LEMMA ListedType ==
  ASSUME LimitTypes, ListedWell
  PROVE  /\ Descending(Listed, now) /\ Len(Listed) \in Nat
         /\ Stored <=> Len(Listed) >= 1
         /\ ~Stored => Listed = <<>>
         /\ Stored => Listed = entry.list
<1>1. CASE entry = Absent
  <2>1. Listed = <<>> /\ ~Stored
    BY <1>1 DEF Listed, Stored
  <2>2. Descending(<<>>, now) /\ Len(<<>>) = 0
    BY DEF Descending
  <2> QED BY <2>1, <2>2
<1>2. ASSUME NEW list, NEW expires \in Nat, entry = [list |-> list, expires |-> expires],
             Descending(list, now), Len(list) >= 1
      PROVE  /\ Descending(Listed, now) /\ Len(Listed) \in Nat
             /\ Stored /\ Len(Listed) >= 1 /\ Listed = entry.list
  <2>1. entry # Absent
    <3>1. DOMAIN entry # DOMAIN Absent
      BY <1>2 DEF Absent
    <3> QED BY <3>1
  <2>2. Stored /\ Listed = list /\ entry.list = list
    BY <1>2, <2>1 DEF Stored, Listed
  <2> QED BY <1>2, <2>2 DEF Descending
<1> QED BY <1>1, <1>2 DEF ListedWell

(* Another time is let through by an asker. *)
LEMMA PlaceOne ==
  ASSUME NEW times, NEW at \in Nat, Ordered(times, at),
         NEW own, NEW by, NEW nth, Placed(times, own, by, nth), NEW a \in Askers
  PROVE  \E news, bys, nths :
           /\ news = [own EXCEPT ![a] = Append(own[a], at)]
           /\ Placed(Append(times, at), news, bys, nths)
<1> DEFINE news == [own EXCEPT ![a] = Append(own[a], at)]
           n == Len(times)
           m == Len(own[a])
           more == Append(times, at)
           bys == Append(by, a)
           nths == Append(nth, m + 1)
<1>1. /\ own \in [Askers -> Seq(Nat)] /\ own[a] \in Seq(Nat) /\ m \in Nat /\ n \in Nat
      /\ by \in Seq(Askers) /\ nth \in Seq(Nat) /\ Len(by) = n /\ Len(nth) = n
      /\ \A i \in 1..n : by[i] \in Askers /\ nth[i] \in Nat
  BY OneMore DEF Placed
<1>2. /\ Len(more) = n + 1 /\ more[n + 1] = at /\ \A i \in 1..n : more[i] = times[i]
  BY OneMore
<1>3. /\ bys \in Seq(Askers) /\ Len(bys) = n + 1 /\ bys[n + 1] = a
      /\ \A i \in 1..n : bys[i] = by[i]
  BY <1>1
<1>4. /\ nths \in Seq(Nat) /\ Len(nths) = n + 1 /\ nths[n + 1] = m + 1
      /\ \A i \in 1..n : nths[i] = nth[i]
  <2>1. m + 1 \in Nat
    BY <1>1
  <2> QED BY <1>1, <2>1
<1>5. /\ Append(own[a], at) \in Seq(Nat) /\ Len(Append(own[a], at)) = m + 1
      /\ Append(own[a], at)[m + 1] = at
      /\ \A k \in 1..m : Append(own[a], at)[k] = own[a][k]
  BY <1>1
<1>6. /\ news \in [Askers -> Seq(Nat)] /\ news[a] = Append(own[a], at)
      /\ \A b \in Askers : b # a => news[b] = own[b]
  BY <1>1, <1>5
<1>7. /\ \A i \in 1..n : nth[i] \in 1..Len(own[by[i]]) /\ own[by[i]][nth[i]] = times[i]
      /\ \A i, j \in 1..n : by[i] = by[j] /\ nth[i] = nth[j] => i = j
  BY DEF Placed
<1> HIDE DEF news, bys, nths, more
<1>8. ASSUME NEW i \in 1..(n + 1)
      PROVE  nths[i] \in 1..Len(news[bys[i]]) /\ news[bys[i]][nths[i]] = more[i]
  <2>1. CASE i = n + 1
    BY <1>1, <1>2, <1>3, <1>4, <1>5, <1>6, <2>1
  <2>2. CASE i \in 1..n
    <3>1. CASE by[i] = a
      <4>1. bys[i] = a /\ nths[i] = nth[i] /\ nth[i] \in 1..m /\ own[a][nth[i]] = times[i]
        BY <1>3, <1>4, <1>7, <2>2, <3>1
      <4>2. nth[i] \in 1..(m + 1)
        BY <1>1, <4>1
      <4> QED BY <1>2, <1>5, <1>6, <2>2, <4>1, <4>2
    <3>2. CASE by[i] # a
      <4>1. bys[i] = by[i] /\ nths[i] = nth[i] /\ news[by[i]] = own[by[i]]
        BY <1>1, <1>3, <1>4, <1>6, <2>2, <3>2
      <4> QED BY <1>2, <1>7, <2>2, <4>1
    <3> QED BY <3>1, <3>2
  <2>3. i = n + 1 \/ i \in 1..n
    BY <1>1
  <2> QED BY <2>1, <2>2, <2>3
<1>9. ASSUME NEW i \in 1..n PROVE ~(bys[i] = bys[n + 1] /\ nths[i] = nths[n + 1])
  <2> SUFFICES ASSUME bys[i] = bys[n + 1] PROVE nths[i] # nths[n + 1]
    OBVIOUS
  <2>1. by[i] = a
    BY <1>3
  <2>2. nth[i] \in 1..m
    BY <1>7, <2>1
  <2> QED BY <1>1, <1>4, <2>2
<1>10. ASSUME NEW i \in 1..(n + 1), NEW j \in 1..(n + 1), bys[i] = bys[j], nths[i] = nths[j]
       PROVE  i = j
  <2>1. (i = n + 1 \/ i \in 1..n) /\ (j = n + 1 \/ j \in 1..n)
    BY <1>1
  <2>2. CASE i \in 1..n /\ j \in 1..n
    BY <1>3, <1>4, <1>7, <1>10, <2>2
  <2>3. CASE ~(i \in 1..n /\ j \in 1..n)
    BY <1>9, <1>10, <2>1, <2>3
  <2> QED BY <2>2, <2>3
<1>11. Placed(more, news, bys, nths)
  BY <1>2, <1>3, <1>4, <1>6, <1>8, <1>10 DEF Placed
<1> QED BY <1>11 DEF news, more

(* What an asker counts on stays while nothing changes under it. *)
LEMMA UnmovedKept ==
  ASSUME NEW times, NEW b, AskerKept(times, b), now' = now, asker'[b] = asker[b],
         \/ entry' = entry
         \/ /\ Stored /\ Stored' /\ Listed' = Listed /\ entry'.expires = now + Expiration
            /\ LimitTypes
  PROVE  AskerKept(times, b)'
<1>1. CASE entry' = entry
  <2>1. Listed' = Listed /\ (Stored' <=> Stored)
    BY <1>1 DEF Listed, Stored
  <2> QED BY <1>1, <2>1 DEF AskerKept, Counted
<1>2. CASE /\ Stored /\ Stored' /\ Listed' = Listed /\ entry'.expires = now + Expiration
           /\ LimitTypes
  <2>1. \A i \in 1..Len(times) : times[i] + Expiration <= entry'.expires
    <3>1. Ordered(times, now) /\ now \in Nat
      BY <1>2 DEF AskerKept, LimitTypes
    <3>2. \A i \in 1..Len(times) : times[i] \in Nat /\ times[i] <= now
      BY <3>1, OneMore
    <3> QED BY <1>2, <3>1, <3>2, LimitNumbers
  <2> QED BY <1>2, <2>1 DEF AskerKept, Counted
<1> QED BY <1>1, <1>2

(* The time that an asker is sure to add comes last. *)
LEMMA CountedType ==
  ASSUME LimitTypes, NEW times, NEW b, Ordered(times, now)
  PROVE  Ordered(Counted(times, b), now)
BY OneMore DEF Counted, LimitTypes

(* A push. *)
LEMMA PushedKept ==
  ASSUME LimitTypes, ListedWell, now' = now, PushNow
  PROVE  /\ ListedWell'
         /\ \A times, b :
              AskerKept(times, b) /\ asker'[b] = asker[b] => AskerKept(times, b)'
         /\ \A times, b :
              /\ AskerKept(times, b) /\ asker[b] \in {"push", "roll"}
              /\ asker'[b] = IF asker[b] = "push" THEN "idle" ELSE "trim"
              => AskerKept(Append(times, now), b)'
<1>1. /\ Descending(Listed, now) /\ Len(Listed) \in Nat /\ now \in Nat /\ Expiration \in Nat
  BY ListedType, LimitNumbers DEF LimitTypes
<1>2. PICK list : list = <<now>> \o Listed
  OBVIOUS
<1>3. Descending(list, now) /\ Len(list) >= 1
  BY <1>1, <1>2, PushedFirst
<1>4. entry' = [list |-> list, expires |-> now + Expiration]
  BY <1>2 DEF PushNow
<1>5. ListedWell'
  <2>1. now + Expiration \in Nat
    BY <1>1
  <2> QED BY <1>3, <1>4, <2>1 DEF ListedWell
<1>6. Stored' /\ Listed' = list /\ entry'.expires = now + Expiration
  <2>1. entry' # Absent
    <3>1. DOMAIN entry' # DOMAIN Absent
      BY <1>4 DEF Absent
    <3> QED BY <3>1
  <2> QED BY <1>4, <2>1 DEF Stored, Listed, Absent
<1>7. ASSUME NEW times, NEW b, AskerKept(times, b), asker'[b] = asker[b]
      PROVE  AskerKept(times, b)'
  <2>1. /\ Ordered(times, now) /\ Covers(Listed, times, now) /\ Spread(Counted(times, b))
        /\ asker[b] \in {"idle", "push", "oldest"} => Above(Listed, Counted(times, b), now)
    BY <1>7 DEF AskerKept
  <2>2. Covers(list, times, now)
    BY <1>1, <1>2, <2>1, PushCovers
  <2>3. Above(Listed, Counted(times, b), now) => Above(list, Counted(times, b), now)
    <3>1. PICK more : more = Counted(times, b)
      OBVIOUS
    <3>2. Ordered(more, now)
      BY <2>1, <3>1, CountedType
    <3> QED BY <1>1, <1>2, <3>1, <3>2, PushAbove
  <2>4. Counted(times, b)' = Counted(times, b)
    BY <1>7 DEF Counted
  <2>5. \A i \in 1..Len(times) : times[i] + Expiration <= now + Expiration
    <3>1. \A i \in 1..Len(times) : times[i] \in Nat /\ times[i] <= now
      BY <1>1, <2>1, OneMore
    <3> QED BY <1>1, <3>1
  <2> QED BY <1>6, <1>7, <2>1, <2>2, <2>3, <2>4, <2>5 DEF AskerKept
<1>8. ASSUME NEW times, NEW b, AskerKept(times, b), asker[b] \in {"push", "roll"},
             asker'[b] = IF asker[b] = "push" THEN "idle" ELSE "trim"
      PROVE  AskerKept(Append(times, now), b)'
  <2>1. PICK more : more = Append(times, now)
    OBVIOUS
  <2>2. /\ Ordered(times, now) /\ Covers(Listed, times, now) /\ Spread(more)
        /\ asker[b] = "push" => Above(Listed, more, now)
    BY <1>8, <2>1 DEF AskerKept, Counted
  <2>3. Ordered(more, now) /\ Covers(list, more, now)
    BY <1>1, <1>2, <2>1, <2>2, OneMore, PushCovers
  <2>4. asker[b] = "push" => Above(list, more, now)
    BY <1>1, <1>2, <2>2, <2>3, PushAbove
  <2>5. asker'[b] \in {"idle", "trim"} /\ (asker'[b] = "idle" => asker[b] = "push")
    BY <1>8
  <2>6. Counted(more, b)' = more
    BY <2>5 DEF Counted
  <2>7. \A i \in 1..Len(more) : more[i] + Expiration <= now + Expiration
    <3>1. \A i \in 1..Len(more) : more[i] \in Nat /\ more[i] <= now
      BY <1>1, <2>3, OneMore
    <3> QED BY <1>1, <3>1
  <2>8. AskerKept(more, b)'
    BY <1>6, <2>2, <2>3, <2>4, <2>5, <2>6, <2>7 DEF AskerKept
  <2> QED BY <2>1, <2>8
<1> QED BY <1>5, <1>7, <1>8

(* A trim. *)
LEMMA TrimmedKept ==
  ASSUME LimitTypes, ListedWell, now' = now,
         entry' = IF Stored THEN [list |-> Trimmed(Listed), expires |-> now + Expiration] ELSE entry
  PROVE  /\ ListedWell'
         /\ \A times, b :
              AskerKept(times, b) /\ asker'[b] = asker[b] => AskerKept(times, b)'
         /\ \A times, b :
              AskerKept(times, b) /\ asker[b] = "trim" /\ asker'[b] = "idle" => AskerKept(times, b)'
<1>1. /\ Descending(Listed, now) /\ Len(Listed) \in Nat /\ now \in Nat /\ Expiration \in Nat
      /\ Rate \in Nat /\ Rate >= 1
  BY ListedType, LimitNumbers DEF LimitTypes
<1>2. /\ ListedWell' /\ (Stored' <=> Stored) /\ Listed' = Trimmed(Listed)
      /\ Stored => entry'.expires = now + Expiration
  <2>1. CASE Stored
    <3>1. PICK list : list = Trimmed(Listed)
      OBVIOUS
    <3>2. Descending(list, now) /\ Len(list) >= 1
      <4>1. Len(Listed) >= 1
        BY <2>1, ListedType
      <4> QED BY <1>1, <3>1, <4>1, TrimmedType DEF Least
    <3>3. entry' = [list |-> list, expires |-> now + Expiration]
      BY <2>1, <3>1
    <3>4. entry' # Absent
      <4>1. DOMAIN entry' # DOMAIN Absent
        BY <3>3 DEF Absent
      <4> QED BY <4>1
    <3>5. ListedWell'
      <4>1. now + Expiration \in Nat
        BY <1>1
      <4> QED BY <3>2, <3>3, <4>1 DEF ListedWell
    <3> QED BY <2>1, <3>1, <3>3, <3>4, <3>5 DEF Stored, Listed, Absent
  <2>2. CASE ~Stored
    <3>1. Listed = <<>> /\ entry' = entry
      BY <2>2, ListedType
    <3>2. Trimmed(<<>>) = <<>>
      <4>1. Len(Trimmed(<<>>)) = Least(Rate, 0) /\ Trimmed(<<>>) \in Seq(Nat)
        <5>1. Descending(<<>>, now) /\ Len(<<>>) = 0
          BY DEF Descending
        <5> QED BY <1>1, <5>1, TrimmedType DEF Descending
      <4>2. Least(Rate, 0) = 0
        BY <1>1 DEF Least
      <4> QED BY <4>1, <4>2
    <3>3. ListedWell' /\ Listed' = Listed /\ ~Stored'
      BY <2>2, <3>1 DEF ListedWell, Listed, Stored, Absent
    <3> QED BY <2>2, <3>1, <3>2, <3>3
  <2> QED BY <2>1, <2>2
<1>3. ASSUME NEW times, NEW b, AskerKept(times, b),
             asker'[b] = asker[b] \/ (asker[b] = "trim" /\ asker'[b] = "idle")
      PROVE  AskerKept(times, b)'
  <2>1. /\ Ordered(times, now) /\ Covers(Listed, times, now) /\ Spread(Counted(times, b))
        /\ asker[b] \in {"idle", "push", "oldest"} => Above(Listed, Counted(times, b), now)
        /\ asker[b] = "oldest" => Stored
    BY <1>3 DEF AskerKept
  <2>2. Covers(Trimmed(Listed), times, now) /\ Above(Trimmed(Listed), times, now)
    BY <1>1, <2>1, TrimKeeps
  <2>3. Above(Listed, Counted(times, b), now) => Above(Trimmed(Listed), Counted(times, b), now)
    BY <1>1, <2>1, TrimKeeps
  <2>4. /\ Counted(times, b)' = Counted(times, b)
        /\ asker'[b] # asker[b] => Counted(times, b) = times
    BY <1>3 DEF Counted
  <2>5. \A i \in 1..Len(times) : times[i] + Expiration <= now + Expiration
    <3>1. \A i \in 1..Len(times) : times[i] \in Nat /\ times[i] <= now
      BY <1>1, <2>1, OneMore
    <3> QED BY <1>1, <3>1
  <2>6. asker'[b] \in {"idle", "push", "oldest"} => Above(Trimmed(Listed), Counted(times, b), now)
    BY <1>3, <2>1, <2>2, <2>3, <2>4
  <2>7. asker'[b] = "oldest" => Stored
    BY <1>3, <2>1
  <2> QED BY <1>2, <2>1, <2>2, <2>4, <2>5, <2>6, <2>7 DEF AskerKept
<1> QED BY <1>2, <1>3

(* Time passes while no request is on its way. *)
LEMMA ListTicks ==
  ASSUME LimitTypes, limiter = "list", ListedWell, asker \in [Askers -> AskerSteps], Tick
  PROVE  /\ ListedWell' /\ asker' \in [Askers -> AskerSteps] /\ grants' = grants
         /\ \A times : \A b \in Askers : AskerKept(times, b) => AskerKept(times, b)'
<1>1. /\ now \in Nat /\ now' = now + 1 /\ now' \in Nat /\ now <= now' /\ now <= now + 1
      /\ asker' = asker /\ grants' = grants /\ \A b \in Askers : asker[b] = "idle"
      /\ entry' = IF Stored /\ entry.expires <= now' THEN Absent ELSE entry
      /\ Expiration \in Nat
  BY LimitNumbers DEF LimitTypes, Tick
<1>2. /\ Listed' = Listed \/ Listed' = <<>>
      /\ Stored' => Stored /\ entry' = entry
      /\ Listed' = IF Stored /\ entry.expires <= now' THEN <<>> ELSE Listed
  BY <1>1 DEF Listed, Stored
<1>3. ListedWell'
  <2>1. CASE entry' = Absent
    BY <2>1 DEF ListedWell
  <2>2. ASSUME NEW list, NEW expires \in Nat, entry = [list |-> list, expires |-> expires],
               Descending(list, now), Len(list) >= 1, entry' = entry
        PROVE  ListedWell'
    <3>1. Descending(list, now')
      <4>1. \A i \in 1..Len(list) : list[i] \in Nat /\ list[i] <= now'
        BY <1>1, <2>2 DEF Descending
      <4> QED BY <2>2, <4>1 DEF Descending
    <3> QED BY <2>2, <3>1 DEF ListedWell
  <2> QED BY <1>1, <2>1, <2>2 DEF ListedWell
<1>4. ASSUME NEW times, NEW b \in Askers, AskerKept(times, b) PROVE AskerKept(times, b)'
  <2>1. Counted(times, b) = times /\ Counted(times, b)' = times
    BY <1>1 DEF Counted
  <2>2. /\ Ordered(times, now) /\ Covers(Listed, times, now) /\ Spread(times)
        /\ Above(Listed, times, now)
        /\ Stored => \A i \in 1..Len(times) : times[i] + Expiration <= entry.expires
    BY <1>1, <1>4, <2>1 DEF AskerKept
  <2>3. Ordered(times, now')
    BY <1>1, <2>2, OrderedLater
  <2>4. Covers(Listed', times, now') /\ Above(Listed', times, now')
    <3>1. CASE Stored /\ entry.expires <= now'
      <4>1. PICK later \in Nat : later = now'
        BY <1>1
      <4>2. \A i \in 1..Len(times) : times[i] + Expiration <= later
        <5>1. \A i \in 1..Len(times) : times[i] \in Nat
          BY <1>1, <2>2, OneMore
        <5>2. PICK expires : expires = entry.expires /\ expires <= later
          BY <3>1, <4>1
        <5>3. expires \in Nat
          BY <3>1, <5>2 DEF ListedWell, Stored
        <5> QED BY <1>1, <2>2, <3>1, <5>1, <5>2, <5>3
      <4> QED BY <1>1, <1>2, <2>2, <3>1, <4>1, <4>2, ExpireKeeps
    <3>2. CASE ~(Stored /\ entry.expires <= now')
      BY <1>1, <1>2, <2>2, <3>2, WaitKeeps
    <3> QED BY <3>1, <3>2
  <2>5. Stored' => \A i \in 1..Len(times) : times[i] + Expiration <= entry'.expires
    BY <1>2, <2>2
  <2>6. asker'[b] = "idle"
    BY <1>1
  <2> QED BY <2>1, <2>2, <2>3, <2>4, <2>5, <2>6 DEF AskerKept
<1> QED BY <1>1, <1>3, <1>4

(* An asker's step: some own times, with the one that the step adds. *)
LEMMA ListMoves ==
  ASSUME LimitTypes, limiter = "list", ListKept, NEW a \in Askers, AskerStep(a)
  PROVE  ListKept'
<1>1. /\ asker \in [Askers -> AskerSteps] /\ ListedWell /\ now \in Nat /\ Ordered(grants, now)
      /\ now' = now /\ limiter' = limiter
  BY DEF ListKept, LimitTypes, AskerStep, ReadLength, ReadOldest, Push, PushOver, TrimList,
         AskerGoes
<1>2. PICK own, by, nth :
        Placed(grants, own, by, nth) /\ \A b \in Askers : AskerKept(own[b], b)
  BY DEF ListKept
<1>3. Descending(Listed, now) /\ Len(Listed) \in Nat /\ (Stored <=> Len(Listed) >= 1)
  BY <1>1, ListedType
<1>4. PICK news, bys, nths :
        /\ news = [own EXCEPT ![a] = Append(own[a], now)]
        /\ Placed(Append(grants, now), news, bys, nths)
  BY <1>1, <1>2, PlaceOne
<1>5. news[a] = Append(own[a], now) /\ \A b \in Askers : b # a => news[b] = own[b]
  BY <1>2, <1>4 DEF Placed
<1>6. CASE ReadLength(a)
  <2>1. PICK to \in {"push", "oldest"} :
          /\ to = "push" <=> Len(Listed) < Rate
          /\ asker[a] = "idle" /\ asker' = [asker EXCEPT ![a] = to]
          /\ entry' = entry /\ grants' = grants
    BY <1>6 DEF ReadLength, AskerGoes
  <2>2. /\ asker' \in [Askers -> AskerSteps] /\ asker'[a] = to
        /\ \A b \in Askers : b # a => asker'[b] = asker[b]
    BY <1>1, <2>1 DEF AskerSteps
  <2>3. ListedWell' /\ Listed' = Listed /\ (Stored' <=> Stored)
    BY <1>1, <2>1 DEF ListedWell, Listed, Stored, Absent
  <2>4. AskerKept(own[a], a)'
    <3>1. PICK times : times = own[a]
      OBVIOUS
    <3>2. /\ Ordered(times, now) /\ Covers(Listed, times, now) /\ Spread(times)
          /\ Above(Listed, times, now)
          /\ Stored => \A i \in 1..Len(times) : times[i] + Expiration <= entry.expires
      BY <1>2, <2>1, <3>1 DEF AskerKept, Counted
    <3>3. CASE to = "push"
      <4>1. Counted(times, a)' = Append(times, now)
        BY <1>1, <2>2, <3>3 DEF Counted
      <4>2. Spread(Append(times, now)) /\ Above(Listed, Append(times, now), now)
        BY <1>1, <1>3, <2>1, <3>2, <3>3, ShortList
      <4>3. AskerKept(times, a)'
        BY <1>1, <2>1, <2>2, <2>3, <3>2, <3>3, <4>1, <4>2 DEF AskerKept
      <4> QED BY <3>1, <4>3
    <3>4. CASE to = "oldest"
      <4>1. Counted(times, a)' = times
        BY <1>1, <2>2, <3>4 DEF Counted
      <4>2. Stored
        BY <1>3, <2>1, <3>4, LimitNumbers
      <4>3. AskerKept(times, a)'
        BY <1>1, <2>1, <2>2, <2>3, <3>2, <3>4, <4>1, <4>2 DEF AskerKept
      <4> QED BY <3>1, <4>3
    <3> QED BY <3>3, <3>4
  <2>5. \A b \in Askers : AskerKept(own[b], b)'
    BY <1>1, <1>2, <2>1, <2>2, <2>4, UnmovedKept
  <2>6. Placed(grants', own, by, nth)
    BY <1>2, <2>1
  <2> QED BY <2>2, <2>3, <2>5, <2>6 DEF ListKept
<1>7. CASE ReadOldest(a) /\ Stored /\ now - Listed[Len(Listed)] >= Duration
  <2>1. /\ asker[a] = "oldest" /\ asker' = [asker EXCEPT ![a] = "roll"]
        /\ entry' = entry /\ grants' = grants
    BY <1>7 DEF ReadOldest, AskerGoes
  <2>2. /\ asker' \in [Askers -> AskerSteps] /\ asker'[a] = "roll"
        /\ \A b \in Askers : b # a => asker'[b] = asker[b]
    BY <1>1, <2>1 DEF AskerSteps
  <2>3. ListedWell' /\ Listed' = Listed /\ (Stored' <=> Stored)
    BY <1>1, <2>1 DEF ListedWell, Listed, Stored, Absent
  <2>4. AskerKept(own[a], a)'
    <3>1. PICK times : times = own[a]
      OBVIOUS
    <3>2. /\ Ordered(times, now) /\ Covers(Listed, times, now) /\ Spread(times)
          /\ Above(Listed, times, now)
          /\ Stored => \A i \in 1..Len(times) : times[i] + Expiration <= entry.expires
      BY <1>2, <2>1, <3>1 DEF AskerKept, Counted
    <3>3. Counted(times, a)' = Append(times, now)
      BY <1>1, <2>2 DEF Counted
    <3>4. Spread(Append(times, now))
      BY <1>1, <1>3, <1>7, <3>2, OldList
    <3>5. AskerKept(times, a)'
      BY <1>1, <2>1, <2>2, <2>3, <3>2, <3>3, <3>4 DEF AskerKept
    <3> QED BY <3>1, <3>5
  <2>5. \A b \in Askers : AskerKept(own[b], b)'
    BY <1>1, <1>2, <2>1, <2>2, <2>4, UnmovedKept
  <2>6. Placed(grants', own, by, nth)
    BY <1>2, <2>1
  <2> QED BY <2>2, <2>3, <2>5, <2>6 DEF ListKept
<1>8. CASE ReadOldest(a) /\ ~(Stored /\ now - Listed[Len(Listed)] >= Duration)
  <2>0. Stored
    BY <1>2, <1>8 DEF ReadOldest, AskerKept
  <2>1. /\ asker[a] = "oldest" /\ asker' = [asker EXCEPT ![a] = "idle"]
        /\ entry' = [entry EXCEPT !.expires = now + Expiration] /\ grants' = grants
    BY <1>8, <2>0 DEF ReadOldest, AskerGoes
  <2>2. /\ asker' \in [Askers -> AskerSteps] /\ asker'[a] = "idle"
        /\ \A b \in Askers : b # a => asker'[b] = asker[b]
    BY <1>1, <2>1 DEF AskerSteps
  <2>3. /\ ListedWell' /\ Listed' = Listed /\ Stored'
        /\ entry'.expires = now + Expiration
    <3>0. PICK list : \E expires \in Nat :
            /\ entry = [list |-> list, expires |-> expires]
            /\ Descending(list, now) /\ Len(list) >= 1
      BY <1>1, <2>0 DEF ListedWell, Stored
    <3>1. PICK expires \in Nat :
            /\ entry = [list |-> list, expires |-> expires]
            /\ Descending(list, now) /\ Len(list) >= 1
      BY <3>0
    <3>2. entry' = [list |-> list, expires |-> now + Expiration]
      BY <2>1, <3>1
    <3>3. entry' # Absent
      <4>1. DOMAIN entry' # DOMAIN Absent
        BY <3>2 DEF Absent
      <4> QED BY <4>1
    <3>4. now + Expiration \in Nat
      BY <1>1, LimitNumbers
    <3>5. ListedWell'
      BY <1>1, <3>1, <3>2, <3>4 DEF ListedWell
    <3> QED BY <2>0, <3>1, <3>2, <3>3, <3>5 DEF Stored, Listed, Absent
  <2>4. AskerKept(own[a], a)'
    <3>1. PICK times : times = own[a]
      OBVIOUS
    <3>2. /\ Ordered(times, now) /\ Covers(Listed, times, now) /\ Spread(times)
          /\ Above(Listed, times, now)
      BY <1>2, <2>1, <3>1 DEF AskerKept, Counted
    <3>3. Counted(times, a)' = times
      BY <1>1, <2>2 DEF Counted
    <3>4. \A i \in 1..Len(times) : times[i] + Expiration <= now + Expiration
      <4>1. \A i \in 1..Len(times) : times[i] \in Nat /\ times[i] <= now
        BY <1>1, <3>2, OneMore
      <4> QED BY <1>1, <4>1, LimitNumbers
    <3>5. AskerKept(times, a)'
      BY <1>1, <2>2, <2>3, <3>2, <3>3, <3>4 DEF AskerKept
    <3> QED BY <3>1, <3>5
  <2>5. \A b \in Askers : b # a => AskerKept(own[b], b)'
    BY <1>1, <1>2, <2>0, <2>2, <2>3, UnmovedKept
  <2>6. Placed(grants', own, by, nth)
    BY <1>2, <2>1
  <2> QED BY <2>2, <2>3, <2>4, <2>5, <2>6 DEF ListKept
<1>9. CASE Push(a) \/ PushOver(a)
  <2>1. /\ asker[a] \in {"push", "roll"} /\ PushNow /\ grants' = Append(grants, now)
        /\ asker' = [asker EXCEPT ![a] = IF asker[a] = "push" THEN "idle" ELSE "trim"]
    BY <1>9 DEF Push, PushOver, AskerGoes, Grant
  <2>2. /\ asker' \in [Askers -> AskerSteps]
        /\ asker'[a] = IF asker[a] = "push" THEN "idle" ELSE "trim"
        /\ \A b \in Askers : b # a => asker'[b] = asker[b]
    BY <1>1, <2>1 DEF AskerSteps
  <2>3. /\ ListedWell'
        /\ \A b \in Askers : b # a => AskerKept(own[b], b)'
        /\ AskerKept(Append(own[a], now), a)'
    BY <1>1, <1>2, <2>1, <2>2, PushedKept
  <2>4. \A b \in Askers : AskerKept(news[b], b)'
    <3>1. PICK times : times = Append(own[a], now)
      OBVIOUS
    <3>2. AskerKept(times, a)' /\ news[a] = times
      <4>1. Append(own[a], now)' = times
        BY <1>1, <3>1
      <4> QED BY <1>5, <2>3, <3>1, <4>1
    <3>3. AskerKept(news[a], a)'
      BY <3>2
    <3>4. ASSUME NEW b \in Askers, b # a PROVE AskerKept(news[b], b)'
      <4>1. news[b] = own[b] /\ AskerKept(own[b], b)'
        BY <1>5, <2>3, <3>4
      <4> QED BY <4>1
    <3> QED BY <3>3, <3>4
  <2>5. Placed(grants', news, bys, nths)
    BY <1>4, <2>1
  <2> QED BY <2>2, <2>3, <2>4, <2>5 DEF ListKept
<1>10. CASE TrimList(a)
  <2>1. /\ asker[a] = "trim" /\ asker' = [asker EXCEPT ![a] = "idle"] /\ grants' = grants
        /\ entry' = IF Stored THEN [list |-> Trimmed(Listed), expires |-> now + Expiration]
                    ELSE entry
    BY <1>10 DEF TrimList, AskerGoes, Trimmed
  <2>2. /\ asker' \in [Askers -> AskerSteps] /\ asker'[a] = "idle"
        /\ \A b \in Askers : b # a => asker'[b] = asker[b]
    BY <1>1, <2>1 DEF AskerSteps
  <2>3. /\ ListedWell'
        /\ \A b \in Askers : AskerKept(own[b], b)'
    BY <1>1, <1>2, <2>1, <2>2, TrimmedKept
  <2>4. Placed(grants', own, by, nth)
    BY <1>2, <2>1
  <2> QED BY <2>2, <2>3, <2>4 DEF ListKept
<1> QED BY <1>6, <1>7, <1>8, <1>9, <1>10 DEF AskerStep

(* Every step keeps what the askers count on. *)
LEMMA ListSteps ==
  ASSUME LimitTypes, limiter = "list", ListKept, [LimitNext]_limitVars
  PROVE  ListKept'
<1>1. CASE Tick
  <2>1. asker \in [Askers -> AskerSteps] /\ ListedWell
    BY DEF ListKept
  <2>2. PICK own, by, nth :
          Placed(grants, own, by, nth) /\ \A b \in Askers : AskerKept(own[b], b)
    BY DEF ListKept
  <2>3. /\ ListedWell' /\ asker' \in [Askers -> AskerSteps] /\ grants' = grants
        /\ \A b \in Askers : AskerKept(own[b], b)'
    BY <1>1, <2>1, <2>2, ListTicks
  <2> QED BY <2>2, <2>3 DEF ListKept
<1>2. CASE UNCHANGED limitVars
  <2>1. Listed' = Listed /\ (Stored' <=> Stored)
    BY <1>2 DEF limitVars, Listed, Stored, Absent
  <2> QED BY <1>2, <2>1 DEF limitVars, ListKept, ListedWell, AskerKept, Counted
<1>3. ASSUME NEW a \in Askers, AskerStep(a) PROVE ListKept'
  BY <1>3, ListMoves
<1> QED BY <1>1, <1>2, <1>3
        DEF LimitNext, Ask, AskBucket, AskWindow, AskCount, AskToken, AskShards, CleanShards,
            RemoveExpired, ReloadGroups

-----------------------------------------------------------------------------
LimitInvariantHolds ==
  /\ LimitTypes
  /\ WindowKept /\ CountKept /\ BucketKept /\ TokenKept /\ ShardsKept /\ ListKept

(* Nothing is stored at first. *)
LEMMA LimitStarts ==
  ASSUME LimitInit
  PROVE  LimitInvariantHolds
<1>1. /\ limiter \in Limiters /\ now = 0 /\ entry = Absent /\ grants = <<>> /\ reloads = 0
      /\ asker = [a \in Askers |-> "idle"] /\ now \in Nat /\ reloads \in Nat
  BY DEF LimitInit
<1>2. Ordered(<<>>, 0) /\ LimitTypes
  <2>1. Ordered(<<>>, 0)
    BY DEF Ordered
  <2> QED BY <1>1, <2>1 DEF LimitTypes
<1>3. Len(<<>>) = 0 /\ <<>> \in Seq(Nat) /\ 0 \in Nat /\ Rate \in Nat /\ Burst \in Nat
  BY LimitNumbers
<1>4. WindowSparse(<<>>, 0) /\ WindowOK(<<>>, 0, 0, 0)
  BY <1>3 DEF WindowSparse, WindowOK
<1>5. BucketSparse(<<>>, 0) /\ BucketOK(<<>>, Burst, 0, 0)
  BY <1>3 DEF BucketSparse, BucketOK
<1>6. Spread(<<>>) /\ QueueOK(<<>>, <<>>, 0)
  BY <1>3 DEF Spread, QueueOK
<1>7. ListKept
  <2> DEFINE own == [a \in Askers |-> <<>>]
  <2>1. own \in [Askers -> Seq(Nat)] /\ \A a \in Askers : own[a] = <<>>
    OBVIOUS
  <2>2. Placed(<<>>, own, <<>>, <<>>)
    BY <2>1 DEF Placed
  <2>3. Listed = <<>> /\ ~Stored
    BY <1>1 DEF Listed, Stored
  <2>4. Covers(<<>>, <<>>, 0) /\ Above(<<>>, <<>>, 0)
    BY <1>3 DEF Covers, Above
  <2>5. ASSUME NEW a \in Askers PROVE AskerKept(<<>>, a)
    <3>1. asker[a] = "idle" /\ Counted(<<>>, a) = <<>>
      BY <1>1 DEF Counted
    <3> QED BY <1>1, <1>2, <1>6, <2>3, <2>4, <3>1 DEF AskerKept
  <2>6. asker \in [Askers -> AskerSteps] /\ ListedWell
    BY <1>1 DEF AskerSteps, ListedWell
  <2>7. \A a \in Askers : AskerKept(own[a], a)
    BY <2>1, <2>5
  <2> HIDE DEF own
  <2> QED BY <1>1, <2>2, <2>6, <2>7 DEF ListKept
<1> QED BY <1>1, <1>2, <1>4, <1>5, <1>6, <1>7
        DEF LimitInvariantHolds, WindowKept, CountKept, BucketKept, TokenKept, ShardsKept

(* Every step keeps the invariant, whichever limiter it is. *)
LEMMA LimitSteps ==
  ASSUME LimitInvariantHolds, [LimitNext]_limitVars
  PROVE  LimitInvariantHolds'
<1>1. LimitTypes' /\ limiter' = limiter
  BY TimesKept DEF LimitInvariantHolds
<1>2. WindowKept'
  <2>1. CASE limiter = "window"
    BY <2>1, WindowSteps DEF LimitInvariantHolds
  <2> QED BY <1>1, <2>1 DEF WindowKept
<1>3. CountKept'
  <2>1. CASE limiter = "count"
    BY <2>1, CountSteps DEF LimitInvariantHolds
  <2> QED BY <1>1, <2>1 DEF CountKept
<1>4. BucketKept'
  <2>1. CASE limiter = "bucket"
    BY <2>1, BucketSteps DEF LimitInvariantHolds
  <2> QED BY <1>1, <2>1 DEF BucketKept
<1>5. TokenKept'
  <2>1. CASE limiter = "token"
    BY <2>1, TokenSteps DEF LimitInvariantHolds
  <2> QED BY <1>1, <2>1 DEF TokenKept
<1>6. ShardsKept'
  <2>1. CASE limiter = "shards"
    BY <2>1, ShardsSteps DEF LimitInvariantHolds
  <2> QED BY <1>1, <2>1 DEF ShardsKept
<1>7. ListKept'
  <2>1. CASE limiter = "list"
    BY <2>1, ListSteps DEF LimitInvariantHolds
  <2> QED BY <1>1, <2>1 DEF ListKept
<1> QED BY <1>1, <1>2, <1>3, <1>4, <1>5, <1>6, <1>7 DEF LimitInvariantHolds

(* In every reachable state, what is stored says how many requests were let
   through lately (allowFixedWindow, allowTokenBucket, the scripts,
   InMemoryRateLimiter.Request, redisRateLimiter). *)
THEOREM LimitInvariant == LimitSpec => []LimitInvariantHolds
<1>1. LimitInit => LimitInvariantHolds
  BY LimitStarts
<1>2. LimitInvariantHolds /\ [LimitNext]_limitVars => LimitInvariantHolds'
  BY LimitSteps
<1> QED BY <1>1, <1>2, PTL DEF LimitSpec

-----------------------------------------------------------------------------
(* The stretch of so many ticks meets one window more than those within it. *)
LEMMA WindowsMet ==
  ASSUME NEW ticks \in Nat, ticks >= 1
  PROVE  /\ (ticks + Duration - 1) \div Duration = ((ticks - 1) \div Duration) + 1
         /\ (ticks - 1) \div Duration \in Nat
         /\ \A a, b \in Nat : a <= b /\ b - a <= ticks - 1 =>
              Windows(a, b) \in Nat /\ Windows(a, b) <= (ticks - 1) \div Duration
<1>1. Duration \in Nat \ {0}
  BY LimitNumbers
<1>2. PICK d \in Nat : d = ticks - 1
  <2>1. ticks - 1 \in Nat
    OBVIOUS
  <2> QED BY <2>1
<1>3. (d + Duration) \div Duration = (d \div Duration) + 1 /\ d \div Duration \in Nat
  BY <1>1, <1>2
<1>4. ticks + Duration - 1 = d + Duration
  BY <1>1, <1>2
<1>5. ASSUME NEW a \in Nat, NEW b \in Nat, a <= b, b - a <= d
      PROVE  Windows(a, b) \in Nat /\ Windows(a, b) <= d \div Duration
  <2>1. PICK e \in Nat : e = b - a /\ e <= d
    <3>1. b - a \in Nat
      BY <1>5
    <3> QED BY <1>5, <3>1
  <2>2. e \div Duration \in Nat /\ e \div Duration <= d \div Duration
    BY <1>1, <1>2, <2>1
  <2> QED BY <2>1, <2>2 DEF Windows
<1> QED BY <1>2, <1>3, <1>4, <1>5

(* Times that are so sparse, in windows or in tokens. *)
LEMMA SparseInTime ==
  ASSUME NEW times, NEW until \in Nat, Ordered(times, until),
         NEW ticks \in Nat, ticks >= 1, NEW x \in Nat,
         \A i, j \in 1..Len(times) :
           i <= j => j - i + 1 <= Rate * (Windows(times[i], times[j]) + x)
  PROVE  /\ Rate * (((ticks - 1) \div Duration) + x) \in Nat
         /\ \A i, j \in 1..Len(times) :
              i <= j /\ times[j] - times[i] <= ticks - 1 =>
                j - i + 1 <= Rate * (((ticks - 1) \div Duration) + x)
<1>1. PICK w \in Nat : w = (ticks - 1) \div Duration
  BY WindowsMet
<1>2. PICK v \in Nat : v = w + x
  OBVIOUS
<1>3. Rate * v \in Nat
  BY <1>2, RateType
<1>4. ASSUME NEW i \in 1..Len(times), NEW j \in 1..Len(times), i <= j,
             times[j] - times[i] <= ticks - 1
      PROVE  j - i + 1 <= Rate * v
  <2>1. times[i] \in Nat /\ times[j] \in Nat /\ times[i] <= times[j]
    <3>1. times[i] \in Nat /\ times[j] \in Nat
      BY OneMore
    <3> QED BY <1>4, <3>1 DEF Ordered
  <2>2. PICK q \in Nat : q = Windows(times[i], times[j]) /\ q <= w
    BY <1>1, <1>4, <2>1, WindowsMet
  <2>3. PICK u \in Nat : u = q + x /\ u <= v
    BY <1>2, <2>2
  <2>4. j - i + 1 <= Rate * u
    BY <1>4, <2>2, <2>3
  <2>5. Rate * u <= Rate * v /\ Rate * u \in Nat
    BY <1>2, <2>3, RateTimes, RateType
  <2> QED BY <1>3, <2>4, <2>5
<1> QED BY <1>1, <1>2, <1>3, <1>4

(* So many ticks fill so many tokens. *)
LEMMA TokensInTime ==
  ASSUME NEW times, NEW until \in Nat, Ordered(times, until),
         NEW ticks \in Nat, ticks >= 1, NEW x \in Nat, BucketSparse(times, x)
  PROVE  /\ Room(x) + Rate * (ticks - 1) \in Nat
         /\ \A i, j \in 1..Len(times) :
              i <= j /\ times[j] - times[i] <= ticks - 1 =>
                j - i + 1 <= Room(x) + Rate * (ticks - 1)
<1>1. PICK d \in Nat : d = ticks - 1
  <2>1. ticks - 1 \in Nat
    OBVIOUS
  <2> QED BY <2>1
<1>2. PICK p \in Nat : p = Rate * d
  BY <1>1, RateType
<1>3. PICK r \in Nat : r = Room(x)
  BY RoomMore
<1>4. ASSUME NEW i \in 1..Len(times), NEW j \in 1..Len(times), i <= j,
             times[j] - times[i] <= ticks - 1
      PROVE  j - i + 1 <= r + p
  <2>1. PICK e \in Nat : e = times[j] - times[i] /\ e <= d
    <3>1. times[i] \in Nat /\ times[j] \in Nat /\ times[i] <= times[j]
      <4>1. times[i] \in Nat /\ times[j] \in Nat
        BY OneMore
      <4> QED BY <1>4, <4>1 DEF Ordered
    <3>2. times[j] - times[i] \in Nat
      BY <3>1
    <3> QED BY <1>1, <1>4, <3>2
  <2>2. PICK q \in Nat : q = Rate * e /\ q <= p
    BY <1>1, <1>2, <2>1, RateTimes, RateType
  <2>3. j - i + 1 <= r + q
    BY <1>3, <1>4, <2>1, <2>2 DEF BucketSparse
  <2> QED BY <2>2, <2>3
<1> QED BY <1>1, <1>2, <1>3, <1>4

(* A list spares each of the askers the others' requests. *)
LEMMA AskersTogether ==
  ASSUME NEW times, NEW until \in Nat, Ordered(times, until),
         NEW own, NEW by, NEW nth, Placed(times, own, by, nth),
         NEW from \in Nat, NEW ticks \in Nat, NEW P \in Nat,
         \A a \in Askers : \E b \in Nat : \A k \in During(own[a], from, ticks) : b <= k /\ k < b + P
  PROVE  /\ Cardinality(During(times, from, ticks)) \in Nat
         /\ Cardinality(During(times, from, ticks)) <= P * Cardinality(Askers)
<1> DEFINE S == During(times, from, ticks)
           base == [a \in Askers |->
                      CHOOSE b \in Nat : \A k \in During(own[a], from, ticks) : b <= k /\ k < b + P]
           T == Askers \X (0..(P - 1))
           f == [i \in S |-> <<by[i], nth[i] - base[by[i]]>>]
<1>1. \A a \in Askers : /\ base[a] \in Nat
                        /\ \A k \in During(own[a], from, ticks) : base[a] <= k /\ k < base[a] + P
  OBVIOUS
<1>2. /\ times \in Seq(Nat) /\ DOMAIN times = 1..Len(times) /\ Len(times) \in Nat
      /\ by \in Seq(Askers) /\ nth \in Seq(Nat) /\ Len(by) = Len(times) /\ Len(nth) = Len(times)
      /\ own \in [Askers -> Seq(Nat)]
      /\ \A i, j \in 1..Len(times) : by[i] = by[j] /\ nth[i] = nth[j] => i = j
      /\ \A i \in 1..Len(times) :
           nth[i] \in 1..Len(own[by[i]]) /\ own[by[i]][nth[i]] = times[i]
  BY DEF Placed, Ordered
<1> HIDE DEF base
<1>3. ASSUME NEW i \in S
      PROVE  /\ i \in 1..Len(times) /\ by[i] \in Askers /\ nth[i] \in Nat /\ base[by[i]] \in Nat
             /\ nth[i] - base[by[i]] \in 0..(P - 1)
  <2>1. i \in 1..Len(times) /\ times[i] >= from /\ times[i] < from + ticks
    BY <1>2 DEF During
  <2>2. by[i] \in Askers /\ nth[i] \in Nat
    BY <1>2, <2>1
  <2>3. own[by[i]] \in Seq(Nat) /\ nth[i] \in DOMAIN own[by[i]] /\ own[by[i]][nth[i]] = times[i]
    BY <1>2, <2>1, <2>2
  <2>4. nth[i] \in During(own[by[i]], from, ticks)
    BY <2>1, <2>3 DEF During
  <2>5. base[by[i]] \in Nat /\ base[by[i]] <= nth[i] /\ nth[i] < base[by[i]] + P
    BY <1>1, <2>2, <2>4
  <2> QED BY <2>1, <2>2, <2>5
<1>4. f \in [S -> T]
  BY <1>3
<1>5. ASSUME NEW i \in S, NEW j \in S, f[i] = f[j] PROVE i = j
  <2>1. by[i] = by[j] /\ nth[i] - base[by[i]] = nth[j] - base[by[j]]
    BY <1>5
  <2>2. nth[i] = nth[j]
    BY <1>3, <2>1
  <2> QED BY <1>2, <1>3, <2>1, <2>2
<1>6. f \in Injection(S, T)
  BY <1>4, <1>5, Fun_IsInj
<1>7. IsFiniteSet(Askers) /\ Cardinality(Askers) \in Nat
  BY LimiterAssumption, FS_CardinalityType
<1>8. IsFiniteSet(0..(P - 1)) /\ Cardinality(0..(P - 1)) = P
  <2>1. 0 \in Int /\ P - 1 \in Int
    OBVIOUS
  <2>2. /\ IsFiniteSet(0..(P - 1))
        /\ Cardinality(0..(P - 1)) = IF 0 > P - 1 THEN 0 ELSE P - 1 - 0 + 1
    BY <2>1, FS_Interval
  <2>3. (IF 0 > P - 1 THEN 0 ELSE P - 1 - 0 + 1) = P
    OBVIOUS
  <2> QED BY <2>2, <2>3
<1>9. IsFiniteSet(T) /\ Cardinality(T) = Cardinality(Askers) * P
  BY <1>7, <1>8, FS_Product
<1> HIDE DEF S, T, f
<1>10. IsFiniteSet(S) /\ Cardinality(S) <= Cardinality(T)
  BY <1>6, <1>9, FS_Injection DEF ExistsInjection
<1>11. Cardinality(S) \in Nat /\ Cardinality(T) \in Nat
  BY <1>9, <1>10, FS_CardinalityType
<1>12. Cardinality(Askers) * P = P * Cardinality(Askers)
  BY <1>7
<1>13. Cardinality(S) \in Nat /\ Cardinality(S) <= P * Cardinality(Askers)
  BY <1>9, <1>10, <1>11, <1>12
<1> QED BY <1>13 DEF S

(* One time less is spread as well. *)
LEMMA SpreadLess ==
  ASSUME NEW times, NEW at \in Nat, Ordered(times, at), Spread(Append(times, at))
  PROVE  Spread(times)
<1>1. /\ Len(times) \in Nat /\ Len(Append(times, at)) = Len(times) + 1
      /\ \A i \in 1..Len(times) : Append(times, at)[i] = times[i]
  BY OneMore
<1>2. \A i \in 1..Len(times) : i \in 1..Len(Append(times, at))
  BY <1>1
<1> SUFFICES ASSUME NEW i \in 1..Len(times), NEW j \in 1..Len(times), i <= j
             PROVE  j - i + 1 <= Rate * (Windows(times[i], times[j]) + 1)
  BY DEF Spread
<1> QED BY <1>1, <1>2 DEF Spread

(* What holds of a stretch of time holds of the requests let through in it. *)
LEMMA FewGranted ==
  ASSUME LimitTypes, NEW from \in Nat, NEW ticks \in Nat, NEW P \in Nat,
         \A i, j \in 1..Len(grants) :
           i <= j /\ grants[j] - grants[i] <= ticks - 1 => j - i + 1 <= P
  PROVE  GrantedIn(from, ticks) <= P
<1>1. Ordered(grants, now) /\ now \in Nat
  BY DEF LimitTypes
<1>2. Cardinality(During(grants, from, ticks)) <= P
  BY <1>1, FewDuring
<1> QED BY <1>2 DEF GrantedIn, During

(* The invariant bounds the requests in any stretch of time. *)
LEMMA PromiseHolds ==
  ASSUME LimitInvariantHolds, NEW from \in Nat, NEW ticks \in Nat, ticks >= 1
  PROVE  GrantedIn(from, ticks) <= Promise(ticks)
<1>1. /\ LimitTypes /\ limiter \in AllLimiters /\ Ordered(grants, now) /\ now \in Nat
      /\ reloads \in Nat
  BY LimiterAssumption DEF LimitInvariantHolds, LimitTypes
<1>2. PICK w \in Nat : /\ w = (ticks - 1) \div Duration
                       /\ (ticks + Duration - 1) \div Duration = w + 1
  BY WindowsMet
<1>3. CASE limiter = "window"
  <2>1. WindowSparse(grants, reloads)
    BY <1>3 DEF LimitInvariantHolds, WindowKept
  <2>2. PICK x \in Nat : x = 2 + reloads
    BY <1>1
  <2>3. \A i, j \in 1..Len(grants) :
          i <= j => j - i + 1 <= Rate * (Windows(grants[i], grants[j]) + x)
    <3> SUFFICES ASSUME NEW i \in 1..Len(grants), NEW j \in 1..Len(grants), i <= j
                 PROVE  j - i + 1 <= Rate * (Windows(grants[i], grants[j]) + x)
      OBVIOUS
    <3>1. grants[i] \in Nat /\ grants[j] \in Nat /\ grants[i] <= grants[j]
      <4>1. grants[i] \in Nat /\ grants[j] \in Nat
        BY <1>1, OneMore
      <4> QED BY <1>1, <4>1 DEF Ordered
    <3>2. PICK q \in Nat : q = Windows(grants[i], grants[j])
      BY <3>1, WindowsType
    <3>3. j - i + 1 <= Rate * (q + 2 + reloads) /\ q + 2 + reloads = q + x
      BY <1>1, <2>1, <2>2, <3>2 DEF WindowSparse
    <3> QED BY <3>2, <3>3
  <2>4. GrantedIn(from, ticks) <= Rate * (w + x)
    BY <1>1, <1>2, <2>3, SparseInTime, FewGranted
  <2>5. Promise(ticks) = Rate * (w + 1 + 1 + reloads) /\ w + 1 + 1 + reloads = w + x
    BY <1>1, <1>2, <1>3, <2>2 DEF Promise
  <2> QED BY <2>4, <2>5
<1>4. CASE limiter = "count"
  <2>1. \A i, j \in 1..Len(grants) :
          i <= j => j - i + 1 <= Rate * (Windows(grants[i], grants[j]) + 2)
    <3> SUFFICES ASSUME NEW i \in 1..Len(grants), NEW j \in 1..Len(grants), i <= j
                 PROVE  j - i + 1 <= Rate * (Windows(grants[i], grants[j]) + 2)
      OBVIOUS
    <3>1. grants[i] \in Nat /\ grants[j] \in Nat /\ grants[i] <= grants[j]
      <4>1. grants[i] \in Nat /\ grants[j] \in Nat
        BY <1>1, OneMore
      <4> QED BY <1>1, <4>1 DEF Ordered
    <3>2. PICK q \in Nat : q = Windows(grants[i], grants[j])
      BY <3>1, WindowsType
    <3>3. j - i + 1 <= Rate * (q + 2 + 0) /\ q + 2 + 0 = q + 2
      BY <1>4, <3>2 DEF LimitInvariantHolds, CountKept, WindowSparse
    <3> QED BY <3>2, <3>3
  <2>2. GrantedIn(from, ticks) <= Rate * (w + 2)
    <3>1. 2 \in Nat
      OBVIOUS
    <3> QED BY <1>1, <1>2, <2>1, <3>1, SparseInTime, FewGranted
  <2>3. Promise(ticks) = Rate * (w + 1 + 1) /\ w + 1 + 1 = w + 2
    BY <1>2, <1>4 DEF Promise
  <2> QED BY <2>2, <2>3
<1>5. CASE limiter = "bucket"
  <2>1. BucketSparse(grants, reloads)
    BY <1>5 DEF LimitInvariantHolds, BucketKept
  <2>2. GrantedIn(from, ticks) <= Room(reloads) + Rate * (ticks - 1)
    BY <1>1, <2>1, TokensInTime, FewGranted
  <2>3. Promise(ticks) = Room(reloads) + Rate * (ticks - 1)
    BY <1>5 DEF Promise, Room
  <2> QED BY <2>2, <2>3
<1>6. CASE limiter = "token"
  <2>1. BucketSparse(grants, 0) /\ 0 \in Nat
    BY <1>6 DEF LimitInvariantHolds, TokenKept
  <2>2. GrantedIn(from, ticks) <= Room(0) + Rate * (ticks - 1)
    BY <1>1, <2>1, TokensInTime, FewGranted
  <2>3. Room(0) = Burst
    BY LimitNumbers DEF Room
  <2>4. Promise(ticks) = Burst + Rate * (ticks - 1)
    BY <1>6 DEF Promise
  <2> QED BY <2>2, <2>3, <2>4
<1>7. CASE limiter = "shards"
  <2>1. Spread(grants) /\ 1 \in Nat
    BY <1>7 DEF LimitInvariantHolds, ShardsKept
  <2>2. GrantedIn(from, ticks) <= Rate * (w + 1)
    BY <1>1, <1>2, <2>1, SparseInTime, FewGranted DEF Spread
  <2>3. Promise(ticks) = Rate * (w + 1)
    BY <1>2, <1>7 DEF Promise
  <2> QED BY <2>2, <2>3
<1>8. CASE limiter = "list"
  <2>1. PICK own, by, nth :
          Placed(grants, own, by, nth) /\ \A a \in Askers : AskerKept(own[a], a)
    BY <1>8 DEF LimitInvariantHolds, ListKept
  <2>2. PICK P \in Nat : P = Rate * (w + 1)
    <3>1. w + 1 \in Nat
      OBVIOUS
    <3> QED BY <3>1, RateType
  <2>3. ASSUME NEW a \in Askers
        PROVE  \E b \in Nat : \A k \in During(own[a], from, ticks) : b <= k /\ k < b + P
    <3>1. PICK times : times = own[a]
      OBVIOUS
    <3>2. Ordered(times, now) /\ Spread(Counted(times, a))
      BY <2>1, <3>1 DEF AskerKept
    <3>3. Spread(times) /\ 1 \in Nat
      BY <1>1, <3>2, SpreadLess DEF Counted
    <3>4. \A i, j \in 1..Len(times) :
            i <= j /\ times[j] - times[i] <= ticks - 1 => j - i + 1 <= P
      BY <1>1, <1>2, <2>2, <3>2, <3>3, SparseInTime DEF Spread
    <3> QED BY <1>1, <3>1, <3>2, <3>4, FewDuring
  <2>4. Cardinality(During(grants, from, ticks)) <= P * Cardinality(Askers)
    BY <1>1, <2>1, <2>3, AskersTogether
  <2>5. Promise(ticks) = P * Cardinality(Askers)
    BY <1>2, <1>8, <2>2 DEF Promise
  <2> QED BY <2>4, <2>5 DEF GrantedIn, During
<1> QED BY <1>1, <1>3, <1>4, <1>5, <1>6, <1>7, <1>8 DEF AllLimiters

(* Whatever is cleaned up, reloaded, expires or overlaps, no stretch of time
   sees more requests than the limiter promises: for any rate, burst, window
   and number of requests that ask at a time. *)
THEOREM PromiseKept == LimitSpec => []NeverMoreThanPromised
<1>1. LimitInvariantHolds => NeverMoreThanPromised
  <2> SUFFICES ASSUME LimitInvariantHolds, NEW from \in 0..now, NEW ticks \in 1..(now - from + 1)
               PROVE  GrantedIn(from, ticks) <= Promise(ticks)
    BY DEF NeverMoreThanPromised
  <2>1. now \in Nat
    BY DEF LimitInvariantHolds, LimitTypes
  <2>2. from \in Nat /\ ticks \in Nat /\ ticks >= 1
    BY <2>1
  <2> QED BY <2>2, PromiseHolds
<1> QED BY <1>1, LimitInvariant, PTL
=============================================================================
