------------------------- MODULE ConversationsProofs -------------------------
(***************************************************************************)
(* Proofs about conversations and what they rely on: RealtimeSession for   *)
(* any number of sessions and reports, any quota, with and without Redis,  *)
(* which may fail; the credentials of an endpoint (GatewayCredentials) for *)
(* any requests and calls and any bounds; and the streams that are         *)
(* answered as Claude streams (ClaudeStream) and as Responses streams      *)
(* (ResponsesStream), of any length.                                       *)
(***************************************************************************)
EXTENDS
  RealtimeSession, GatewayCredentials, ClaudeStream, ResponsesStream,
  FiniteSetTheorems, FunctionTheorems, SequenceTheorems, TLAPS

-----------------------------------------------------------------------------
(* Sums over sessions. A number per session is a set of units, so that a sum
   is a cardinality: of the units of all sessions, or of some of them. *)

Part(f, S) == UNION {{s} \X (1..f[s]) : s \in S}
Units(f) == Part(f, Sessions)
Total(f) == Cardinality(Units(f))

(* The units, one by one. *)
LEMMA PartIs ==
  ASSUME NEW f, NEW S, NEW u
  PROVE  u \in Part(f, S) <=> \E s \in S : \E i \in 1..f[s] : u = <<s, i>>
BY DEF Part

LEMMA UnitsAre ==
  ASSUME NEW f, NEW u
  PROVE  u \in Units(f) <=> \E s \in Sessions : \E i \in 1..f[s] : u = <<s, i>>
BY PartIs DEF Units

(* Sets of sessions are finite, *)
LEMMA SessionSetsCount ==
  ASSUME NEW S, S \subseteq Sessions
  PROVE  IsFiniteSet(S) /\ Cardinality(S) \in Nat
<1>1. IsFiniteSet(Sessions)
  BY RealtimeAssumption DEF RealtimeAssumption
<1>2. IsFiniteSet(S)
  BY <1>1, FS_Subset
<1> QED BY <1>2, FS_CardinalityType

(* and a part of one is no larger. *)
LEMMA FewerSessions ==
  ASSUME NEW S, NEW T, S \subseteq T, T \subseteq Sessions
  PROVE  Cardinality(S) <= Cardinality(T)
<1>1. IsFiniteSet(T) /\ S \in SUBSET T
  BY SessionSetsCount
<1> QED BY <1>1, FS_Subset

(* A column of units. *)
LEMMA ColumnCounts ==
  ASSUME NEW s, NEW m \in Nat
  PROVE  IsFiniteSet({s} \X (1..m)) /\ Cardinality({s} \X (1..m)) = m
<1>1. IsFiniteSet({s}) /\ Cardinality({s}) = 1
  BY FS_Singleton
<1>2. IsFiniteSet(1..m) /\ Cardinality(1..m) = m
  <2>1. 1 \in Int /\ m \in Int /\ (IF 1 > m THEN 0 ELSE m - 1 + 1) = m
    OBVIOUS
  <2> QED BY <2>1, FS_Interval
<1>3. IsFiniteSet({s} \X (1..m))
      /\ Cardinality({s} \X (1..m)) = Cardinality({s}) * Cardinality(1..m)
  BY <1>1, <1>2, FS_Product
<1> QED BY <1>1, <1>2, <1>3

(* The units of some sessions are finitely many. *)
LEMMA PartCounts ==
  ASSUME NEW f \in [Sessions -> Nat], NEW S, S \subseteq Sessions
  PROVE  IsFiniteSet(Part(f, S)) /\ Cardinality(Part(f, S)) \in Nat
<1> DEFINE column == [s \in S |-> {s} \X (1..f[s])]
           columns == {column[s] : s \in S}
<1>1. IsFiniteSet(columns)
  <2>1. column \in Surjection(S, columns)
    BY DEF Surjection
  <2>2. IsFiniteSet(S)
    BY SessionSetsCount
  <2> QED BY <2>1, <2>2, FS_Surjection
<1>2. ASSUME NEW T \in columns PROVE IsFiniteSet(T)
  <2>1. PICK s \in S : T = {s} \X (1..f[s])
    BY <1>2
  <2>2. f[s] \in Nat
    OBVIOUS
  <2> QED BY <2>1, <2>2, ColumnCounts
<1>3. Part(f, S) = UNION columns
  BY DEF Part
<1> HIDE DEF columns
<1> QED BY <1>1, <1>2, <1>3, FS_UNION, FS_CardinalityType

LEMMA TotalCounts ==
  ASSUME NEW f \in [Sessions -> Nat]
  PROVE  IsFiniteSet(Units(f)) /\ Total(f) \in Nat
BY PartCounts DEF Units, Total

(* Fewer sessions have fewer units, *)
LEMMA PartGrows ==
  ASSUME NEW f \in [Sessions -> Nat], NEW S, NEW T, S \subseteq T, T \subseteq Sessions
  PROVE  Cardinality(Part(f, S)) <= Cardinality(Part(f, T))
<1>1. Part(f, S) \in SUBSET Part(f, T)
  BY DEF Part
<1> QED BY <1>1, PartCounts, FS_Subset

(* two sets of units together no more than each by itself, *)
LEMMA TogetherNoMore ==
  ASSUME NEW A, NEW B, IsFiniteSet(A), IsFiniteSet(B), NEW C, C \subseteq A \cup B
  PROVE  Cardinality(C) <= Cardinality(A) + Cardinality(B)
<1>1. /\ IsFiniteSet(A \cup B)
      /\ Cardinality(A \cup B) = Cardinality(A) + Cardinality(B) - Cardinality(A \cap B)
  BY FS_Union
<1>2. IsFiniteSet(C) /\ Cardinality(C) <= Cardinality(A \cup B)
  <2>1. C \in SUBSET (A \cup B)
    OBVIOUS
  <2> QED BY <1>1, <2>1, FS_Subset
<1>3. /\ Cardinality(A \cap B) \in Nat /\ Cardinality(A) \in Nat /\ Cardinality(B) \in Nat
      /\ Cardinality(C) \in Nat /\ Cardinality(A \cup B) \in Nat
  BY <1>1, <1>2, FS_Intersection, FS_CardinalityType
<1> QED BY <1>1, <1>2, <1>3

(* and where there is nothing to add up, the sum is 0. *)
LEMMA TotalOfNothing ==
  ASSUME NEW f \in [Sessions -> Nat], \A s \in Sessions : f[s] = 0
  PROVE  Total(f) = 0
<1>1. Units(f) = {}
  <2> SUFFICES ASSUME NEW u \in Units(f) PROVE FALSE
    OBVIOUS
  <2> QED BY UnitsAre
<1> QED BY <1>1, FS_EmptySet DEF Total

(* A summand is replaced. *)
LEMMA TotalChanges ==
  ASSUME NEW f \in [Sessions -> Nat], NEW s \in Sessions, NEW g \in [Sessions -> Nat],
         \A r \in Sessions \ {s} : g[r] = f[r]
  PROVE  Total(g) = Total(f) - f[s] + g[s]
<1> DEFINE before == {s} \X (1..f[s])
           after == {s} \X (1..g[s])
           others == Units(f) \ before
<1>1. before \subseteq Units(f)
  <2> SUFFICES ASSUME NEW u \in before PROVE u \in Units(f)
    OBVIOUS
  <2>1. PICK i \in 1..f[s] : u = <<s, i>>
    OBVIOUS
  <2> QED BY <2>1, UnitsAre
<1>2. Units(g) = others \cup after
  <2>1. ASSUME NEW u \in Units(g) PROVE u \in others \cup after
    <3>1. PICK r \in Sessions : \E i \in 1..g[r] : u = <<r, i>>
      BY <2>1, UnitsAre
    <3>2. CASE r = s
      BY <3>1, <3>2
    <3>3. CASE r # s
      BY <3>1, <3>3, UnitsAre
    <3> QED BY <3>2, <3>3
  <2>2. ASSUME NEW u \in after PROVE u \in Units(g)
    <3>1. PICK i \in 1..g[s] : u = <<s, i>>
      BY <2>2
    <3> QED BY <3>1, UnitsAre
  <2>3. ASSUME NEW u \in others PROVE u \in Units(g)
    <3>1. PICK r \in Sessions : \E i \in 1..f[r] : u = <<r, i>>
      BY <2>3, UnitsAre
    <3>2. r # s
      BY <2>3, <3>1
    <3> QED BY <3>1, <3>2, UnitsAre
  <2> QED BY <2>1, <2>2, <2>3
<1>3. others \cap after = {}
  <2> SUFFICES ASSUME NEW u \in others, u \in after PROVE FALSE
    OBVIOUS
  <2>1. PICK r \in Sessions : \E i \in 1..f[r] : u = <<r, i>>
    BY UnitsAre
  <2> QED BY <2>1
<1>4. f[s] \in Nat /\ g[s] \in Nat /\ Cardinality(Units(f)) \in Nat
  BY TotalCounts DEF Total
<1>5. IsFiniteSet(others) /\ Cardinality(others) = Cardinality(Units(f)) - f[s]
  <2>1. Units(f) \cap before = before
    BY <1>1
  <2>2. Cardinality(before) = f[s]
    BY <1>4, ColumnCounts
  <2>3. IsFiniteSet(Units(f))
    BY TotalCounts
  <2> HIDE DEF before
  <2>4. /\ IsFiniteSet(Units(f) \ before)
        /\ Cardinality(Units(f) \ before)
             = Cardinality(Units(f)) - Cardinality(Units(f) \cap before)
    BY <2>3, FS_Difference
  <2> QED BY <2>1, <2>2, <2>4
<1>6. IsFiniteSet(after) /\ Cardinality(after) = g[s]
  BY <1>4, ColumnCounts
<1>7. Cardinality({}) = 0
  BY FS_EmptySet
<1> HIDE DEF after, others
<1>8. /\ IsFiniteSet(others \cup after)
      /\ Cardinality(others \cup after)
           = Cardinality(others) + Cardinality(after) - Cardinality(others \cap after)
  BY <1>5, <1>6, FS_Union
<1>9. Cardinality(others \cap after) = 0
  BY <1>3, <1>7
<1>10. Cardinality(others \cup after) = (Cardinality(Units(f)) - f[s]) + g[s]
  BY <1>4, <1>5, <1>6, <1>8, <1>9
<1> QED BY <1>2, <1>8, <1>10 DEF Total

-----------------------------------------------------------------------------
(* The invariant. MaxReports bounds the runs only: numbers are enough here. *)

Typed ==
  /\ user \in [Sessions -> {"reads", "closed"}]
  /\ supplier \in
       [Sessions -> {"reads", "merged", "counted", "checks", "fills", "closed"}]
  /\ used \in [Sessions -> Nat] /\ cacheQuota \in [Sessions -> Nat]
  /\ bill \in [Sessions -> Nat] /\ seen \in [Sessions -> Int]
  /\ settlement \in [Sessions -> {"waits", "refresh", "set", "uncount", "done", "kept"}]
  /\ closedFirst \in [Sessions -> {"none", "user", "provider"}]
  /\ looked \in [Sessions -> SUBSET Sessions] /\ refreshed \in [Sessions -> SUBSET Sessions]
  /\ charged \subseteq Sessions /\ queued \subseteq Sessions
  /\ cache \subseteq SUBSET Sessions /\ overlooked \subseteq Settled
  /\ batching \in BOOLEAN /\ troubles \in 0..MaxTroubles
  /\ counter \in Int /\ reports \in Nat
  /\ turns \in Nat /\ turn \in [Sessions -> Nat]

(* What a session has added to the counter; Remember writes it down late. *)
Counted(s) == cacheQuota[s] + (IF supplier[s] = "counted" THEN 1 ELSE 0)

(* At most the last report of a session is not counted. *)
Counting(s) ==
  /\ used[s] = Counted(s) \/ used[s] = Counted(s) + 1
  /\ used[s] # Counted(s) => supplier[s] \in {"merged", "closed"}
  /\ supplier[s] = "merged" => used[s] # Counted(s)

(* At most the last report of a session is not billed. *)
Billing(s) ==
  Closed(s) =>
    /\ used[s] = bill[s] \/ used[s] = bill[s] + 1
    /\ used[s] # bill[s] => supplier[s] # "reads" /\ closedFirst[s] # "provider"

(* Which side has closed first, and what follows from it. *)
Sides(s) ==
  /\ closedFirst[s] = "none" => user[s] # "closed" /\ supplier[s] # "closed"
  /\ closedFirst[s] = "provider" => supplier[s] = "closed"
  /\ Closed(s) => closedFirst[s] # "none"

Local == \A s \in Sessions : Billing(s) /\ Sides(s) /\ (RedisEnabled => Counting(s))

(* What a session has in the counter, and what it has counted to be billed. *)
InCounter == [s \in Sessions |-> IF settlement[s] = "done" THEN 0 ELSE Counted(s)]
InTurns ==
  [s \in Sessions |-> IF Closed(s) /\ bill[s] < Counted(s) THEN bill[s] ELSE Counted(s)]

(* Settled sessions of which a report may be left in the counter. *)
Leftovers ==
  {s \in Settled : closedFirst[s] = "user" /\ supplier[s] \notin {"reads", "merged"}}

(* The shared numbers are sums over the sessions. *)
Sums ==
  /\ reports = Total(used)
  /\ Total(InCounter) <= counter /\ counter <= Total(InCounter) + Cardinality(Leftovers)
  /\ RedisEnabled => turns = Total(InTurns)

(* What may be counted before nothing is let pass any more. *)
Within == IF QuotaAtStart = 0 THEN 0 ELSE QuotaAtStart - 1
Allowed == Within + Spent(overlooked)

(* The last turn of a session that goes on, or whose next report is not counted,
   was allowed; while it is compared, it is no more than what the counter has
   shown and what has been settled. *)
Ranked(s) ==
  /\ turn[s] <= turns
  /\ supplier[s] \in {"reads", "merged"} => turn[s] <= Allowed
  /\ supplier[s] \in {"counted", "checks", "fills"} =>
        0 <= seen[s] /\ turn[s] <= seen[s] + Spent(Settled)
  /\ used[s] # InTurns[s] => turn[s] <= Allowed

(* A turn that was not allowed is the last one of its session. *)
Remembered(n) == Allowed < n /\ n <= turns => \E s \in Sessions : turn[s] = n

Ranks ==
  RedisEnabled => /\ \A s \in Sessions : Ranked(s)
                  /\ \A n \in Nat : Remembered(n)

IInv == Typed /\ Local /\ Sums /\ Ranks

(* What some sessions have spent is a number. *)
LEMMA SpentIs ==
  ASSUME Typed, NEW C, C \subseteq Sessions
  PROVE  Spent(C) = Cardinality(Part(bill, C)) /\ Spent(C) \in Nat
<1>1. bill \in [Sessions -> Nat]
  BY DEF Typed
<1> QED BY <1>1, PartCounts DEF Spent, Part

LEMMA AllowedIs == Typed => Allowed \in Nat /\ Within \in Nat
<1> SUFFICES ASSUME Typed PROVE Allowed \in Nat /\ Within \in Nat
  OBVIOUS
<1>1. Within \in Nat
  BY RealtimeAssumption DEF RealtimeAssumption, Within
<1>2. Spent(overlooked) \in Nat
  <2>1. overlooked \subseteq Sessions
    BY DEF Typed, Settled
  <2> QED BY <2>1, SpentIs
<1> QED BY <1>1, <1>2 DEF Allowed

(* What is summed up over the sessions are numbers. *)
LEMMA SummandsTyped ==
  ASSUME Typed
  PROVE  /\ used \in [Sessions -> Nat]
         /\ InCounter \in [Sessions -> Nat]
         /\ InTurns \in [Sessions -> Nat]
BY DEF Typed, InCounter, InTurns, Counted

(* The invariant holds initially. *)
LEMMA InitHolds == RealtimeInit => IInv
<1> SUFFICES ASSUME RealtimeInit PROVE IInv
  OBVIOUS
<1> USE RealtimeAssumption DEF RealtimeAssumption
<1>1. Typed
  BY DEF RealtimeInit, Typed
<1>2. Local
  BY DEF RealtimeInit, Local, Billing, Sides, Counting, Counted, Closed
<1>3. \A s \in Sessions : used[s] = 0 /\ InCounter[s] = 0 /\ InTurns[s] = 0
  BY DEF RealtimeInit, InCounter, InTurns, Counted, Closed
<1>4. Sums
  <2>1. Total(used) = 0 /\ Total(InCounter) = 0 /\ Total(InTurns) = 0
    BY <1>1, <1>3, SummandsTyped, TotalOfNothing
  <2>2. Cardinality(Leftovers) \in Nat
    <3>1. Leftovers \subseteq Sessions
      BY DEF Leftovers, Settled
    <3> QED BY <3>1, SessionSetsCount
  <2>3. counter = 0 /\ reports = 0 /\ turns = 0
    BY DEF RealtimeInit
  <2> QED BY <2>1, <2>2, <2>3 DEF Sums
<1>5. Ranks
  <2>1. Allowed \in Nat
    BY <1>1, AllowedIs
  <2>2. turns = 0 /\ \A s \in Sessions : turn[s] = 0 /\ supplier[s] = "reads"
    BY DEF RealtimeInit
  <2>3. ASSUME NEW s \in Sessions PROVE Ranked(s)
    BY <2>1, <2>2 DEF Ranked
  <2>4. ASSUME NEW n \in Nat PROVE Remembered(n)
    BY <2>1, <2>2 DEF Remembered
  <2> QED BY <2>3, <2>4 DEF Ranks
<1> QED BY <1>1, <1>2, <1>4, <1>5 DEF IInv

(* The types are kept by every step. *)
LEMMA TypedStep == Typed /\ [RealtimeNext]_realtimeVars => Typed'
<1> SUFFICES ASSUME Typed, [RealtimeNext]_realtimeVars PROVE Typed'
  OBVIOUS
<1> USE RealtimeAssumption
    DEF RealtimeAssumption, Typed, transferVars, settlingVars, quotaVars, historyVars,
        OnlyMessages, SupplierGoes, SupplierCloses, FirstClosed, SettlementGoes,
        Troubled, Settled
<1>1. ASSUME NEW s \in Sessions, UserEnds(s) PROVE Typed'
  BY <1>1 DEF UserEnds
<1>2. ASSUME NEW s \in Sessions, SupplierEnds(s) PROVE Typed'
  BY <1>2 DEF SupplierEnds
<1>3. ASSUME NEW s \in Sessions, Report(s) PROVE Typed'
  <2>1. CASE RedisEnabled
    BY <1>3, <2>1 DEF Report
  <2>2. CASE ~RedisEnabled
    BY <1>3, <2>2 DEF Report, PassesOn
  <2> QED BY <2>1, <2>2
<1>4. ASSUME NEW s \in Sessions, Count(s) PROVE Typed'
  <2>1. CASE IsBilled(s)
    BY <1>4, <2>1 DEF Count
  <2>2. CASE ~IsBilled(s)
    BY <1>4, <2>2 DEF Count
  <2> QED BY <2>1, <2>2
<1>5. ASSUME NEW s \in Sessions, CountFails(s) PROVE Typed'
  BY <1>5 DEF CountFails
<1>6. ASSUME NEW s \in Sessions, Remember(s) PROVE Typed'
  BY <1>6 DEF Remember
<1>7. ASSUME NEW s \in Sessions, NEW C, Compare(s, C),
             UNCHANGED <<user, used, cacheQuota, settlingVars, counter, charged, queued>>,
             UNCHANGED <<batching, reports, turns, turn>>,
             looked' \in [Sessions -> SUBSET Sessions],
             cache' \subseteq SUBSET Sessions, troubles' \in 0..MaxTroubles
      PROVE  Typed'
  <2>1. CASE seen[s] >= Quota(C)
    BY <1>7, <2>1 DEF Compare
  <2>2. CASE ~(seen[s] >= Quota(C))
    BY <1>7, <2>2 DEF Compare, PassesOn
  <2> QED BY <2>1, <2>2
<1>8. ASSUME NEW s \in Sessions, Check(s) PROVE Typed'
  <2>1. PICK C \in cache : Compare(s, C)
    BY <1>8 DEF Check
  <2> QED BY <1>7, <1>8, <2>1 DEF Check
<1>9. ASSUME NEW s \in Sessions, LookUp(s) PROVE Typed'
  <2>1. Missing \in {0, 1}
    BY DEF Missing
  <2> QED BY <1>9, <2>1 DEF LookUp
<1>10. ASSUME NEW s \in Sessions, LookUpFails(s) PROVE Typed'
  <2>1. Missing \in {0, 1}
    BY DEF Missing
  <2> QED BY <1>10, <2>1 DEF LookUpFails
<1>11. ASSUME NEW s \in Sessions, Fill(s) PROVE Typed'
  <2>1. Compare(s, looked[s])
    BY <1>11 DEF Fill
  <2>2. cache' \subseteq SUBSET Sessions /\ troubles' \in 0..MaxTroubles
    BY <1>11 DEF Fill
  <2>3. looked' \in [Sessions -> SUBSET Sessions]
    BY <1>11 DEF Fill
  <2> QED BY <1>7, <1>11, <2>1, <2>2, <2>3 DEF Fill
<1>12. ASSUME NEW s \in Sessions, FillFails(s) PROVE Typed'
  BY <1>12 DEF FillFails
<1>13. ASSUME NEW s \in Sessions, Charge(s) PROVE Typed'
  <2>1. Bill(s, used[s])
    BY <1>13 DEF Charge
  <2>2. CASE used[s] > 0 /\ QueueCharge(s)
    BY <2>1, <2>2 DEF Bill, QueueCharge, Refreshed
  <2>3. CASE used[s] > 0 /\ WriteCharge(s)
    BY <2>1, <2>3 DEF Bill, WriteCharge, Refreshed, DropCopy
  <2>4. CASE used[s] > 0 /\ ChargeFails(s)
    BY <2>1, <2>4 DEF Bill, ChargeFails
  <2>5. CASE ~(used[s] > 0)
    BY <2>1, <2>5 DEF Bill
  <2> QED BY <2>1, <2>2, <2>3, <2>4, <2>5 DEF Bill
<1>14. ASSUME NEW s \in Sessions, Reread(s) \/ RereadFails(s) PROVE Typed'
  BY <1>14 DEF Reread, RereadFails
<1>15. ASSUME NEW s \in Sessions, Recopy(s) PROVE Typed'
  BY <1>15 DEF Recopy
<1>16. ASSUME NEW s \in Sessions, Uncount(s) PROVE Typed'
  BY <1>16 DEF Uncount
<1>17. ASSUME NEW s \in Sessions, UncountFails(s) PROVE Typed'
  BY <1>17 DEF UncountFails
<1>18. ASSUME Flush \/ CopyExpires PROVE Typed'
  BY <1>18 DEF Flush, CopyExpires, DropCopy
<1>19. CASE UNCHANGED realtimeVars
  BY <1>19 DEF realtimeVars
<1> QED
  BY <1>1, <1>2, <1>3, <1>4, <1>5, <1>6, <1>8, <1>9, <1>10, <1>11, <1>12, <1>13,
     <1>14, <1>15, <1>16, <1>17, <1>18, <1>19
  DEF RealtimeNext, SupplierStep, SettlingStep

(* What is true of each session by itself is kept: a step changes one session,
   and the shared numbers do not occur. *)
LEMMA LocalStep == Typed /\ Local /\ [RealtimeNext]_realtimeVars => Local'
<1> SUFFICES ASSUME Typed, Local, [RealtimeNext]_realtimeVars,
                    NEW r \in Sessions
             PROVE  Billing(r)' /\ Sides(r)' /\ (RedisEnabled => Counting(r))'
  BY DEF Local
<1>0. Billing(r) /\ Sides(r) /\ (RedisEnabled => Counting(r))
  BY DEF Local
<1> USE <1>0 DEF Typed, Billing, Sides, Counting, Counted, Closed, transferVars,
            settlingVars, OnlyMessages, SupplierGoes, SupplierCloses, FirstClosed,
            SettlementGoes
<1> DEFINE Kept == Billing(r)' /\ Sides(r)' /\ (RedisEnabled => Counting(r))'
<1>1. ASSUME NEW s \in Sessions, UserEnds(s) PROVE Kept
  BY <1>1 DEF UserEnds
<1>2. ASSUME NEW s \in Sessions, SupplierEnds(s) PROVE Kept
  BY <1>2 DEF SupplierEnds
<1>3. ASSUME NEW s \in Sessions, Report(s) PROVE Kept
  <2>1. CASE RedisEnabled
    BY <1>3, <2>1 DEF Report
  <2>2. CASE ~RedisEnabled
    BY <1>3, <2>2 DEF Report, PassesOn
  <2> QED BY <2>1, <2>2
<1>4. ASSUME NEW s \in Sessions, Count(s) PROVE Kept
  BY <1>4 DEF Count
<1>5. ASSUME NEW s \in Sessions, CountFails(s) PROVE Kept
  BY <1>5 DEF CountFails
<1>6. ASSUME NEW s \in Sessions, Remember(s) PROVE Kept
  BY <1>6 DEF Remember
<1>7. ASSUME NEW s \in Sessions, NEW C, Compare(s, C), supplier[s] \in {"checks", "fills"},
             UNCHANGED <<user, used, cacheQuota, settlingVars>>
      PROVE  Kept
  <2>1. CASE seen[s] >= Quota(C)
    BY <1>7, <2>1 DEF Compare
  <2>2. CASE ~(seen[s] >= Quota(C))
    BY <1>7, <2>2 DEF Compare, PassesOn
  <2> QED BY <2>1, <2>2
<1>8. ASSUME NEW s \in Sessions, Check(s) \/ Fill(s) PROVE Kept
  <2>1. PICK C : Compare(s, C)
    BY <1>8 DEF Check, Fill
  <2> QED BY <1>7, <1>8, <2>1 DEF Check, Fill
<1>9. ASSUME NEW s \in Sessions, LookUp(s) PROVE Kept
  BY <1>9 DEF LookUp
<1>10. ASSUME NEW s \in Sessions, LookUpFails(s) \/ FillFails(s) PROVE Kept
  BY <1>10 DEF LookUpFails, FillFails
<1>11. ASSUME NEW s \in Sessions, Charge(s) PROVE Kept
  <2>1. PICK label \in {"refresh", "uncount"} : SettlementGoes(s, "waits", label)
    BY <1>11 DEF Charge, Bill, QueueCharge, WriteCharge, ChargeFails, Refreshed
  <2> QED BY <1>11, <2>1 DEF Charge, Bill
<1>12. ASSUME NEW s \in Sessions,
              Reread(s) \/ RereadFails(s) \/ Recopy(s) \/ Uncount(s) \/ UncountFails(s)
       PROVE  Kept
  BY <1>12 DEF Reread, RereadFails, Recopy, Uncount, UncountFails
<1>13. ASSUME Flush \/ CopyExpires PROVE Kept
  BY <1>13 DEF Flush, CopyExpires
<1>14. CASE UNCHANGED realtimeVars
  BY <1>14 DEF realtimeVars
<1> QED
  BY <1>1, <1>2, <1>3, <1>4, <1>5, <1>6, <1>8, <1>9, <1>10, <1>11, <1>12, <1>13, <1>14
  DEF RealtimeNext, SupplierStep, SettlingStep

(* Most steps change no summand: only Report, Count, Uncount do. *)
LEMMA SumsKept ==
  ASSUME Sums, used' = used, reports' = reports, InCounter' = InCounter,
         counter' = counter, Leftovers \subseteq Leftovers',
         RedisEnabled => InTurns' = InTurns /\ turns' = turns, Typed
  PROVE  Sums'
<1>1. Cardinality(Leftovers) <= Cardinality(Leftovers')
  <2>1. Leftovers' \subseteq Sessions
    BY DEF Leftovers, Settled
  <2> QED BY <2>1, FewerSessions
<1>2. /\ Cardinality(Leftovers) \in Nat /\ Cardinality(Leftovers') \in Nat
      /\ Total(InCounter) \in Nat /\ counter \in Int
  <2>1. Leftovers \subseteq Sessions /\ Leftovers' \subseteq Sessions
    BY DEF Leftovers, Settled
  <2> QED BY <2>1, SessionSetsCount, SummandsTyped, TotalCounts DEF Typed
<1>3. /\ Total(used)' = Total(used') /\ Total(InCounter)' = Total(InCounter')
      /\ Total(InTurns)' = Total(InTurns')
      /\ Cardinality(Leftovers)' = Cardinality(Leftovers')
  BY DEF Total, Units, Part
<1> QED BY <1>1, <1>2, <1>3 DEF Sums

(* A step of a goroutine that does not count keeps what is counted, and what is
   left in the counter. *)
LEMMA CountedKept ==
  ASSUME Typed, Local, NEW s \in Sessions,
         \/ UserEnds(s) \/ SupplierEnds(s) \/ CountFails(s) \/ Remember(s)
         \/ Check(s) \/ LookUp(s) \/ LookUpFails(s) \/ Fill(s) \/ FillFails(s)
  PROVE  /\ InCounter' = InCounter /\ InTurns' = InTurns
         /\ Leftovers \subseteq Leftovers'
<1> USE DEF Typed, InCounter, InTurns, Counted, Leftovers, Settled, Closed, transferVars,
            settlingVars, OnlyMessages, SupplierGoes, SupplierCloses, FirstClosed
<1>1. CASE UserEnds(s)
  BY <1>1 DEF UserEnds, Local, Sides
<1>2. CASE SupplierEnds(s)
  BY <1>2 DEF SupplierEnds, Local, Sides
<1>3. CASE CountFails(s)
  BY <1>3 DEF CountFails, Local, Sides
<1>4. CASE Remember(s)
  BY <1>4 DEF Remember
<1>5. CASE LookUp(s) \/ LookUpFails(s) \/ FillFails(s)
  BY <1>5 DEF LookUp, LookUpFails, FillFails
<1>6. CASE Check(s) \/ Fill(s)
  <2>1. PICK C : Compare(s, C)
    BY <1>6 DEF Check, Fill
  <2>2. SupplierCloses(s) \/ (~Closed(s) /\ SupplierGoes(s, "reads") /\ UNCHANGED closedFirst)
    BY <2>1 DEF Compare, PassesOn
  <2>3. supplier[s] \in {"checks", "fills"} /\ UNCHANGED <<cacheQuota, settlement, bill>>
    BY <1>6 DEF Check, Fill
  <2>4. CASE SupplierCloses(s)
    BY <2>3, <2>4
  <2>5. CASE ~Closed(s) /\ SupplierGoes(s, "reads") /\ UNCHANGED closedFirst
    BY <2>3, <2>5
  <2> QED BY <2>2, <2>4, <2>5
<1> QED BY <1>1, <1>2, <1>3, <1>4, <1>5, <1>6

(* So does a step of the settlement that leaves the counter alone. *)
LEMMA SettlingKept ==
  ASSUME Typed, Local, NEW s \in Sessions,
         \/ Charge(s) \/ Reread(s) \/ RereadFails(s) \/ Recopy(s) \/ UncountFails(s)
  PROVE  /\ InCounter' = InCounter /\ (RedisEnabled => InTurns' = InTurns)
         /\ Leftovers' = Leftovers
<1> USE DEF Typed, InCounter, InTurns, Counted, Leftovers, Settled, Closed, transferVars,
            settlingVars, SettlementGoes
<1>1. CASE Charge(s)
  <2>1. PICK label \in {"refresh", "uncount"} : SettlementGoes(s, "waits", label)
    BY <1>1 DEF Charge, Bill, QueueCharge, WriteCharge, ChargeFails, Refreshed
  <2>2. bill' = [bill EXCEPT ![s] = used[s]] /\ UNCHANGED transferVars
    BY <1>1 DEF Charge, Bill
  <2>3. RedisEnabled => Counted(s) <= used[s]
    BY DEF Local, Counting
  <2>4. InCounter' = InCounter /\ Leftovers' = Leftovers
    BY <2>1, <2>2
  <2>5. ASSUME RedisEnabled PROVE InTurns' = InTurns
    BY <2>1, <2>2, <2>3, <2>5
  <2> QED BY <2>4, <2>5
<1>2. CASE Reread(s) \/ RereadFails(s) \/ Recopy(s)
  BY <1>2 DEF Reread, RereadFails, Recopy
<1>3. CASE UncountFails(s)
  BY <1>3 DEF UncountFails
<1> QED BY <1>1, <1>2, <1>3

(* What is counted late, after its session was settled, is left in the counter. *)
LEMMA CountChanges ==
  ASSUME Typed, Local, NEW s \in Sessions, Count(s)
  PROVE  /\ \A r \in Sessions \ {s} : InCounter'[r] = InCounter[r] /\ InTurns'[r] = InTurns[r]
         /\ settlement[s] # "done" => InCounter'[s] = InCounter[s] + 1
         /\ settlement[s] = "done" =>
              InCounter'[s] = InCounter[s] /\ s \notin Leftovers /\ s \in Leftovers'
         /\ Leftovers \subseteq Leftovers'
         /\ RedisEnabled /\ IsBilled(s) =>
              InTurns'[s] = InTurns[s] + 1 /\ InTurns'[s] = used[s]
         /\ RedisEnabled /\ ~IsBilled(s) =>
              InTurns'[s] = InTurns[s] /\ InTurns[s] # used[s]
<1> USE DEF Typed, InCounter, InTurns, Counted, Leftovers, Settled, Closed, IsBilled
<1>1. /\ supplier[s] = "merged" /\ supplier' = [supplier EXCEPT ![s] = "counted"]
      /\ UNCHANGED <<used, cacheQuota, settlement, bill, closedFirst>>
  BY DEF Count, SupplierGoes, settlingVars
<1>2. \A r \in Sessions \ {s} : InCounter'[r] = InCounter[r] /\ InTurns'[r] = InTurns[r]
  BY <1>1
<1>3. settlement[s] # "done" => InCounter'[s] = InCounter[s] + 1
  BY <1>1
<1>4. Billing(s) /\ Sides(s) /\ (RedisEnabled => Counting(s))
  BY DEF Local
<1>5. ASSUME settlement[s] = "done"
      PROVE  InCounter'[s] = InCounter[s] /\ s \notin Leftovers /\ s \in Leftovers'
  <2>1. closedFirst[s] = "user"
    BY <1>1, <1>4, <1>5 DEF Sides
  <2> QED BY <1>1, <1>5, <2>1
<1>6. Leftovers \subseteq Leftovers'
  BY <1>1
<1>7. ASSUME RedisEnabled, IsBilled(s)
      PROVE  InTurns'[s] = InTurns[s] + 1 /\ InTurns'[s] = used[s]
  BY <1>1, <1>4, <1>7 DEF Counting, Billing
<1>8. ASSUME RedisEnabled, ~IsBilled(s)
      PROVE  InTurns'[s] = InTurns[s] /\ InTurns[s] # used[s]
  BY <1>1, <1>4, <1>8 DEF Counting, Billing
<1> QED BY <1>2, <1>3, <1>5, <1>6, <1>7, <1>8

(* The shared numbers stay the sums they are. *)
LEMMA SumsStep ==
  Typed /\ Typed' /\ Local /\ Sums /\ [RealtimeNext]_realtimeVars => Sums'
<1> SUFFICES ASSUME Typed, Typed', Local, Sums, [RealtimeNext]_realtimeVars PROVE Sums'
  OBVIOUS
<1> USE DEF transferVars, settlingVars, quotaVars, historyVars, OnlyMessages
<1>1. /\ used \in [Sessions -> Nat] /\ InCounter \in [Sessions -> Nat]
      /\ InTurns \in [Sessions -> Nat]
  BY SummandsTyped
<1>2. /\ used' \in [Sessions -> Nat] /\ InCounter' \in [Sessions -> Nat]
      /\ InTurns' \in [Sessions -> Nat]
  BY DEF Typed, InCounter, InTurns, Counted
<1>3. /\ Total(used) \in Nat /\ Total(InCounter) \in Nat /\ Total(InTurns) \in Nat
      /\ counter \in Int /\ turns \in Nat
  BY <1>1, TotalCounts DEF Typed
<1>4. /\ IsFiniteSet(Leftovers) /\ Cardinality(Leftovers) \in Nat
      /\ Leftovers' \subseteq Sessions /\ Cardinality(Leftovers') \in Nat
  <2>1. Leftovers \subseteq Sessions /\ Leftovers' \subseteq Sessions
    BY DEF Leftovers, Settled
  <2> QED BY <2>1, SessionSetsCount
(* The sets depend on the functions alone. *)
<1>5. /\ Total(used)' = Total(used') /\ Total(InCounter)' = Total(InCounter')
      /\ Total(InTurns)' = Total(InTurns')
      /\ Cardinality(Leftovers)' = Cardinality(Leftovers')
  BY DEF Total, Units, Part
<1>6. ASSUME NEW s \in Sessions,
             \/ UserEnds(s) \/ SupplierEnds(s) \/ CountFails(s) \/ Remember(s)
             \/ Check(s) \/ LookUp(s) \/ LookUpFails(s) \/ Fill(s) \/ FillFails(s)
      PROVE  Sums'
  <2>1. /\ InCounter' = InCounter /\ InTurns' = InTurns /\ Leftovers \subseteq Leftovers'
    BY <1>6, CountedKept
  <2>2. UNCHANGED <<used, reports, counter, turns>>
    BY <1>6 DEF UserEnds, SupplierEnds, CountFails, Remember, Check, LookUp, LookUpFails,
                Fill, FillFails
  <2> QED BY <2>1, <2>2, SumsKept
<1>7. ASSUME NEW s \in Sessions,
             \/ Charge(s) \/ Reread(s) \/ RereadFails(s) \/ Recopy(s) \/ UncountFails(s)
      PROVE  Sums'
  <2>1. /\ InCounter' = InCounter /\ (RedisEnabled => InTurns' = InTurns)
        /\ Leftovers' = Leftovers
    BY <1>7, SettlingKept
  <2>2. UNCHANGED <<used, reports, counter, turns>>
    BY <1>7 DEF Charge, Bill, Reread, RereadFails, Recopy, UncountFails
  <2> QED BY <2>1, <2>2, SumsKept
<1>8. ASSUME NEW s \in Sessions, Report(s) PROVE Sums'
  <2>1. /\ used'[s] = used[s] + 1 /\ \A r \in Sessions \ {s} : used'[r] = used[r]
        /\ reports' = reports + 1
        /\ UNCHANGED <<cacheQuota, settlement, bill, counter, turns>>
    BY <1>8 DEF Typed, Report
  <2>2. Total(used') = Total(used) - used[s] + used'[s]
    BY <1>1, <1>2, <2>1, TotalChanges
  <2>3. \/ /\ supplier' = [supplier EXCEPT ![s] = "merged"] /\ closedFirst' = closedFirst
        \/ SupplierCloses(s)
        \/ supplier' = [supplier EXCEPT ![s] = "reads"] /\ closedFirst' = closedFirst
    BY <1>8 DEF Report, PassesOn, SupplierGoes
  <2>4. /\ InCounter' = InCounter /\ InTurns' = InTurns /\ Leftovers \subseteq Leftovers'
    BY <1>8, <2>1, <2>3
    DEF Typed, Report, InCounter, InTurns, Counted, Closed, Leftovers, Settled,
        SupplierCloses, SupplierGoes, FirstClosed
  <2>5. Cardinality(Leftovers) <= Cardinality(Leftovers')
    BY <1>4, <2>4, FewerSessions
  <2>6. used[s] \in Nat
    BY <1>1
  <2> QED BY <1>3, <1>4, <1>5, <2>1, <2>2, <2>4, <2>5, <2>6 DEF Sums
<1>9. ASSUME NEW s \in Sessions, Count(s) PROVE Sums'
  <2>1. UNCHANGED <<used, reports>> /\ counter' = counter + 1
    BY <1>9 DEF Count
  <2>2. Total(InCounter') = Total(InCounter) - InCounter[s] + InCounter'[s]
    BY <1>1, <1>2, <1>9, CountChanges, TotalChanges
  <2>3. InCounter[s] \in Nat /\ InTurns[s] \in Nat /\ InTurns'[s] \in Nat
    BY <1>1, <1>2
  <2>4. /\ Total(InCounter') <= counter'
        /\ counter' <= Total(InCounter') + Cardinality(Leftovers')
    <3>1. CASE settlement[s] # "done"
      <4>1. InCounter'[s] = InCounter[s] + 1 /\ Leftovers \subseteq Leftovers'
        BY <1>9, <3>1, CountChanges
      <4>2. Cardinality(Leftovers) <= Cardinality(Leftovers')
        BY <1>4, <4>1, FewerSessions
      <4> QED BY <1>3, <1>4, <2>1, <2>2, <2>3, <4>1, <4>2 DEF Sums
    <3>2. CASE settlement[s] = "done"
      <4>1. /\ InCounter'[s] = InCounter[s] /\ s \notin Leftovers
            /\ Leftovers \cup {s} \subseteq Leftovers'
        BY <1>9, <3>2, CountChanges
      <4>2. Cardinality(Leftovers \cup {s}) = Cardinality(Leftovers) + 1
        BY <1>4, <4>1, FS_AddElement
      <4>3. Cardinality(Leftovers) + 1 <= Cardinality(Leftovers')
        BY <1>4, <4>1, <4>2, FewerSessions
      <4> QED BY <1>3, <1>4, <2>1, <2>2, <2>3, <4>1, <4>3 DEF Sums
    <3> QED BY <3>1, <3>2
  <2>5. ASSUME RedisEnabled PROVE turns' = Total(InTurns')
    <3>1. Total(InTurns') = Total(InTurns) - InTurns[s] + InTurns'[s]
      BY <1>1, <1>2, <1>9, CountChanges, TotalChanges
    <3>2. CASE IsBilled(s)
      <4>1. turns' = turns + 1 /\ InTurns'[s] = InTurns[s] + 1
        BY <1>9, <2>5, <3>2, CountChanges DEF Count
      <4> QED BY <1>3, <2>3, <2>5, <3>1, <4>1 DEF Sums
    <3>3. CASE ~IsBilled(s)
      <4>1. turns' = turns /\ InTurns'[s] = InTurns[s]
        BY <1>9, <2>5, <3>3, CountChanges DEF Count
      <4> QED BY <1>3, <2>3, <2>5, <3>1, <4>1 DEF Sums
    <3> QED BY <3>2, <3>3
  <2> QED BY <1>5, <2>1, <2>4, <2>5 DEF Sums
<1>10. ASSUME NEW s \in Sessions, Uncount(s) PROVE Sums'
  <2>1. /\ UNCHANGED <<used, reports, supplier, closedFirst, cacheQuota, bill, turns>>
        /\ settlement[s] = "uncount" /\ settlement' = [settlement EXCEPT ![s] = "done"]
        /\ counter' = counter - cacheQuota[s] /\ cacheQuota[s] \in Nat
    BY <1>10 DEF Typed, Uncount, SettlementGoes
  <2>2. InTurns' = InTurns
    BY <2>1 DEF Typed, InTurns, Closed, Counted
  <2>3. /\ \A r \in Sessions \ {s} : InCounter'[r] = InCounter[r]
        /\ InCounter'[s] = 0 /\ InCounter[s] = Counted(s)
    BY <2>1 DEF Typed, InCounter, Counted
  <2>4. Total(InCounter') = Total(InCounter) - InCounter[s] + InCounter'[s]
    BY <1>1, <1>2, <2>3, TotalChanges
  <2>5. Leftovers \subseteq Leftovers' /\ s \notin Leftovers
    BY <2>1 DEF Typed, Leftovers, Settled
  <2>6. Cardinality(Leftovers) <= Cardinality(Leftovers')
    BY <1>4, <2>5, FewerSessions
  <2>7. /\ Total(InCounter') <= counter'
        /\ counter' <= Total(InCounter') + Cardinality(Leftovers')
    <3>1. CASE supplier[s] # "counted"
      <4>1. Counted(s) = cacheQuota[s]
        BY <2>1, <3>1 DEF Counted
      <4> QED BY <1>3, <1>4, <2>1, <2>3, <2>4, <2>6, <4>1 DEF Sums
    <3>2. CASE supplier[s] = "counted"
      <4>1. Counted(s) = cacheQuota[s] + 1
        BY <2>1, <3>2 DEF Counted
      <4>2. s \in Leftovers'
        <5>1. closedFirst[s] = "user"
          BY <2>1, <3>2 DEF Typed, Local, Sides, Closed
        <5> QED BY <2>1, <3>2, <5>1 DEF Typed, Leftovers, Settled
      <4>3. Cardinality(Leftovers \cup {s}) = Cardinality(Leftovers) + 1
        BY <1>4, <2>5, FS_AddElement
      <4>4. Cardinality(Leftovers) + 1 <= Cardinality(Leftovers')
        BY <1>4, <2>5, <4>2, <4>3, FewerSessions
      <4> QED BY <1>3, <1>4, <2>1, <2>3, <2>4, <4>1, <4>4 DEF Sums
    <3> QED BY <3>1, <3>2
  <2> QED BY <1>5, <2>1, <2>2, <2>7 DEF Sums
<1>11. CASE Flush \/ CopyExpires \/ UNCHANGED realtimeVars
  <2>1. UNCHANGED <<used, reports, supplier, closedFirst, cacheQuota, bill, settlement>>
        /\ UNCHANGED <<counter, turns>>
    BY <1>11 DEF Flush, CopyExpires, realtimeVars
  <2>2. InCounter' = InCounter /\ InTurns' = InTurns /\ Leftovers' = Leftovers
    BY <2>1 DEF InCounter, InTurns, Counted, Closed, Leftovers, Settled
  <2> QED BY <2>1, <2>2, SumsKept
<1> QED
  BY <1>6, <1>7, <1>8, <1>9, <1>10, <1>11 DEF RealtimeNext, SupplierStep, SettlingStep

(* Everything counted to be billed is still in the counter, or settled. *)
LEMMA TurnsFit ==
  ASSUME Typed, Local, Sums, RedisEnabled
  PROVE  turns <= counter + Spent(Settled) /\ 0 <= counter
<1>1. InCounter \in [Sessions -> Nat] /\ InTurns \in [Sessions -> Nat] /\ bill \in [Sessions -> Nat]
  BY SummandsTyped DEF Typed
<1>2. Settled \subseteq Sessions
  BY DEF Settled
<1>3. Units(InTurns) \subseteq Units(InCounter) \cup Part(bill, Settled)
  <2> SUFFICES ASSUME NEW u \in Units(InTurns)
               PROVE  u \in Units(InCounter) \cup Part(bill, Settled)
    OBVIOUS
  <2>1. PICK s \in Sessions : \E i \in 1..InTurns[s] : u = <<s, i>>
    BY UnitsAre
  <2>2. PICK i \in 1..InTurns[s] : u = <<s, i>>
    BY <2>1
  <2>3. bill[s] \in Nat /\ InCounter[s] \in Nat /\ InTurns[s] \in Nat
    BY <1>1
  <2>4. CASE settlement[s] = "done"
    <3>1. s \in Settled /\ InTurns[s] <= bill[s]
      BY <2>3, <2>4 DEF Typed, Settled, InTurns, Counted, Closed
    <3>2. i \in 1..bill[s]
      BY <2>3, <3>1
    <3> QED BY <2>2, <3>1, <3>2, PartIs
  <2>5. CASE settlement[s] # "done"
    <3>1. InTurns[s] <= InCounter[s]
      BY <2>3, <2>5 DEF Typed, InTurns, InCounter, Counted, Closed
    <3>2. i \in 1..InCounter[s]
      BY <2>3, <3>1
    <3> QED BY <2>2, <3>2, UnitsAre
  <2> QED BY <2>4, <2>5
<1>4. IsFiniteSet(Units(InCounter)) /\ IsFiniteSet(Part(bill, Settled))
  BY <1>1, <1>2, TotalCounts, PartCounts
<1>5. Cardinality(Units(InTurns))
        <= Cardinality(Units(InCounter)) + Cardinality(Part(bill, Settled))
  BY <1>3, <1>4, TogetherNoMore
<1>6. Spent(Settled) = Cardinality(Part(bill, Settled)) /\ Spent(Settled) \in Nat
  BY <1>2, SpentIs
<1>7. Total(InCounter) \in Nat /\ Total(InTurns) \in Nat /\ counter \in Int
  BY <1>1, TotalCounts DEF Typed
<1>8. turns = Total(InTurns) /\ Total(InCounter) <= counter
  BY DEF Sums
<1> QED BY <1>5, <1>6, <1>7, <1>8 DEF Total

(* What is settled stays settled, and what is overlooked, overlooked: what these
   sessions have spent only grows. *)
LEMMA SpentGrows ==
  ASSUME Typed, Typed', [RealtimeNext]_realtimeVars
  PROVE  /\ Allowed \in Nat /\ Allowed' \in Nat /\ Allowed <= Allowed'
         /\ Spent(Settled) \in Nat /\ Spent(Settled)' \in Nat
         /\ Spent(Settled) <= Spent(Settled)'
<1> DEFINE Kept == /\ Settled \subseteq Settled' /\ overlooked \subseteq overlooked'
                   /\ \A s \in Settled : bill'[s] = bill[s]
<1>1. Kept
  <2> USE DEF transferVars, settlingVars, quotaVars, historyVars, OnlyMessages,
              SettlementGoes, Settled, Typed
  <2>1. ASSUME NEW s \in Sessions, UserEnds(s) \/ SupplierEnds(s) \/ Report(s) PROVE Kept
    BY <2>1 DEF UserEnds, SupplierEnds, Report
  <2>2. ASSUME NEW s \in Sessions, SupplierStep(s) PROVE Kept
    BY <2>2 DEF SupplierStep, Count, CountFails, Remember, Check, LookUp, LookUpFails,
                Fill, FillFails, Compare
  <2>3. ASSUME NEW s \in Sessions, SettlingStep(s) PROVE Kept
    <3>1. CASE Charge(s)
      <4>1. PICK label \in {"refresh", "uncount"} : SettlementGoes(s, "waits", label)
        BY <3>1 DEF Charge, Bill, QueueCharge, WriteCharge, ChargeFails, Refreshed
      <4> QED BY <3>1, <4>1 DEF Charge, Bill
    <3>2. CASE ~Charge(s)
      BY <2>3, <3>2 DEF SettlingStep, Reread, RereadFails, Recopy, Uncount, UncountFails
    <3> QED BY <3>1, <3>2
  <2>4. CASE Flush \/ CopyExpires \/ UNCHANGED realtimeVars
    BY <2>4 DEF Flush, CopyExpires, realtimeVars
  <2> QED BY <2>1, <2>2, <2>3, <2>4 DEF RealtimeNext
<1>2. /\ overlooked \subseteq Settled /\ overlooked' \subseteq Settled'
      /\ Settled \subseteq Sessions /\ Settled' \subseteq Sessions
      /\ bill \in [Sessions -> Nat] /\ bill' \in [Sessions -> Nat]
  BY DEF Typed, Settled
<1>3. /\ Spent(Settled) = Cardinality(Part(bill, Settled))
      /\ Spent(overlooked) = Cardinality(Part(bill, overlooked))
      /\ Spent(Settled)' = Cardinality(Part(bill', Settled'))
      /\ Spent(overlooked)' = Cardinality(Part(bill', overlooked'))
  BY DEF Spent, Part
<1>4. Part(bill, Settled) = Part(bill', Settled) /\ Part(bill, overlooked) = Part(bill', overlooked)
  BY <1>1, <1>2 DEF Part
<1>5. /\ Spent(Settled) <= Spent(Settled)' /\ Spent(overlooked) <= Spent(overlooked)'
  <2>1. Cardinality(Part(bill', Settled)) <= Cardinality(Part(bill', Settled'))
    BY <1>1, <1>2, PartGrows
  <2>2. Cardinality(Part(bill', overlooked)) <= Cardinality(Part(bill', overlooked'))
    BY <1>1, <1>2, PartGrows
  <2> QED BY <1>3, <1>4, <2>1, <2>2
<1>6. /\ Spent(Settled) \in Nat /\ Spent(overlooked) \in Nat
      /\ Spent(Settled)' \in Nat /\ Spent(overlooked)' \in Nat
  BY <1>2, <1>3, PartCounts
<1>7. Within \in Nat /\ Within' = Within
  BY AllowedIs DEF Within
<1> QED BY <1>5, <1>6, <1>7 DEF Allowed

(* A session that is not touched keeps its rank, *)
LEMMA RankKept ==
  ASSUME Typed, Typed', [RealtimeNext]_realtimeVars, NEW r \in Sessions, Ranked(r),
         turn'[r] = turn[r], turns <= turns', supplier'[r] = supplier[r],
         seen'[r] = seen[r], used'[r] = used[r], InTurns'[r] = InTurns[r]
  PROVE  Ranked(r)'
<1>1. turn[r] \in Nat /\ seen[r] \in Int /\ turns \in Nat /\ turns' \in Nat
  BY DEF Typed
<1>2. /\ Allowed \in Nat /\ Allowed' \in Nat /\ Allowed <= Allowed'
      /\ Spent(Settled) \in Nat /\ Spent(Settled)' \in Nat
      /\ Spent(Settled) <= Spent(Settled)'
  BY SpentGrows
<1>3. turn'[r] <= turns'
  BY <1>1 DEF Ranked
<1>4. supplier'[r] \in {"reads", "merged"} => turn'[r] <= Allowed'
  BY <1>1, <1>2 DEF Ranked
<1>5. supplier'[r] \in {"counted", "checks", "fills"} =>
        0 <= seen'[r] /\ turn'[r] <= seen'[r] + Spent(Settled)'
  BY <1>1, <1>2 DEF Ranked
<1>6. used'[r] # InTurns'[r] => turn'[r] <= Allowed'
  BY <1>1, <1>2 DEF Ranked
<1> QED BY <1>3, <1>4, <1>5, <1>6 DEF Ranked

(* and what need not be allowed is still remembered. *)
LEMMA RemembersOn ==
  ASSUME Typed, Typed', [RealtimeNext]_realtimeVars, turn' = turn, turns' = turns,
         \A n \in Nat : Remembered(n)
  PROVE  \A n \in Nat : Remembered(n)'
<1> SUFFICES ASSUME NEW n \in Nat, Allowed' < n, n <= turns
             PROVE  \E s \in Sessions : turn[s] = n
  BY DEF Remembered
<1>1. Allowed \in Nat /\ Allowed' \in Nat /\ Allowed <= Allowed'
  BY SpentGrows
<1>2. Allowed < n
  BY <1>1
<1> QED BY <1>2 DEF Remembered

(* A report is let pass while the quota that is compared has some left: with what
   the comparison overlooks, its turn was allowed. *)
LEMMA PassedIsAllowed ==
  ASSUME Typed, Typed', NEW s \in Sessions, Ranked(s), NEW C, C \subseteq Sessions,
         supplier[s] \in {"checks", "fills"}, seen[s] < Quota(C),
         overlooked' = overlooked \cup (Settled \ C), bill' = bill
  PROVE  turn[s] <= Allowed'
<1>1. 0 <= seen[s] /\ turn[s] <= seen[s] + Spent(Settled)
  BY DEF Ranked
<1>2. bill \in [Sessions -> Nat] /\ Settled \subseteq Sessions /\ overlooked' \subseteq Sessions
  BY DEF Typed, Settled
<1>3. Spent(Settled) <= Spent(C) + Cardinality(Part(bill, overlooked'))
  <2>1. Part(bill, Settled) \subseteq Part(bill, C) \cup Part(bill, overlooked')
    BY DEF Part
  <2>2. /\ Spent(Settled) = Cardinality(Part(bill, Settled))
        /\ Spent(C) = Cardinality(Part(bill, C))
    BY <1>2, SpentIs
  <2>3. IsFiniteSet(Part(bill, C)) /\ IsFiniteSet(Part(bill, overlooked'))
    BY <1>2, PartCounts
  <2> QED BY <2>1, <2>2, <2>3, TogetherNoMore
<1>4. /\ Spent(Settled) \in Nat /\ Spent(C) \in Nat
      /\ Cardinality(Part(bill, overlooked')) \in Nat
  BY <1>2, SpentIs, PartCounts
<1>5. Allowed' = Within + Cardinality(Part(bill, overlooked'))
  BY DEF Allowed, Within, Spent, Part
<1>6. seen[s] \in Int /\ turn[s] \in Nat /\ QuotaAtStart \in Nat
  BY RealtimeAssumption DEF RealtimeAssumption, Typed
<1>7. seen[s] < QuotaAtStart - Spent(C)
  BY DEF Quota
<1>8. Within = QuotaAtStart - 1
  BY <1>1, <1>4, <1>6, <1>7 DEF Within
<1> QED BY <1>1, <1>3, <1>4, <1>5, <1>6, <1>7, <1>8

(* The ranks are kept by every step. *)
LEMMA RanksStep == IInv /\ Typed' /\ [RealtimeNext]_realtimeVars => Ranks'
<1> SUFFICES ASSUME IInv, Typed', [RealtimeNext]_realtimeVars, RedisEnabled
             PROVE  (\A r \in Sessions : Ranked(r)') /\ (\A n \in Nat : Remembered(n)')
  BY DEF Ranks
<1>0. /\ Typed /\ Local /\ Sums
      /\ (\A r \in Sessions : Ranked(r)) /\ (\A n \in Nat : Remembered(n))
  BY DEF IInv, Ranks
<1> USE DEF transferVars, settlingVars, quotaVars, historyVars, OnlyMessages
<1>1. /\ Allowed \in Nat /\ Allowed' \in Nat /\ Allowed <= Allowed'
      /\ Spent(Settled) \in Nat /\ Spent(Settled)' \in Nat
      /\ Spent(Settled) <= Spent(Settled)'
  BY <1>0, SpentGrows
(* Most steps count nothing: of one session the rank may change. *)
<1>2. ASSUME NEW s \in Sessions, turn' = turn, turns' = turns, InTurns' = InTurns,
             \A r \in Sessions \ {s} : /\ supplier'[r] = supplier[r]
                                       /\ seen'[r] = seen[r] /\ used'[r] = used[r],
             Ranked(s)'
      PROVE  (\A r \in Sessions : Ranked(r)') /\ (\A n \in Nat : Remembered(n)')
  <2>1. turns <= turns'
    BY <1>0, <1>2 DEF Typed
  <2>2. ASSUME NEW r \in Sessions \ {s} PROVE Ranked(r)'
    BY <1>0, <1>2, <2>1, <2>2, RankKept
  <2> QED BY <1>0, <1>2, <2>2, RemembersOn
<1>3. ASSUME NEW s \in Sessions, turn' = turn, turns' = turns, InTurns' = InTurns,
             used' = used, supplier'[s] = "closed"
      PROVE  Ranked(s)'
  <2>1. turn[s] \in Nat /\ turn[s] <= turns /\ (used[s] # InTurns[s] => turn[s] <= Allowed)
    BY <1>0 DEF Ranked, Typed
  <2> QED BY <1>1, <1>3, <2>1 DEF Ranked
<1>4. ASSUME NEW s \in Sessions,
             SupplierEnds(s) \/ CountFails(s) \/ LookUpFails(s) \/ FillFails(s)
      PROVE  (\A r \in Sessions : Ranked(r)') /\ (\A n \in Nat : Remembered(n)')
  <2>1. InTurns' = InTurns
    BY <1>0, <1>4, CountedKept
  <2>2. /\ UNCHANGED <<turn, turns, used, seen>>
        /\ supplier' = [supplier EXCEPT ![s] = "closed"]
    BY <1>4 DEF SupplierEnds, CountFails, LookUpFails, FillFails, SupplierCloses, SupplierGoes
  <2>3. /\ supplier'[s] = "closed"
        /\ \A r \in Sessions \ {s} : supplier'[r] = supplier[r]
    BY <1>0, <2>2 DEF Typed
  <2> QED BY <1>2, <1>3, <2>1, <2>2, <2>3
<1>5. ASSUME NEW s \in Sessions, UserEnds(s)
      PROVE  (\A r \in Sessions : Ranked(r)') /\ (\A n \in Nat : Remembered(n)')
  <2>1. InTurns' = InTurns
    BY <1>0, <1>5, CountedKept
  <2>2. UNCHANGED <<turn, turns, used, seen, supplier>>
    BY <1>5 DEF UserEnds
  <2>3. turns <= turns'
    BY <1>0, <2>2 DEF Typed
  <2>4. Ranked(s)'
    BY <1>0, <2>1, <2>2, <2>3, RankKept
  <2> QED BY <1>2, <2>1, <2>2, <2>4
<1>6. ASSUME NEW s \in Sessions, Remember(s) \/ LookUp(s)
      PROVE  (\A r \in Sessions : Ranked(r)') /\ (\A n \in Nat : Remembered(n)')
  <2>1. InTurns' = InTurns
    BY <1>0, <1>6, CountedKept
  <2>2. /\ UNCHANGED <<turn, turns, used, seen>>
        /\ supplier[s] \in {"counted", "checks"} /\ supplier'[s] \in {"checks", "fills"}
        /\ \A r \in Sessions \ {s} : supplier'[r] = supplier[r]
    BY <1>0, <1>6 DEF Remember, LookUp, SupplierGoes, Typed
  <2>3. turn[s] \in Nat /\ seen[s] \in Int
    BY <1>0 DEF Typed
  <2>4. /\ turn[s] <= turns /\ 0 <= seen[s] /\ turn[s] <= seen[s] + Spent(Settled)
        /\ used[s] # InTurns[s] => turn[s] <= Allowed
    BY <1>0, <2>2 DEF Ranked
  <2>5. Ranked(s)'
    BY <1>1, <2>1, <2>2, <2>3, <2>4 DEF Ranked
  <2> QED BY <1>2, <2>1, <2>2, <2>5
<1>7. ASSUME NEW s \in Sessions, Check(s) \/ Fill(s)
      PROVE  (\A r \in Sessions : Ranked(r)') /\ (\A n \in Nat : Remembered(n)')
  <2>1. InTurns' = InTurns
    BY <1>0, <1>7, CountedKept
  <2>2. PICK C : Compare(s, C) /\ C \subseteq Sessions
    BY <1>0, <1>7 DEF Check, Fill, Typed
  <2>3. UNCHANGED <<turn, turns, used, bill>> /\ supplier[s] \in {"checks", "fills"}
    BY <1>7 DEF Check, Fill
  <2>4. /\ \A r \in Sessions \ {s} : supplier'[r] = supplier[r] /\ seen'[r] = seen[r]
    BY <1>0, <2>2 DEF Compare, PassesOn, SupplierCloses, SupplierGoes, Typed
  <2>5. CASE supplier'[s] = "closed"
    BY <1>2, <1>3, <2>1, <2>3, <2>4, <2>5
  <2>6. CASE supplier'[s] # "closed"
    <3>1. /\ supplier'[s] = "reads" /\ ~(seen[s] >= Quota(C))
          /\ overlooked' = overlooked \cup (Settled \ C)
      BY <1>0, <2>2, <2>6 DEF Compare, PassesOn, SupplierCloses, SupplierGoes, Typed
    <3>2. seen[s] < Quota(C)
      <4>1. seen[s] \in Int /\ Quota(C) \in Int
        BY <1>0, <2>2, SpentIs, RealtimeAssumption DEF RealtimeAssumption, Typed, Quota
      <4> QED BY <3>1, <4>1
    <3>3. turn[s] <= Allowed'
      BY <1>0, <2>2, <2>3, <3>1, <3>2, PassedIsAllowed
    <3>4. turn[s] <= turns
      BY <1>0 DEF Ranked
    <3>5. Ranked(s)'
      BY <2>3, <3>1, <3>3, <3>4 DEF Ranked
    <3> QED BY <1>2, <2>1, <2>3, <2>4, <3>5
  <2> QED BY <2>5, <2>6
<1>8. ASSUME NEW s \in Sessions, Report(s)
      PROVE  (\A r \in Sessions : Ranked(r)') /\ (\A n \in Nat : Remembered(n)')
  <2>1. /\ UNCHANGED <<turn, turns, seen, cacheQuota, settlement, bill>>
        /\ supplier[s] = "reads" /\ supplier' = [supplier EXCEPT ![s] = "merged"]
        /\ used' = [used EXCEPT ![s] = @ + 1]
    BY <1>8 DEF Report, SupplierGoes
  <2>2. InTurns' = InTurns
    BY <1>0, <2>1 DEF Typed, InTurns, Counted, Closed
  <2>3. /\ supplier'[s] = "merged"
        /\ \A r \in Sessions \ {s} : supplier'[r] = supplier[r] /\ used'[r] = used[r]
    BY <1>0, <2>1 DEF Typed
  <2>4. turn[s] \in Nat /\ turn[s] <= Allowed /\ turn[s] <= turns
    BY <1>0, <2>1 DEF Ranked, Typed
  <2>5. Ranked(s)'
    BY <1>1, <2>1, <2>3, <2>4 DEF Ranked
  <2> QED BY <1>2, <2>1, <2>2, <2>3, <2>5
<1>9. ASSUME NEW s \in Sessions,
             \/ Charge(s) \/ Reread(s) \/ RereadFails(s) \/ Recopy(s) \/ UncountFails(s)
             \/ Uncount(s)
      PROVE  (\A r \in Sessions : Ranked(r)') /\ (\A n \in Nat : Remembered(n)')
  <2>1. UNCHANGED <<turn, turns, used, seen, supplier>>
    BY <1>9 DEF Charge, Bill, Reread, RereadFails, Recopy, UncountFails, Uncount
  <2>2. InTurns' = InTurns
    <3>1. CASE Uncount(s)
      BY <1>0, <3>1 DEF Uncount, SettlementGoes, InTurns, Closed, Counted, Typed
    <3>2. CASE ~Uncount(s)
      BY <1>0, <1>9, <3>2, SettlingKept
    <3> QED BY <3>1, <3>2
  <2>3. turns <= turns'
    BY <1>0, <2>1 DEF Typed
  <2>4. Ranked(s)'
    BY <1>0, <2>1, <2>2, <2>3, RankKept
  <2> QED BY <1>2, <2>1, <2>2, <2>4
<1>10. ASSUME NEW s \in Sessions, Count(s)
       PROVE  (\A r \in Sessions : Ranked(r)') /\ (\A n \in Nat : Remembered(n)')
  <2>1. /\ UNCHANGED <<used, settlement, bill>>
        /\ supplier[s] = "merged" /\ supplier' = [supplier EXCEPT ![s] = "counted"]
        /\ seen' = [seen EXCEPT ![s] = counter + 1]
    BY <1>10 DEF Count, SupplierGoes
  <2>2. /\ supplier'[s] = "counted" /\ seen'[s] = counter + 1
        /\ \A r \in Sessions \ {s} :
             supplier'[r] = supplier[r] /\ seen'[r] = seen[r] /\ InTurns'[r] = InTurns[r]
    BY <1>0, <1>10, <2>1, CountChanges DEF Typed
  <2>3. turns <= counter + Spent(Settled) /\ 0 <= counter
    BY <1>0, TurnsFit
  <2>4. turns \in Nat /\ counter \in Int /\ turn[s] \in Nat /\ turn \in [Sessions -> Nat]
    BY <1>0 DEF Typed
  <2>5. turn[s] <= turns /\ turn[s] <= Allowed
    BY <1>0, <2>1 DEF Ranked
  <2>6. CASE IsBilled(s)
    <3>1. /\ turns' = turns + 1 /\ turn' = [turn EXCEPT ![s] = turns + 1]
          /\ InTurns'[s] = used[s]
      BY <1>0, <1>10, <2>6, CountChanges DEF Count
    <3>2. turn'[s] = turns + 1 /\ \A r \in Sessions \ {s} : turn'[r] = turn[r]
      BY <2>4, <3>1
    <3>3. Ranked(s)'
      BY <1>1, <2>1, <2>2, <2>3, <2>4, <3>1, <3>2 DEF Ranked
    <3>4. ASSUME NEW r \in Sessions \ {s} PROVE Ranked(r)'
      <4>1. turns <= turns'
        BY <2>4, <3>1
      <4> QED BY <1>0, <2>1, <2>2, <3>2, <3>4, <4>1, RankKept
    <3>5. ASSUME NEW n \in Nat, Allowed' < n, n <= turns'
          PROVE  \E r \in Sessions : turn'[r] = n
      <4>1. CASE n = turns + 1
        BY <3>2, <4>1
      <4>2. CASE n # turns + 1
        <5>1. Allowed < n /\ n <= turns
          BY <1>1, <2>4, <3>1, <3>5, <4>2
        <5>2. PICK r \in Sessions : turn[r] = n
          BY <1>0, <5>1 DEF Remembered
        <5>3. r # s
          BY <1>1, <2>4, <2>5, <5>1, <5>2
        <5> QED BY <3>2, <5>2, <5>3
      <4> QED BY <4>1, <4>2
    <3>6. \A n \in Nat : Remembered(n)'
      BY <3>5 DEF Remembered
    <3> QED BY <3>3, <3>4, <3>6
  <2>7. CASE ~IsBilled(s)
    <3>1. turns' = turns /\ turn' = turn /\ InTurns'[s] = InTurns[s]
      BY <1>0, <1>10, <2>7, CountChanges DEF Count
    <3>2. InTurns' = InTurns
      <4>1. \A r \in Sessions : InTurns'[r] = InTurns[r]
        BY <2>2, <3>1
      <4> QED BY <4>1 DEF InTurns
    <3>3. Ranked(s)'
      BY <1>1, <2>2, <2>3, <2>4, <2>5, <3>1 DEF Ranked
    <3> QED BY <1>2, <2>1, <2>2, <3>1, <3>2, <3>3
  <2> QED BY <2>6, <2>7
<1>11. CASE Flush \/ CopyExpires \/ UNCHANGED realtimeVars
  <2>1. UNCHANGED <<turn, turns, used, seen, supplier, cacheQuota, settlement, bill>>
    BY <1>11 DEF Flush, CopyExpires, realtimeVars
  <2>2. InTurns' = InTurns
    BY <2>1 DEF InTurns, Counted, Closed
  <2>3. turns <= turns'
    BY <1>0, <2>1 DEF Typed
  <2>4. ASSUME NEW r \in Sessions PROVE Ranked(r)'
    BY <1>0, <2>1, <2>2, <2>3, <2>4, RankKept
  <2> QED BY <1>0, <2>1, <2>4, RemembersOn
<1> QED
  BY <1>4, <1>5, <1>6, <1>7, <1>8, <1>9, <1>10, <1>11
  DEF RealtimeNext, SupplierStep, SettlingStep

-----------------------------------------------------------------------------
(* The invariant holds throughout: a session's own numbers, the sums they add
   up to, and the turns in which the reports were counted. *)
THEOREM RealtimeInvariant == RealtimeSpec => []IInv
<1>1. IInv /\ [RealtimeNext]_realtimeVars => IInv'
  BY TypedStep, LocalStep, SumsStep, RanksStep DEF IInv
<1> QED BY <1>1, InitHolds, PTL DEF RealtimeSpec

(* Sessions with a report that is not among those counted to be billed, and
   sessions whose last turn was not allowed. *)
Behind == {s \in Sessions : used[s] # InTurns[s]}
Beyond == {s \in Sessions : turn[s] > Allowed}

(* All reports are counted to be billed, but for the last one of some sessions. *)
LEMMA ReportsFit ==
  ASSUME Typed, Local, Sums, RedisEnabled
  PROVE  reports <= turns + Cardinality(Behind)
<1> DEFINE last == [s \in Behind |-> <<s, used[s]>>]
           lasts == {last[s] : s \in Behind}
<1>1. used \in [Sessions -> Nat] /\ InTurns \in [Sessions -> Nat]
  BY SummandsTyped
<1>2. Units(used) \subseteq Units(InTurns) \cup lasts
  <2> SUFFICES ASSUME NEW u \in Units(used) PROVE u \in Units(InTurns) \cup lasts
    OBVIOUS
  <2>1. PICK s \in Sessions : \E i \in 1..used[s] : u = <<s, i>>
    BY UnitsAre
  <2>2. PICK i \in 1..used[s] : u = <<s, i>>
    BY <2>1
  <2>3. used[s] \in Nat /\ InTurns[s] \in Nat
    BY <1>1
  <2>4. used[s] = InTurns[s] \/ used[s] = InTurns[s] + 1
    <3>1. Billing(s) /\ Counting(s)
      BY DEF Local
    <3>2. used[s] \in Nat /\ cacheQuota[s] \in Nat /\ bill[s] \in Nat
      BY DEF Typed
    <3> QED BY <3>1, <3>2 DEF Billing, Counting, InTurns, Counted
  <2>5. CASE i <= InTurns[s]
    <3>1. i \in 1..InTurns[s]
      BY <2>3, <2>5
    <3> QED BY <2>2, <3>1, UnitsAre
  <2>6. CASE ~(i <= InTurns[s])
    <3>1. i = used[s] /\ used[s] # InTurns[s]
      BY <2>3, <2>4, <2>6
    <3>2. s \in Behind
      BY <3>1 DEF Behind
    <3> QED BY <2>2, <3>1, <3>2
  <2> QED BY <2>5, <2>6
<1>3. IsFiniteSet(Behind) /\ Cardinality(Behind) \in Nat
  <2>1. Behind \subseteq Sessions
    BY DEF Behind
  <2> QED BY <2>1, SessionSetsCount
<1>4. IsFiniteSet(lasts) /\ Cardinality(lasts) <= Cardinality(Behind)
  <2>1. last \in Surjection(Behind, lasts)
    BY DEF Surjection
  <2> QED BY <1>3, <2>1, FS_Surjection
<1> HIDE DEF lasts
<1>5. Cardinality(Units(used)) <= Cardinality(Units(InTurns)) + Cardinality(lasts)
  <2>1. IsFiniteSet(Units(InTurns))
    BY <1>1, TotalCounts
  <2> QED BY <1>2, <1>4, <2>1, TogetherNoMore
<1>6. reports = Cardinality(Units(used)) /\ turns = Cardinality(Units(InTurns))
  BY DEF Sums, Total
<1>7. Cardinality(lasts) \in Nat /\ turns \in Nat /\ reports \in Nat
  BY <1>4, FS_CardinalityType DEF Typed
<1> QED BY <1>3, <1>4, <1>5, <1>6, <1>7

(* A turn that was not allowed is the last one of a session, each of another. *)
LEMMA FewTurnsBeyond ==
  ASSUME Typed, Ranks, RedisEnabled
  PROVE  turns <= Allowed + Cardinality(Beyond)
<1> DEFINE later == (Allowed + 1)..turns
           last == [s \in Beyond |-> turn[s]]
           lasts == {last[s] : s \in Beyond}
<1>1. Allowed \in Nat /\ turns \in Nat
  BY AllowedIs DEF Typed
<1>2. IsFiniteSet(Beyond) /\ Cardinality(Beyond) \in Nat
  <2>1. Beyond \subseteq Sessions
    BY DEF Beyond
  <2> QED BY <2>1, SessionSetsCount
<1>3. IsFiniteSet(lasts) /\ Cardinality(lasts) <= Cardinality(Beyond)
  <2>1. last \in Surjection(Beyond, lasts)
    BY DEF Surjection
  <2> QED BY <1>2, <2>1, FS_Surjection
<1>4. later \subseteq lasts
  <2> SUFFICES ASSUME NEW n \in later PROVE n \in lasts
    OBVIOUS
  <2>1. n \in Nat /\ Allowed < n /\ n <= turns
    BY <1>1
  <2>2. PICK s \in Sessions : turn[s] = n
    BY <2>1 DEF Ranks, Remembered
  <2>3. s \in Beyond
    BY <1>1, <2>1, <2>2 DEF Beyond
  <2> QED BY <2>2, <2>3
<1>5. CASE turns <= Allowed
  BY <1>1, <1>2, <1>5
<1>6. CASE ~(turns <= Allowed)
  <2>1. Cardinality(later) = turns - Allowed
    <3>1. Allowed + 1 \in Int /\ turns \in Int /\ ~(Allowed + 1 > turns)
      BY <1>1, <1>6
    <3>2. Cardinality((Allowed + 1)..turns) = turns - (Allowed + 1) + 1
      BY <3>1, FS_Interval
    <3> QED BY <1>1, <3>2
  <2> HIDE DEF later, lasts
  <2>2. later \in SUBSET lasts
    BY <1>4
  <2>3. Cardinality(later) <= Cardinality(lasts)
    BY <1>3, <2>2, FS_Subset
  <2>4. Cardinality(lasts) \in Nat
    BY <1>3, FS_CardinalityType
  <2> QED BY <1>1, <1>2, <1>3, <2>1, <2>3, <2>4
<1> QED BY <1>5, <1>6

(* The sessions of a user together report no more than the quota and one report
   each, and what was overlooked of the sessions settled: recorded and not yet
   written, failed, or behind an older copy. *)
THEOREM SpendingBounded == RealtimeSpec => []SpendingIsBounded
<1>1. IInv => SpendingIsBounded
  <2> SUFFICES ASSUME IInv, RedisEnabled PROVE reports <= Overdraft + Spent(overlooked)
    BY DEF SpendingIsBounded
  <2>1. /\ reports <= turns + Cardinality(Behind)
        /\ turns <= Allowed + Cardinality(Beyond)
    BY ReportsFit, FewTurnsBeyond DEF IInv
  <2>2. /\ Behind \subseteq Sessions /\ Beyond \subseteq Sessions
        /\ Behind \cup Beyond \subseteq Sessions
    BY DEF Behind, Beyond
  <2>3. Behind \cap Beyond = {}
    <3> SUFFICES ASSUME NEW s \in Behind, s \in Beyond PROVE FALSE
      OBVIOUS
    <3>1. s \in Sessions /\ used[s] # InTurns[s] /\ turn[s] > Allowed
      BY DEF Behind, Beyond
    <3>2. turn[s] <= Allowed
      BY <3>1 DEF IInv, Ranks, Ranked
    <3>3. Allowed \in Nat /\ turn[s] \in Nat
      BY <3>1, AllowedIs DEF IInv, Typed
    <3> QED BY <3>1, <3>2, <3>3
  <2>4. Cardinality(Behind) + Cardinality(Beyond) <= Cardinality(Sessions)
    <3>1. IsFiniteSet(Behind) /\ IsFiniteSet(Beyond)
      BY <2>2, SessionSetsCount
    <3>2. Cardinality(Behind \cup Beyond)
            = Cardinality(Behind) + Cardinality(Beyond) - Cardinality(Behind \cap Beyond)
      BY <3>1, FS_Union
    <3>3. Cardinality(Behind \cap Beyond) = 0
      BY <2>3, FS_EmptySet
    <3>4. Cardinality(Behind \cup Beyond) <= Cardinality(Sessions)
      BY <2>2, FewerSessions
    <3>5. Cardinality(Behind) \in Nat /\ Cardinality(Beyond) \in Nat
      BY <2>2, SessionSetsCount
    <3> QED BY <3>2, <3>3, <3>4, <3>5
  <2>5. /\ Cardinality(Behind) \in Nat /\ Cardinality(Beyond) \in Nat
        /\ Cardinality(Sessions) \in Nat
    BY <2>2, SessionSetsCount
  <2>6. /\ reports \in Nat /\ turns \in Nat /\ Spent(overlooked) \in Nat
        /\ Within \in Nat /\ QuotaAtStart \in Nat
    <3>1. Typed /\ overlooked \subseteq Sessions
      BY DEF IInv, Typed, Settled
    <3> QED BY <3>1, SpentIs, AllowedIs, RealtimeAssumption DEF RealtimeAssumption, Typed
  <2>7. Overdraft = Cardinality(Sessions) + Within
    BY DEF Overdraft, Within
  <2> QED BY <2>1, <2>4, <2>5, <2>6, <2>7 DEF Allowed
<1> QED BY <1>1, RealtimeInvariant, PTL

(* When all sessions have ended, the counter is back, but for a report that was
   on its way when a user closed the session. *)
THEOREM CounterGivenBack == RealtimeSpec => []CounterIsGivenBack
<1>1. IInv => CounterIsGivenBack
  <2> SUFFICES ASSUME IInv,
                      \A s \in Sessions : supplier[s] = "closed" /\ settlement[s] = "done"
               PROVE  counter \in 0..Cardinality({s \in Sessions : closedFirst[s] = "user"})
    BY DEF CounterIsGivenBack
  <2>1. Total(InCounter) = 0
    <3>1. InCounter \in [Sessions -> Nat]
      BY SummandsTyped DEF IInv
    <3>2. \A s \in Sessions : InCounter[s] = 0
      BY DEF InCounter
    <3> QED BY <3>1, <3>2, TotalOfNothing
  <2>2. Leftovers = {s \in Sessions : closedFirst[s] = "user"}
    BY DEF Leftovers, Settled
  <2>3. Cardinality(Leftovers) \in Nat
    <3>1. Leftovers \subseteq Sessions
      BY DEF Leftovers, Settled
    <3> QED BY <3>1, SessionSetsCount
  <2>4. counter \in Int /\ 0 <= counter /\ counter <= 0 + Cardinality(Leftovers)
    BY <2>1 DEF IInv, Sums, Typed
  <2> QED BY <2>2, <2>3, <2>4
<1> QED BY <1>1, RealtimeInvariant, PTL

(* A settled session is billed its reports, all of them if the provider closed
   first, and all but one at most otherwise. *)
THEOREM ReportsBilled == RealtimeSpec => []ReportsAreBilled
<1>1. IInv => ReportsAreBilled
  BY DEF IInv, Local, Billing, Typed, ReportsAreBilled
<1> QED BY <1>1, RealtimeInvariant, PTL

-----------------------------------------------------------------------------
(* The invariant. *)

CallLabels == {"idle", "tests", "form", "load"}
RequestLabels == {"new", "token", "save", "load", "over"}
Forms == UNION {[S -> Secret] : S \in SUBSET Rows}

CredentialTyped ==
  /\ rows \in [Rows -> Row] /\ primary \in Rows
  /\ live \in [Rows -> 0..MaxVersion] /\ astray \subseteq Rows /\ edits \in 0..MaxEdits
  /\ DOMAIN index \subseteq Rows
  /\ \A c \in DOMAIN index : index[c].secret \in Secret
  /\ request \in [Requests -> [at : RequestLabels, row : Rows, secret : Secret]]
  /\ call \in [Calls -> [at : CallLabels, form : Forms, row : Rows]]

(* Rows are numbered as they come. *)
InOrder == Cardinality(Used) \in 0..MaxRows /\ Used = 1..Cardinality(Used)

(* Where a secret of row c is kept, its account is the row's. *)
OfRow(c, s) == c \in Used /\ s.account = rows[c].secret.account

Holding(r) == request[r].at \in {"token", "save"}

(* An account has a row of its own, unless its token went astray; the others
   who hold one of its secrets have it from its row. *)
Owned ==
  /\ \A c \in Rows : rows[c].secret.account \in Used \cup {c}
  /\ \A c \in Rows : rows[c].secret.account = c \/ rows[c].secret.account \in astray
  /\ \A c \in Rows \ Used : rows[c].secret = Fresh(c) /\ live[c] = 0
  /\ \A c \in DOMAIN index : OfRow(c, index[c].secret)
  /\ \A r \in Requests : Holding(r) => OfRow(request[r].row, request[r].secret)
  /\ \A k \in Calls : /\ call[k].at = "tests" => call[k].row \in Used
                      /\ \A c \in DOMAIN call[k].form : OfRow(c, call[k].form[c])

(* A secret that may be sent to the upstream: no newer one waits to be saved
   if the upstream would take it. *)
Safe(s) ==
  \/ s.account \in astray
  \/ s.version < live[s.account]
  \/ s.version = live[s.account] /\ \A r \in Requests : ~IsSaving(r, s.account)

(* The only one who saves a secret of its account, and the newest. *)
SavesNewest(r) ==
  LET s == request[r].secret IN
  \/ s.account \in astray
  \/ s.version = live[s.account] /\ \A q \in Requests \ {r} : ~IsSaving(q, s.account)

Rotated ==
  /\ \A c \in Rows : Safe(rows[c].secret)
  /\ \A c \in DOMAIN index : Safe(index[c].secret)
  /\ \A r \in Requests : /\ request[r].at = "token" => Safe(request[r].secret)
                         /\ request[r].at = "save" => SavesNewest(r)

CredentialInv ==
  CredentialTyped /\ InOrder /\ Owned /\ Rotated /\ PrimaryIsActive /\ RotationIsSaved

-----------------------------------------------------------------------------
(* The numbers of rows. *)

(* The elements of a finite set of numbers take the places from 0 on. *)
LEMMA RanksFill ==
  ASSUME NEW S \in SUBSET Nat, IsFiniteSet(S)
  PROVE  /\ Cardinality(S) \in Nat
         /\ \A d \in S : Cardinality({e \in S : e < d}) \in 0..(Cardinality(S) - 1)
         /\ \A n \in 0..(Cardinality(S) - 1) :
              \E d \in S : Cardinality({e \in S : e < d}) = n
<1> DEFINE Below(d) == {e \in S : e < d}
           rank == [d \in S |-> Cardinality(Below(d))]
           ranks == {rank[d] : d \in S}
<1>1. Cardinality(S) \in Nat
  BY FS_CardinalityType
<1>2. ASSUME NEW d \in S
      PROVE  IsFiniteSet(Below(d)) /\ Cardinality(Below(d)) \in 0..(Cardinality(S) - 1)
  <2>1. Below(d) \in SUBSET S /\ d \notin Below(d)
    OBVIOUS
  <2>2. /\ IsFiniteSet(Below(d)) /\ Cardinality(Below(d)) <= Cardinality(S)
        /\ Cardinality(S) # Cardinality(Below(d))
    BY <2>1, FS_Subset
  <2>3. Cardinality(Below(d)) \in Nat
    BY <2>2, FS_CardinalityType
  <2> QED BY <1>1, <2>2, <2>3
<1>3. ASSUME NEW c \in S, NEW d \in S, c < d PROVE Cardinality(Below(c)) # Cardinality(Below(d))
  <2>1. Below(c) \in SUBSET Below(d) /\ c \in Below(d) /\ c \notin Below(c)
    <3>1. c \in Nat /\ d \in Nat /\ \A e \in S : e \in Nat
      OBVIOUS
    <3>2. \A e \in S : e < c => e < d
      BY <1>3, <3>1
    <3>3. ~(c < c)
      BY <3>1
    <3> QED BY <1>3, <3>2, <3>3
  <2>2. IsFiniteSet(Below(d))
    BY <1>2
  <2> QED BY <2>1, <2>2, FS_Subset
<1>4. \A c, d \in S : rank[c] = rank[d] => c = d
  <2>1. ASSUME NEW c \in S, NEW d \in S, c # d PROVE rank[c] # rank[d]
    <3>1. c < d \/ d < c
      BY <2>1
    <3> QED BY <1>3, <3>1
  <2> QED BY <2>1
<1>5. rank \in [S -> ranks] /\ \A n \in ranks : \E d \in S : rank[d] = n
  OBVIOUS
<1>6. ranks \subseteq 0..(Cardinality(S) - 1)
  BY <1>2
<1> HIDE DEF rank, ranks
<1>7. rank \in Bijection(S, ranks)
  BY <1>4, <1>5, Fun_IsBij
<1>8. Cardinality(ranks) = Cardinality(S)
  BY <1>7, FS_Bijection DEF ExistsBijection
<1>9. /\ IsFiniteSet(0..(Cardinality(S) - 1))
      /\ Cardinality(0..(Cardinality(S) - 1)) = Cardinality(S)
  <2>1. 0 \in Int /\ Cardinality(S) - 1 \in Int
    BY <1>1
  <2>2. IF 0 > Cardinality(S) - 1 THEN Cardinality(S) = 0
        ELSE Cardinality(S) - 1 - 0 + 1 = Cardinality(S)
    BY <1>1
  <2>3. /\ IsFiniteSet(0..(Cardinality(S) - 1))
        /\ Cardinality(0..(Cardinality(S) - 1)) =
             IF 0 > Cardinality(S) - 1 THEN 0 ELSE Cardinality(S) - 1 - 0 + 1
    BY <2>1, FS_Interval
  <2> QED BY <2>2, <2>3
<1>10. ranks = 0..(Cardinality(S) - 1)
  BY <1>6, <1>8, <1>9, FS_Subset
<1> QED BY <1>1, <1>2, <1>5, <1>10 DEF rank

(* A row that was taken is one of the rows, and the next one is free. *)
LEMMA UsedAreRows ==
  ASSUME CredentialTyped, InOrder
  PROVE  /\ Cardinality(Used) \in Nat /\ Cardinality(Used) <= MaxRows /\ MaxRows \in Nat
         /\ Used \subseteq Rows /\ Pool \subseteq Used /\ Usable \subseteq Used
         /\ \A n \in Nat \ {0} : Free(n) \notin Used /\ Free(n) \notin Pool
         /\ \A c \in Rows : c \in Used \/ \E n \in Nat \ {0} : c = Free(n)
         /\ 1..MaxRows = Rows
<1>1. /\ Cardinality(Used) \in Nat /\ Cardinality(Used) <= MaxRows /\ MaxRows \in Nat
      /\ Used = 1..Cardinality(Used)
  BY CredentialAssumption DEF InOrder
<1>2. Used \subseteq Rows /\ Pool \subseteq Used /\ Usable \subseteq Used
  BY DEF Used, Pool, Usable
<1>3. ASSUME NEW n \in Nat \ {0} PROVE Free(n) \notin Used
  BY <1>1 DEF Free
<1>4. ASSUME NEW c \in Rows, c \notin Used PROVE \E n \in Nat \ {0} : c = Free(n)
  <2> DEFINE n == c - Cardinality(Used)
  <2>1. n \in Nat \ {0} /\ Cardinality(Used) + n = c
    BY <1>1, <1>4 DEF Rows
  <2> QED BY <2>1 DEF Free
<1> QED BY <1>1, <1>2, <1>3, <1>4 DEF Rows

(* New rows take the next numbers. *)
LEMMA NewRowsInOrder ==
  ASSUME CredentialTyped, InOrder, NEW m \in Nat,
         Used' = Used \cup {Free(n) : n \in 1..m}, Used' \subseteq Rows
  PROVE  InOrder'
<1> DEFINE u == Cardinality(Used)
<1>1. u \in Nat /\ u <= MaxRows /\ MaxRows \in Nat /\ Used = 1..u
  BY UsedAreRows DEF InOrder
<1>2. Used' = Used \cup {u + n : n \in 1..m}
  BY DEF Free
<1> HIDE DEF u
<1>3. Used' = 1..(u + m)
  <2>1. ASSUME NEW c \in 1..(u + m) PROVE c \in 1..u \/ \E n \in 1..m : c = u + n
    <3>1. CASE c <= u
      BY <1>1, <2>1, <3>1
    <3>2. CASE c > u
      <4>1. c - u \in 1..m /\ c = u + (c - u)
        BY <1>1, <2>1, <3>2
      <4> QED BY <4>1
    <3> QED BY <1>1, <2>1, <3>1, <3>2
  <2>2. \A n \in 1..m : u + n \in 1..(u + m)
    BY <1>1
  <2>3. \A c \in 1..u : c \in 1..(u + m)
    BY <1>1
  <2> QED BY <1>1, <1>2, <2>1, <2>2, <2>3
<1>4. Cardinality(1..(u + m)) = u + m
  BY <1>1, FS_Interval
<1>5. u + m <= MaxRows
  <2>1. CASE m = 0
    BY <1>1, <2>1
  <2>2. CASE m # 0
    <3>1. u + m \in 1..(u + m)
      BY <1>1, <2>2
    <3>2. u + m \in 1..MaxRows
      BY <1>3, <3>1 DEF Rows
    <3> QED BY <1>1, <3>2
  <2> QED BY <2>1, <2>2
<1>6. Cardinality(Used') = u + m
  BY <1>3, <1>4
<1>7. u + m \in 0..MaxRows
  BY <1>1, <1>5
<1> QED BY <1>3, <1>6, <1>7 DEF InOrder

-----------------------------------------------------------------------------
(* The administration. *)

(* A form holds a secret per row of the pool. *)
LEMMA FormsAreTyped ==
  /\ <<>> \in Forms /\ DOMAIN <<>> = {}
  /\ \A f \in Forms : DOMAIN f \subseteq Rows /\ \A c \in DOMAIN f : f[c] \in Secret
  /\ CredentialTyped => [c \in Pool |-> rows[c].secret] \in Forms
<1>1. <<>> \in [{} -> Secret] /\ {} \in SUBSET Rows
  OBVIOUS
<1>2. ASSUME CredentialTyped PROVE [c \in Pool |-> rows[c].secret] \in [Pool -> Secret]
  BY <1>2 DEF CredentialTyped, Row, Pool
<1>3. Pool \in SUBSET Rows
  BY DEF Pool
<1> QED BY <1>1, <1>2, <1>3 DEF Forms

(* A fresh endpoint with its first credential satisfies the invariant. *)
LEMMA CredentialStarts == CredentialInit => CredentialInv
<1> SUFFICES ASSUME CredentialInit PROVE CredentialInv
  OBVIOUS
<1>1. MaxRows \in Nat /\ MaxRows >= 2 /\ MaxVersion \in Nat /\ MaxEdits \in Nat
  BY CredentialAssumption
<1>2. PICK second \in {"active", "pending"} :
        /\ rows = [c \in Rows |-> CASE c = 1 -> NewRow("active", TRUE, Fresh(c))
                                    [] c = 2 -> NewRow(second, TRUE, Fresh(c))
                                    [] OTHER -> NoRow(c)]
        /\ index = [c \in (IF second = "active" THEN {1, 2} ELSE {1}) |->
                      [enabled |-> TRUE, secret |-> Fresh(c)]]
  BY DEF CredentialInit
<1>3. /\ primary = 1 /\ live = [c \in Rows |-> 0] /\ edits = 0 /\ astray = {}
      /\ request = [r \in Requests |-> Without("new")] /\ call = [k \in Calls |-> Idle]
  BY DEF CredentialInit
<1>4. /\ 1 \in Rows /\ 2 \in Rows /\ 0 \in 0..MaxVersion
      /\ \A c \in Rows : Fresh(c) \in Secret /\ Fresh(c).account = c /\ Fresh(c).version = 0
  BY <1>1 DEF Rows, Fresh, Secret
<1>5. \A c \in Rows :
        /\ rows[c].secret = Fresh(c) /\ rows[c] \in Row
        /\ rows[c].status = IF c = 1 THEN "active" ELSE IF c = 2 THEN second ELSE "none"
  BY <1>2, <1>4 DEF NewRow, NoRow, Row
<1>6. Used = 1..2 /\ Cardinality(Used) = 2 /\ 1 \in Pool
  <2>1. Used = {1, 2} /\ 1 \in Pool
    BY <1>4, <1>5 DEF Used, Pool
  <2>2. 1..2 = {1, 2}
    OBVIOUS
  <2>3. \A n \in Nat : Cardinality(1..n) = n
    BY FS_Interval
  <2> QED BY <2>1, <2>2, <2>3
<1>7. InOrder /\ PrimaryIsActive
  BY <1>1, <1>3, <1>6 DEF InOrder, PrimaryIsActive
<1>8. /\ DOMAIN index \subseteq Used /\ Used \subseteq Rows
      /\ \A c \in DOMAIN index : index[c].secret = Fresh(c)
  <2>1. Used = {1, 2}
    BY <1>4, <1>5 DEF Used
  <2> QED BY <1>2, <1>4, <2>1
<1>9. CredentialTyped
  <2>1. rows \in [Rows -> Row]
    BY <1>2, <1>5
  <2>2. request \in [Requests -> [at : RequestLabels, row : Rows, secret : Secret]]
    BY <1>3, <1>4 DEF Without, RequestLabels
  <2>3. call \in [Calls -> [at : CallLabels, form : Forms, row : Rows]]
    BY <1>3, <1>4, FormsAreTyped DEF Idle, CallLabels
  <2>4. live \in [Rows -> 0..MaxVersion] /\ edits \in 0..MaxEdits
    BY <1>1, <1>3
  <2> QED BY <1>3, <1>4, <1>8, <2>1, <2>2, <2>3, <2>4 DEF CredentialTyped
<1>10. ASSUME NEW r \in Requests PROVE request[r].at = "new"
  BY <1>3 DEF Without
<1>11. \A a : \A r \in Requests : ~IsSaving(r, a)
  BY <1>10 DEF IsSaving
<1>12. \A c \in Rows : live[c] = 0 /\ Safe(Fresh(c))
  BY <1>3, <1>4, <1>11 DEF Safe
<1>13. \A k \in Calls : call[k].at = "idle" /\ DOMAIN call[k].form = {}
  BY <1>3, FormsAreTyped DEF Idle
<1>14. Owned
  BY <1>4, <1>5, <1>8, <1>10, <1>12, <1>13 DEF Owned, OfRow, Holding
<1>15. Rotated
  BY <1>5, <1>8, <1>10, <1>12 DEF Rotated
<1>16. RotationIsSaved
  BY <1>4, <1>5, <1>12 DEF RotationIsSaved, Usable, Used
<1> QED BY <1>7, <1>9, <1>14, <1>15, <1>16 DEF CredentialInv

(* Nobody saves a secret of an account that has no row yet. *)
LEMMA FreshIsSafe ==
  ASSUME CredentialTyped, Owned, NEW c \in Rows \ Used
  PROVE  /\ Fresh(c).account = c /\ Fresh(c).version = 0 /\ live[c] = 0
         /\ \A r \in Requests : ~IsSaving(r, c)
<1>1. ASSUME NEW r \in Requests, IsSaving(r, c) PROVE FALSE
  <2>1. OfRow(request[r].row, request[r].secret) /\ request[r].secret.account = c
    BY <1>1 DEF Owned, Holding, IsSaving
  <2>2. request[r].row \in Used /\ rows[request[r].row].secret.account = c
    BY <2>1 DEF OfRow
  <2>3. c \in Used
    BY <2>2 DEF Owned, Used
  <2> QED BY <2>3
<1> QED BY <1>1 DEF Owned, Fresh

(* A step of the administration: rows are added, each with a secret of its own
   or with one whose account is astray, and no other secret changes. *)
LEMMA RowsMove ==
  ASSUME CredentialTyped, Owned, Rotated, RotationIsSaved, UNCHANGED <<live, request>>,
         Used \subseteq Used', \A c \in Usable' : c \in Usable \/ c \notin Used,
         \A c \in Used : rows'[c].secret = rows[c].secret,
         \A c \in Rows \ Used' : rows'[c].secret = rows[c].secret,
         \A c \in Used' \ Used :
           \/ rows'[c].secret = Fresh(c)
           \/ rows'[c].secret.account \in Used \cap astray',
         astray \subseteq astray',
         \A c \in DOMAIN index' : OfRow(c, index'[c].secret) /\ Safe(index'[c].secret),
         \A k \in Calls : /\ call'[k].at = "tests" => call'[k].row \in Used
                          /\ \A c \in DOMAIN call'[k].form : OfRow(c, call'[k].form[c])
  PROVE  Owned' /\ Rotated' /\ RotationIsSaved'
<1>0. Used \subseteq Rows /\ Used' \subseteq Rows /\ Usable' \subseteq Used'
  BY DEF Used, Usable
<1>1. \A c, s : OfRow(c, s) => c \in Used' /\ s.account = rows'[c].secret.account
  BY DEF OfRow
<1>2. \A s : Safe(s) => \/ s.account \in astray'
                        \/ s.version < live'[s.account]
                        \/ /\ s.version = live'[s.account]
                           /\ \A r \in Requests : ~IsSaving(r, s.account)'
  BY DEF Safe, IsSaving
<1>3. ASSUME NEW c \in Rows
      PROVE  \/ rows'[c].secret = rows[c].secret
             \/ c \notin Used /\ rows'[c].secret = Fresh(c)
             \/ c \in Used' \ Used /\ rows'[c].secret.account \in Used \cap astray'
  OBVIOUS
<1>4. Owned'
  <2>1. ASSUME NEW c \in Rows
        PROVE  /\ rows'[c].secret.account \in Used' \cup {c}
               /\ rows'[c].secret.account = c \/ rows'[c].secret.account \in astray'
    <3>1. CASE rows'[c].secret = rows[c].secret
      BY <3>1 DEF Owned
    <3>2. CASE c \notin Used /\ rows'[c].secret = Fresh(c)
      BY <3>2, FreshIsSafe
    <3>3. CASE c \in Used' \ Used /\ rows'[c].secret.account \in Used \cap astray'
      BY <3>3
    <3> QED BY <1>3, <3>1, <3>2, <3>3
  <2>2. \A c \in Rows \ Used' : rows'[c].secret = Fresh(c) /\ live'[c] = 0
    BY DEF Owned
  <2>3. \A c : Fresh(c)' = Fresh(c)
    BY DEF Fresh
  <2>4. \A c \in DOMAIN index' : OfRow(c, index[c].secret)'
    BY <1>1 DEF OfRow
  <2>5. \A r \in Requests : Holding(r)' => OfRow(request[r].row, request[r].secret)'
    BY <1>1 DEF OfRow, Holding, Owned
  <2>6. \A k \in Calls : /\ call'[k].at = "tests" => call'[k].row \in Used'
                         /\ \A c \in DOMAIN call'[k].form : OfRow(c, call[k].form[c])'
    BY <1>1 DEF OfRow
  <2> QED BY <2>1, <2>2, <2>3, <2>4, <2>5, <2>6 DEF Owned
<1>5. Rotated'
  <2>1. ASSUME NEW c \in Rows PROVE Safe(rows[c].secret)'
    <3>1. CASE rows'[c].secret = rows[c].secret
      BY <1>2, <3>1 DEF Safe, Rotated
    <3>2. CASE c \notin Used /\ rows'[c].secret = Fresh(c)
      BY <3>2, FreshIsSafe DEF Safe, IsSaving
    <3>3. CASE rows'[c].secret.account \in Used \cap astray'
      BY <3>3 DEF Safe
    <3> QED BY <1>3, <3>1, <3>2, <3>3
  <2>2. \A c \in DOMAIN index' : Safe(index[c].secret)'
    BY <1>2 DEF Safe
  <2>3. ASSUME NEW r \in Requests
        PROVE  /\ request'[r].at = "token" => Safe(request[r].secret)'
               /\ request'[r].at = "save" => SavesNewest(r)'
    BY <1>2 DEF Safe, SavesNewest, Rotated, IsSaving
  <2> QED BY <2>1, <2>2, <2>3 DEF Rotated
<1>6. RotationIsSaved'
  <2> SUFFICES ASSUME NEW c \in Usable'
               PROVE  \/ rows'[c].secret.account \in astray'
                      \/ rows'[c].secret.version = live'[rows'[c].secret.account]
                      \/ \E r \in Requests : IsSaving(r, rows[c].secret.account)'
    BY DEF RotationIsSaved
  <2>1. CASE c \in Usable
    <3>1. rows'[c].secret = rows[c].secret
      BY <2>1 DEF Usable
    <3> QED BY <2>1, <3>1 DEF RotationIsSaved, IsSaving
  <2>2. CASE c \in Used' \ Used
    <3>1. CASE rows'[c].secret = Fresh(c)
      BY <1>0, <2>2, <3>1, FreshIsSafe
    <3>2. CASE rows'[c].secret.account \in astray'
      BY <3>2
    <3> QED BY <2>2, <3>1, <3>2
  <2> QED BY <1>0, <2>1, <2>2
<1> QED BY <1>4, <1>5, <1>6

(* What a call knows stays right. *)
Knowing(calls) ==
  \A k \in Calls : /\ calls[k].at = "tests" => calls[k].row \in Used
                   /\ \A c \in DOMAIN calls[k].form : OfRow(c, calls[k].form[c])
CallRecords == [at : CallLabels, form : Forms, row : Rows]

(* A call of the administration that reads secrets of the rows knows no others, *)
LEMMA CallsGo ==
  ASSUME CredentialTyped, Owned, NEW k \in Calls, NEW q \in CallRecords,
         call' = [call EXCEPT ![k] = q],
         q.at = "tests" => q.row \in Used, \A c \in DOMAIN q.form : OfRow(c, q.form[c])
  PROVE  call' \in [Calls -> CallRecords] /\ Knowing(call')
BY DEF CredentialTyped, CallRecords, Owned, Knowing

(* and one that forgets what it has read knows none. *)
LEMMA CallGoesOn ==
  ASSUME CredentialTyped, Owned, NEW k \in Calls, NEW label \in {"idle", "load"},
         CallGoes(k, label)
  PROVE  call' \in [Calls -> CallRecords] /\ Knowing(call')
<1> DEFINE q == [Idle EXCEPT !.at = label]
<1>1. 1 \in Rows
  BY CredentialAssumption DEF Rows
<1>2. q \in CallRecords /\ q.at = label /\ q.form = <<>>
  BY <1>1, FormsAreTyped DEF Idle, CallRecords, CallLabels
<1>3. DOMAIN q.form = {}
  BY <1>2, FormsAreTyped
<1>4. call' = [call EXCEPT ![k] = q]
  BY DEF CallGoes
<1> HIDE DEF q
<1> QED BY <1>2, <1>3, <1>4, CallsGo

(* Statuses change, and nothing is added. *)
LEMMA StatusesMove ==
  ASSUME CredentialInv, rows' \in [Rows -> Row],
         \A c \in Rows : /\ rows'[c].secret = rows[c].secret
                         /\ rows'[c].status = "none" <=> rows[c].status = "none"
                         /\ rows[c].status = "revoked" => rows'[c].status = "revoked",
         primary' \in Rows, rows'[primary'].status = "active", edits' \in 0..MaxEdits,
         UNCHANGED <<live, request, astray>>,
         index' = index \/ index' = LoadedPool,
         call' \in [Calls -> CallRecords], Knowing(call')
  PROVE  CredentialInv'
<1>1. Used' = Used /\ Usable' \subseteq Usable /\ Pool \subseteq Used /\ Used \subseteq Rows
  BY DEF Used, Usable, Pool
<1>2. \A c \in DOMAIN index' :
        c \in Rows /\ index'[c].secret \in Secret /\ OfRow(c, index'[c].secret)
        /\ Safe(index'[c].secret)
  <2>1. CASE index' = index
    BY <2>1 DEF CredentialInv, CredentialTyped, Owned, Rotated
  <2>2. CASE index' = LoadedPool
    <3>1. DOMAIN index' = Pool /\ \A c \in Pool : index'[c].secret = rows[c].secret
      BY <2>2 DEF LoadedPool
    <3> QED BY <1>1, <3>1 DEF CredentialInv, CredentialTyped, Row, Rotated, OfRow
  <2> QED BY <2>1, <2>2
<1>3. CredentialTyped'
  BY <1>2 DEF CredentialInv, CredentialTyped, CallRecords
<1>4. InOrder' /\ PrimaryIsActive'
  BY <1>1 DEF CredentialInv, InOrder, PrimaryIsActive, Pool
<1>5. Owned' /\ Rotated' /\ RotationIsSaved'
  BY <1>1, <1>2, RowsMove DEF CredentialInv, Knowing
<1> QED BY <1>3, <1>4, <1>5 DEF CredentialInv

(* Calls that change the status of rows leave their secrets alone. *)
LEMMA StatusStepsKeep ==
  ASSUME CredentialInv, NEW k \in Calls,
         \/ StartTest(k) \/ MarkTestResult(k) \/ ActivateGatewayCredential(k) \/ OpenForm(k)
         \/ FormFails(k) \/ DisableGatewayCredential(k) \/ RevokeGatewayCredential(k)
         \/ LoadAfterCall(k)
  PROVE  CredentialInv'
<1>0. /\ CredentialTyped /\ Owned /\ rows \in [Rows -> Row] /\ primary \in Rows
      /\ rows[primary].status = "active" /\ edits \in 0..MaxEdits
      /\ call \in [Calls -> CallRecords] /\ Knowing(call)
  BY DEF CredentialInv, CredentialTyped, CallRecords, Owned, Knowing, PrimaryIsActive, Pool
<1>a. Begins(k) => edits' \in 0..MaxEdits
  <2>1. MaxEdits \in Nat
    BY CredentialAssumption
  <2> QED BY <1>0, <2>1 DEF Begins
<1>1. CASE StartTest(k)
  <2>1. PICK c \in Usable : call' = [call EXCEPT ![k].at = "tests", ![k].row = c]
    BY <1>1 DEF StartTest
  <2>2. c \in Used /\ c \in Rows
    BY DEF Usable, Used
  <2> DEFINE q == [call[k] EXCEPT !.at = "tests", !.row = c]
  <2>3. q \in CallRecords /\ q.form = call[k].form /\ q.row = c
    BY <1>0, <2>2 DEF CallRecords, CallLabels
  <2>4. call' = [call EXCEPT ![k] = q]
    BY <1>0, <2>1 DEF CallRecords
  <2>5. \A d \in DOMAIN q.form : OfRow(d, q.form[d])
    BY <1>0, <2>3 DEF Knowing
  <2> HIDE DEF q
  <2>6. call' \in [Calls -> CallRecords] /\ Knowing(call')
    BY <1>0, <2>2, <2>3, <2>4, <2>5, CallsGo
  <2>7. UNCHANGED <<rows, primary, index, live, request, astray>> /\ edits' \in 0..MaxEdits
    BY <1>1, <1>a DEF StartTest
  <2> QED BY <1>0, <2>6, <2>7, StatusesMove
<1>2. CASE MarkTestResult(k)
  <2>1. PICK passed \in BOOLEAN : rows' = Marked(call[k].row, passed)
    BY <1>2 DEF MarkTestResult
  <2>2. /\ rows' \in [Rows -> Row]
        /\ \A c \in Rows : /\ rows'[c].secret = rows[c].secret
                           /\ rows'[c].status = "none" <=> rows[c].status = "none"
                           /\ rows[c].status = "revoked" => rows'[c].status = "revoked"
                           /\ rows[c].status = "active" => rows'[c].status = "active"
    <3>1. call[k].row \in Rows
      BY <1>0 DEF CallRecords
    <3> QED BY <1>0, <2>1, <3>1 DEF Marked, Row
  <2>3. call' \in [Calls -> CallRecords] /\ Knowing(call')
    BY <1>0, <1>2, CallGoesOn DEF MarkTestResult
  <2>4. UNCHANGED <<primary, index, live, request, edits, astray>>
    BY <1>2 DEF MarkTestResult
  <2> QED BY <1>0, <2>2, <2>3, <2>4, StatusesMove
<1>3. CASE ActivateGatewayCredential(k)
  <2>1. PICK c \in Rows :
          /\ rows[c].status = "pending" /\ primary' = c
          /\ rows' = [Retiring(Pool) EXCEPT ![c].status = "active"]
    BY <1>3 DEF ActivateGatewayCredential
  <2>2. /\ rows' \in [Rows -> Row] /\ rows'[c].status = "active"
        /\ \A d \in Rows : /\ rows'[d].secret = rows[d].secret
                           /\ rows'[d].status = "none" <=> rows[d].status = "none"
                           /\ rows[d].status = "revoked" => rows'[d].status = "revoked"
    BY <1>0, <2>1 DEF Retiring, Pool, Row
  <2>3. call' \in [Calls -> CallRecords] /\ Knowing(call')
    BY <1>0, <1>3, CallGoesOn DEF ActivateGatewayCredential
  <2>4. UNCHANGED <<index, live, request, astray>> /\ edits' \in 0..MaxEdits
    BY <1>3, <1>a DEF ActivateGatewayCredential
  <2> QED BY <1>0, <2>1, <2>2, <2>3, <2>4, StatusesMove
<1>4. CASE OpenForm(k)
  <2> DEFINE form == [c \in Pool |-> rows[c].secret]
             q == [call[k] EXCEPT !.at = "form", !.form = form]
  <2>1. form \in Forms
    BY <1>0, FormsAreTyped
  <2>2. \A c \in DOMAIN form : OfRow(c, form[c])
    BY DEF OfRow, Pool, Used
  <2> HIDE DEF form
  <2>3. q \in CallRecords /\ q.form = form /\ q.at = "form"
    BY <1>0, <2>1 DEF CallRecords, CallLabels
  <2>4. call' = [call EXCEPT ![k] = q]
    BY <1>0, <1>4 DEF OpenForm, CallRecords, form
  <2> HIDE DEF q
  <2>5. call' \in [Calls -> CallRecords] /\ Knowing(call')
    BY <1>0, <2>2, <2>3, <2>4, CallsGo
  <2>6. UNCHANGED <<rows, primary, index, live, request, astray>> /\ edits' \in 0..MaxEdits
    BY <1>4, <1>a DEF OpenForm
  <2> QED BY <1>0, <2>5, <2>6, StatusesMove
<1>5. CASE FormFails(k)
  <2>1. call' \in [Calls -> CallRecords] /\ Knowing(call')
    BY <1>0, <1>5, CallGoesOn DEF FormFails
  <2>2. UNCHANGED <<rows, primary, index, live, request, edits, astray>>
    BY <1>5 DEF FormFails
  <2> QED BY <1>0, <2>1, <2>2, StatusesMove
<1>6. CASE DisableGatewayCredential(k)
  <2>1. PICK c \in Used : rows' = [rows EXCEPT ![c].enabled = @ /\ c \notin Pool]
    BY <1>6 DEF DisableGatewayCredential
  <2>2. /\ rows' \in [Rows -> Row]
        /\ \A d \in Rows : rows'[d].secret = rows[d].secret /\ rows'[d].status = rows[d].status
    BY <1>0, <2>1 DEF Row, Used
  <2>3. call' \in [Calls -> CallRecords] /\ Knowing(call')
    BY <1>0, <1>6, CallGoesOn DEF DisableGatewayCredential
  <2>4. UNCHANGED <<primary, index, live, request, astray>> /\ edits' \in 0..MaxEdits
    BY <1>6, <1>a DEF DisableGatewayCredential
  <2> QED BY <1>0, <2>2, <2>3, <2>4, StatusesMove
<1>7. CASE RevokeGatewayCredential(k)
  <2>1. PICK c \in Usable \ {primary} : rows' = [rows EXCEPT ![c].status = "revoked"]
    BY <1>7 DEF RevokeGatewayCredential
  <2>2. /\ rows' \in [Rows -> Row] /\ rows'[primary] = rows[primary]
        /\ \A d \in Rows : /\ rows'[d].secret = rows[d].secret
                           /\ rows'[d].status = "none" <=> rows[d].status = "none"
                           /\ rows[d].status = "revoked" => rows'[d].status = "revoked"
    BY <1>0, <2>1 DEF Row, Usable, Used
  <2>3. UNCHANGED <<primary, index, live, request, call, astray>> /\ edits' \in 0..MaxEdits
    BY <1>7, <1>a DEF RevokeGatewayCredential
  <2> QED BY <1>0, <2>2, <2>3, StatusesMove
<1>8. CASE LoadAfterCall(k)
  <2>1. call' \in [Calls -> CallRecords] /\ Knowing(call')
    BY <1>0, <1>8, CallGoesOn DEF LoadAfterCall
  <2>2. index' = LoadedPool /\ UNCHANGED <<rows, primary, live, request, edits, astray>>
    BY <1>8 DEF LoadAfterCall
  <2> QED BY <1>0, <2>1, <2>2, StatusesMove
<1> QED BY <1>1, <1>2, <1>3, <1>4, <1>5, <1>6, <1>7, <1>8

(* A new row has an account of its own. *)
LEMMA NewRowsTyped ==
  ASSUME CredentialTyped, InOrder, NEW status \in {"pending", "active"}, NEW enabled \in BOOLEAN,
         NEW c \in Rows
  PROVE  /\ Fresh(c) \in Secret /\ NewRow(status, enabled, Fresh(c)) \in Row
         /\ NewRow(status, enabled, Fresh(c)).secret = Fresh(c)
         /\ NewRow(status, enabled, Fresh(c)).status = status
<1>1. 0 \in 0..MaxVersion
  BY CredentialAssumption
<1> QED BY <1>1 DEF Fresh, Secret, NewRow, Row

(* One new row, while others are retired. *)
LEMMA OneRowMore ==
  ASSUME CredentialInv, Free(1) \in Rows, rows' \in [Rows -> Row],
         NEW status \in {"pending", "active"},
         rows'[Free(1)] = NewRow(status, TRUE, Fresh(Free(1))),
         \A c \in Rows \ {Free(1)} :
           /\ rows'[c].secret = rows[c].secret
           /\ rows'[c].status = "none" <=> rows[c].status = "none"
           /\ rows[c].status = "revoked" => rows'[c].status = "revoked",
         primary' \in Rows, rows'[primary'].status = "active", edits' \in 0..MaxEdits,
         UNCHANGED <<live, request, index, astray>>,
         call' \in [Calls -> CallRecords], Knowing(call')
  PROVE  CredentialInv'
<1> DEFINE c == Free(1)
<1>0. CredentialTyped /\ InOrder /\ Owned /\ Rotated /\ RotationIsSaved
  BY DEF CredentialInv
<1>1. c \notin Used /\ Used \subseteq Rows /\ {Free(n) : n \in 1..1} = {c}
  <2>1. 1 \in Nat \ {0} /\ 1..1 = {1}
    OBVIOUS
  <2> QED BY <1>0, <2>1, UsedAreRows
<1>2. rows'[c].status = status /\ rows'[c].secret = Fresh(c)
  BY DEF NewRow
<1> HIDE DEF c
<1>3. Used' = Used \cup {c}
  BY <1>1, <1>2 DEF Used, c
<1>4. InOrder'
  <2>1. 1 \in Nat /\ Used' \subseteq Rows
    BY DEF Used
  <2> QED BY <1>0, <1>1, <1>3, <2>1, NewRowsInOrder
<1>5. CredentialTyped'
  BY <1>0 DEF CredentialTyped, CallRecords
<1>6. PrimaryIsActive'
  BY DEF PrimaryIsActive, Pool
<1>7. \A d \in Usable' : d \in Usable \/ d \notin Used
  BY <1>1, <1>3 DEF Usable, Used, c
<1>8. \A d \in DOMAIN index' : OfRow(d, index'[d].secret) /\ Safe(index'[d].secret)
  BY <1>0 DEF Owned, Rotated
<1>9. /\ \A d \in Used : rows'[d].secret = rows[d].secret
      /\ \A d \in Rows \ Used' : rows'[d].secret = rows[d].secret
      /\ \A d \in Used' \ Used : rows'[d].secret = Fresh(d)
  BY <1>1, <1>2, <1>3 DEF c
<1>10. Owned' /\ Rotated' /\ RotationIsSaved'
  BY <1>0, <1>3, <1>7, <1>8, <1>9, RowsMove DEF Knowing
<1> QED BY <1>4, <1>5, <1>6, <1>10 DEF CredentialInv

(* A row that is added takes the next number. *)
LEMMA CreateKeeps ==
  ASSUME CredentialInv, NEW k \in Calls, CreatePending(k) \/ ReplaceActive(k)
  PROVE  CredentialInv'
<1> DEFINE c == Free(1)
<1>0. /\ CredentialTyped /\ InOrder /\ Owned /\ rows \in [Rows -> Row] /\ primary \in Rows
      /\ rows[primary].status = "active"
      /\ call \in [Calls -> CallRecords] /\ Knowing(call)
  BY DEF CredentialInv, CredentialTyped, CallRecords, Owned, Knowing, PrimaryIsActive, Pool
<1>1. edits' \in 0..MaxEdits /\ c \in Rows /\ UNCHANGED <<live, request, index, astray>>
  <2>1. MaxEdits \in Nat /\ edits \in 0..MaxEdits
    BY <1>0, CredentialAssumption DEF CredentialTyped
  <2>2. Begins(k) /\ c \in Rows /\ UNCHANGED <<live, request, index, astray>>
    BY DEF CreatePending, ReplaceActive
  <2>3. edits < MaxEdits /\ edits' = edits + 1
    BY <2>2 DEF Begins
  <2> QED BY <2>1, <2>2, <2>3
<1>2. c \notin Used
  <2>1. 1 \in Nat \ {0}
    OBVIOUS
  <2> QED BY <1>0, <2>1, UsedAreRows
<1>3. CASE CreatePending(k)
  <2>1. rows' = [rows EXCEPT ![c] = NewRow("pending", TRUE, Fresh(c))]
    BY <1>3 DEF CreatePending
  <2>2. UNCHANGED <<primary, call>>
    BY <1>3 DEF CreatePending
  <2>3. NewRow("pending", TRUE, Fresh(c)) \in Row
    BY <1>0, <1>1, NewRowsTyped
  <2>4. rows' \in [Rows -> Row] /\ rows'[c] = NewRow("pending", TRUE, Fresh(c))
    BY <1>0, <1>1, <2>1, <2>3
  <2>5. \A d \in Rows \ {c} : rows'[d] = rows[d]
    BY <1>0, <2>1
  <2>6. primary # c
    BY <1>0, <1>2 DEF Used
  <2> HIDE DEF c
  <2>7. rows'[primary'].status = "active" /\ primary' \in Rows
    BY <1>0, <2>2, <2>5, <2>6
  <2> QED BY <1>0, <1>1, <2>2, <2>4, <2>5, <2>7, OneRowMore DEF c
<1>4. CASE ReplaceActive(k)
  <2>1. rows' = [Retiring(Pool) EXCEPT ![c] = NewRow("active", TRUE, Fresh(c))] /\ primary' = c
    BY <1>4 DEF ReplaceActive
  <2>2. call' \in [Calls -> CallRecords] /\ Knowing(call')
    BY <1>0, <1>4, CallGoesOn DEF ReplaceActive
  <2>3. /\ NewRow("active", TRUE, Fresh(c)) \in Row
        /\ NewRow("active", TRUE, Fresh(c)).status = "active"
    BY <1>0, <1>1, NewRowsTyped
  <2>4. Retiring(Pool) \in [Rows -> Row]
    BY <1>0 DEF Retiring, Row
  <2>5. rows' \in [Rows -> Row] /\ rows'[c] = NewRow("active", TRUE, Fresh(c))
    BY <1>1, <2>1, <2>3, <2>4
  <2>6. \A d \in Rows \ {c} : rows'[d] = Retiring(Pool)[d]
    BY <2>1, <2>4
  <2>7. \A d \in Rows : /\ Retiring(Pool)[d].secret = rows[d].secret
                        /\ Retiring(Pool)[d].status = "none" <=> rows[d].status = "none"
                        /\ rows[d].status = "revoked" => Retiring(Pool)[d].status = "revoked"
    BY <1>0 DEF Retiring, Row, Pool
  <2> HIDE DEF c
  <2> QED BY <1>0, <1>1, <2>1, <2>2, <2>3, <2>5, <2>6, <2>7, OneRowMore DEF c
<1> QED BY <1>3, <1>4

(* The key pool of a form is saved: keys whose secret has changed meanwhile get
   new rows, one after the other, and so may a key that was added. *)
LEMMA SaveKeeps ==
  ASSUME CredentialInv, NEW k \in Calls, SaveKeyPool(k)
  PROVE  CredentialInv'
<1> DEFINE form == call[k].form
<1>0. /\ CredentialTyped /\ InOrder /\ Owned /\ Rotated /\ RotationIsSaved
      /\ rows \in [Rows -> Row]
      /\ call \in [Calls -> CallRecords] /\ form \in Forms
      /\ \A c \in DOMAIN form : OfRow(c, form[c])
  BY DEF CredentialInv, CredentialTyped, CallRecords, Owned
<1>1. PICK kept \in SUBSET DOMAIN form, adds \in BOOLEAN :
        LET outdated == {c \in kept : rows[c].secret # form[c]}
            moved == [c \in kept |-> IF c \in outdated
                        THEN Free(1 + Cardinality({d \in outdated : d < c})) ELSE c]
            added == IF adds THEN {Free(1 + Cardinality(outdated))} ELSE {}
            saved == {moved[c] : c \in kept} \cup added IN
        /\ saved # {} /\ kept \subseteq Pool /\ saved \subseteq Rows
        /\ \E enabled \in SUBSET saved :
             /\ rows' = [c \in Rows |->
                  CASE c \in added -> NewRow("active", c \in enabled, Fresh(c))
                    [] c \in saved \cap kept -> [rows[c] EXCEPT !.enabled = c \in enabled]
                    [] c \in saved \ (kept \cup added) -> NewRow("active", c \in enabled,
                                               form[CHOOSE d \in outdated : moved[d] = c])
                    [] c \in Pool \ saved -> [rows[c] EXCEPT !.status = "retired"]
                    [] OTHER -> rows[c]]
             /\ primary' \in (IF enabled = {} THEN saved ELSE enabled)
        /\ astray' = astray \cup {form[c].account : c \in outdated}
        /\ edits' = edits + Cardinality(added) /\ edits' <= MaxEdits
  BY DEF SaveKeyPool
<1> DEFINE outdated == {c \in kept : rows[c].secret # form[c]}
           moved == [c \in kept |-> IF c \in outdated
                       THEN Free(1 + Cardinality({d \in outdated : d < c})) ELSE c]
           added == IF adds THEN {Free(1 + Cardinality(outdated))} ELSE {}
           saved == {moved[c] : c \in kept} \cup added
           m == Cardinality(outdated)
           n == IF adds THEN m + 1 ELSE m
           fresh == {Free(i) : i \in 1..n}
<1>2. /\ kept \subseteq Pool /\ saved \subseteq Rows
      /\ astray' = astray \cup {form[c].account : c \in outdated}
      /\ edits' = edits + Cardinality(added) /\ edits' <= MaxEdits
  BY <1>1
<1>3. PICK enabled \in SUBSET saved :
        /\ rows' = [c \in Rows |->
             CASE c \in added -> NewRow("active", c \in enabled, Fresh(c))
               [] c \in saved \cap kept -> [rows[c] EXCEPT !.enabled = c \in enabled]
               [] c \in saved \ (kept \cup added) -> NewRow("active", c \in enabled,
                                          form[CHOOSE d \in outdated : moved[d] = c])
               [] c \in Pool \ saved -> [rows[c] EXCEPT !.status = "retired"]
               [] OTHER -> rows[c]]
        /\ primary' \in saved
  <2>1. saved # {}
    BY <1>1
  <2>2. \A e \in SUBSET saved : (IF e = {} THEN saved ELSE e) \subseteq saved
    OBVIOUS
  <2> HIDE DEF saved, added, moved, outdated, form
  <2> QED BY <1>1, <2>2 DEF saved, added, moved, outdated
<1>4. /\ UNCHANGED <<index, live, request>> /\ CallGoes(k, "load")
  BY DEF SaveKeyPool
<1>5. /\ DOMAIN form \subseteq Rows /\ \A c \in DOMAIN form : form[c] \in Secret
      /\ outdated \subseteq kept /\ kept \subseteq Rows /\ kept \subseteq Used
      /\ IsFiniteSet(outdated) /\ m \in Nat /\ n \in Nat
  <2>1. DOMAIN form \subseteq Rows /\ \A c \in DOMAIN form : form[c] \in Secret
    BY <1>0, FormsAreTyped
  <2>2. IsFiniteSet(Rows)
    <3>1. 1 \in Int /\ MaxRows \in Int
      BY CredentialAssumption
    <3> QED BY <3>1, FS_Interval DEF Rows
  <2>3. outdated \in SUBSET Rows
    BY <2>1
  <2>4. IsFiniteSet(outdated)
    BY <2>2, <2>3, FS_Subset
  <2>5. m \in Nat /\ n \in Nat
    BY <2>4, FS_CardinalityType
  <2>6. Pool \subseteq Used
    BY DEF Pool, Used
  <2> QED BY <1>2, <2>1, <2>4, <2>5, <2>6
<1>6. /\ \A i \in Nat \ {0} : Free(i) \notin Used
      /\ fresh \cap Used = {} /\ added \subseteq fresh
  <2>1. \A i \in Nat \ {0} : Free(i) \notin Used
    BY <1>0, UsedAreRows
  <2>2. added \subseteq fresh
    <3>1. adds => 1 + m = n /\ n \in 1..n
      BY <1>5
    <3> QED BY <3>1
  <2>3. \A i \in 1..n : i \in Nat \ {0}
    OBVIOUS
  <2> QED BY <2>1, <2>2, <2>3
<1>7. /\ \A d \in outdated : moved[d] \in fresh \ added
      /\ \A c \in fresh \ added : \E d \in outdated : moved[d] = c
  <2> DEFINE Rank(d) == Cardinality({e \in outdated : e < d})
  <2>1. outdated \in SUBSET Nat
    BY <1>5 DEF Rows
  <2>2. /\ \A d \in outdated : Rank(d) \in 0..(m - 1)
        /\ \A i \in 0..(m - 1) : \E d \in outdated : Rank(d) = i
    BY <1>5, <2>1, RanksFill
  <2>3. \A d \in outdated : moved[d] = Free(1 + Rank(d))
    BY <1>5
  <2>4. Cardinality(Used) \in Nat
    BY <1>0 DEF InOrder
  <2>5. \A i \in Nat, j \in Nat : Free(i) = Free(j) => i = j
    BY <2>4 DEF Free
  <2> HIDE DEF Rank, moved, outdated, m
  <2>6. ASSUME NEW d \in outdated PROVE moved[d] \in fresh \ added
    <3>1. 1 + Rank(d) \in 1..m /\ 1 + Rank(d) \in Nat
      BY <1>5, <2>2
    <3>2. 1 + Rank(d) \in 1..n /\ 1 + m \in Nat /\ 1 + Rank(d) # 1 + m
      BY <1>5, <3>1
    <3>3. moved[d] \in fresh
      BY <2>3, <3>2
    <3>4. adds => Free(1 + Rank(d)) # Free(1 + m)
      BY <2>5, <3>1, <3>2
    <3> QED BY <2>3, <3>3, <3>4 DEF m
  <2>7. ASSUME NEW c \in fresh \ added PROVE \E d \in outdated : moved[d] = c
    <3>1. PICK i \in 1..n : c = Free(i)
      OBVIOUS
    <3>2. i # 1 + m \/ ~adds
      BY <2>7, <3>1 DEF m
    <3>3. i - 1 \in 0..(m - 1) /\ 1 + (i - 1) = i
      BY <1>5, <3>2
    <3>4. PICK d \in outdated : Rank(d) = i - 1
      BY <2>2, <3>3
    <3> QED BY <2>3, <3>1, <3>3, <3>4
  <2> QED BY <2>6, <2>7
<1>8. saved = (kept \ outdated) \cup fresh
  <2>1. \A c \in kept \ outdated : moved[c] = c
    OBVIOUS
  <2>2. saved \subseteq (kept \ outdated) \cup fresh
    <3>1. \A c \in kept : moved[c] \in (kept \ outdated) \cup fresh
      BY <1>7, <2>1
    <3> HIDE DEF moved, outdated, fresh
    <3> QED BY <1>6, <3>1
  <2>3. kept \ outdated \subseteq saved
    BY <2>1
  <2>4. fresh \subseteq saved
    <3>1. outdated \subseteq kept
      OBVIOUS
    <3> HIDE DEF moved, outdated, fresh, added
    <3> QED BY <1>7, <3>1
  <2> QED BY <2>2, <2>3, <2>4
<1> HIDE DEF form, moved, added, saved, m, n, fresh, outdated
<1>9. kept \cap fresh = {} /\ saved \cap kept = kept \ outdated /\ outdated \subseteq kept
  BY <1>5, <1>6, <1>8
<1>10. ASSUME NEW c \in added
       PROVE  rows'[c] = NewRow("active", c \in enabled, Fresh(c)) /\ c \in Rows
  <2>1. c \in Rows /\ c \in saved /\ c \notin kept /\ c \in added
    BY <1>2, <1>6, <1>8, <1>9, <1>10
  <2> QED BY <1>3, <2>1
<1>11. ASSUME NEW c \in fresh \ added
       PROVE  /\ c \in Rows
              /\ \E d \in outdated : rows'[c] = NewRow("active", c \in enabled, form[d])
  <2> DEFINE d == CHOOSE d \in outdated : moved[d] = c
  <2>1. c \in Rows /\ c \in saved \ (kept \cup added) /\ c \notin kept
    BY <1>2, <1>8, <1>9
  <2>2. d \in outdated
    BY <1>7
  <2>3. rows'[c] = NewRow("active", c \in enabled, form[d])
    BY <1>3, <2>1
  <2> HIDE DEF d
  <2> QED BY <2>1, <2>2, <2>3
<1>12. ASSUME NEW c \in Rows \ fresh
       PROVE  \/ c \in saved /\ rows[c].status = "active"
                 /\ rows'[c] = [rows[c] EXCEPT !.enabled = c \in enabled]
              \/ /\ c \notin saved /\ c \in Pool
                 /\ rows'[c] = [rows[c] EXCEPT !.status = "retired"]
              \/ c \notin saved /\ c \notin Pool /\ rows'[c] = rows[c]
  <2>1. c \notin added
    BY <1>6, <1>12
  <2>2. CASE c \in saved
    <3>1. c \in saved \cap kept
      BY <1>8, <1>12, <2>2
    <3> QED BY <1>2, <1>3, <2>1, <3>1 DEF Pool
  <2>3. CASE c \in Pool \ saved
    BY <1>3, <2>1, <2>3
  <2>4. CASE c \notin Pool /\ c \notin saved
    BY <1>3, <2>1, <2>4
  <2> QED BY <2>2, <2>3, <2>4
<1>13. 0 \in 0..MaxVersion /\ fresh \subseteq Rows
  BY <1>2, <1>8, CredentialAssumption
<1>14. ASSUME NEW c \in fresh
       PROVE  /\ rows'[c] \in Row /\ rows'[c].status = "active"
              /\ \/ rows'[c].secret = Fresh(c)
                 \/ rows'[c].secret.account \in Used \cap astray'
  <2>1. CASE c \in added
    <3>1. c \in Rows /\ rows'[c] = NewRow("active", c \in enabled, Fresh(c))
      BY <1>10, <2>1
    <3>2. \A b \in BOOLEAN : /\ NewRow("active", b, Fresh(c)) \in Row
                           /\ NewRow("active", b, Fresh(c)).secret = Fresh(c)
                           /\ NewRow("active", b, Fresh(c)).status = "active"
      <4>1. CredentialTyped /\ InOrder /\ c \in Rows
        BY <1>0, <3>1
      <4> QED BY <4>1, NewRowsTyped
    <3>3. (c \in enabled) \in BOOLEAN
      OBVIOUS
    <3>4. /\ NewRow("active", c \in enabled, Fresh(c)) \in Row
          /\ NewRow("active", c \in enabled, Fresh(c)).secret = Fresh(c)
          /\ NewRow("active", c \in enabled, Fresh(c)).status = "active"
      BY <3>2, <3>3
    <3> QED BY <3>1, <3>4
  <2>2. CASE c \in fresh \ added
    <3>1. PICK d \in outdated : rows'[c] = NewRow("active", c \in enabled, form[d])
      BY <1>11, <2>2
    <3>2. form[d] \in Secret /\ OfRow(d, form[d]) /\ form[d].account \in astray'
      BY <1>0, <1>2, <1>5
    <3>3. form[d].account \in Used
      BY <1>0, <3>2 DEF OfRow, Owned, Used
    <3>4. (c \in enabled) \in BOOLEAN
      OBVIOUS
    <3> HIDE DEF form
    <3>5. /\ rows'[c].status = "active" /\ rows'[c].secret = form[d]
          /\ rows'[c].enabled = (c \in enabled) /\ rows'[c].tested = FALSE
      BY <3>1 DEF NewRow
    <3>6. rows'[c] = [status |-> "active", tested |-> FALSE, enabled |-> (c \in enabled),
                      secret |-> form[d]]
      BY <3>1 DEF NewRow
    <3>7. rows'[c] \in Row
      BY <3>2, <3>4, <3>6 DEF Row
    <3> QED BY <3>2, <3>3, <3>5, <3>7
  <2> QED BY <2>1, <2>2
<1>15. ASSUME NEW c \in Rows \ fresh
       PROVE  /\ rows'[c] \in Row /\ rows'[c].secret = rows[c].secret
              /\ rows'[c].status = "none" <=> rows[c].status = "none"
              /\ rows[c].status = "revoked" => rows'[c].status = "revoked"
              /\ c \in saved => rows'[c].status = "active"
  <2>1. rows[c] \in Row
    BY <1>0, <1>15
  <2>2. CASE /\ c \in saved /\ rows[c].status = "active"
             /\ rows'[c] = [rows[c] EXCEPT !.enabled = c \in enabled]
    <3>1. (c \in enabled) \in BOOLEAN
      OBVIOUS
    <3> QED BY <2>1, <2>2, <3>1 DEF Row
  <2>3. CASE /\ c \notin saved /\ c \in Pool
             /\ rows'[c] = [rows[c] EXCEPT !.status = "retired"]
    BY <2>1, <2>3 DEF Row, Pool
  <2>4. CASE c \notin saved /\ c \notin Pool /\ rows'[c] = rows[c]
    BY <2>1, <2>4
  <2> QED BY <1>12, <1>15, <2>2, <2>3, <2>4
<1>16. rows' \in [Rows -> Row]
  <2>1. \A c \in Rows : rows'[c] \in Row
    BY <1>14, <1>15
  <2>2. DOMAIN rows' = Rows /\ rows' = [c \in Rows |-> rows'[c]]
    BY <1>3
  <2> QED BY <2>1, <2>2
<1>17. Used' = Used \cup fresh
  BY <1>13, <1>14, <1>15 DEF Used
<1>18. InOrder'
  <2>1. Used' \subseteq Rows
    BY DEF Used
  <2>2. Used' = Used \cup {Free(i) : i \in 1..n}
    BY <1>17 DEF fresh
  <2> QED BY <1>0, <1>5, <2>1, <2>2, NewRowsInOrder
<1>19. primary' \in Rows /\ PrimaryIsActive'
  <2>1. primary' \in saved /\ primary' \in Rows
    BY <1>2, <1>3
  <2>2. rows'[primary'].status = "active"
    BY <1>14, <1>15, <2>1
  <2> QED BY <2>1, <2>2 DEF PrimaryIsActive, Pool
<1>20. call' \in [Calls -> CallRecords] /\ Knowing(call')
  BY <1>0, <1>4, CallGoesOn
<1>21. astray \subseteq astray' /\ astray' \subseteq Rows
  <2>1. \A c \in outdated : form[c].account \in Rows
    BY <1>5 DEF Secret
  <2> QED BY <1>0, <1>2, <2>1 DEF CredentialTyped
<1>22. edits' \in 0..MaxEdits
  <2>1. Cardinality(added) \in {0, 1}
    BY FS_EmptySet, FS_Singleton DEF added
  <2>2. edits \in 0..MaxEdits /\ MaxEdits \in Nat
    BY <1>0, CredentialAssumption DEF CredentialTyped
  <2> QED BY <1>2, <2>1, <2>2
<1>23. CredentialTyped'
  BY <1>0, <1>4, <1>16, <1>19, <1>20, <1>21, <1>22 DEF CredentialTyped, CallRecords
<1>24. Owned' /\ Rotated' /\ RotationIsSaved'
  <2>1. \A c \in Usable' : c \in Usable \/ c \notin Used
    BY <1>6, <1>15 DEF Usable, Used
  <2>2. \A c \in DOMAIN index' : OfRow(c, index'[c].secret) /\ Safe(index'[c].secret)
    BY <1>0, <1>4 DEF Owned, Rotated
  <2>3. /\ \A c \in Used : rows'[c].secret = rows[c].secret
        /\ \A c \in Rows \ Used' : rows'[c].secret = rows[c].secret
    BY <1>6, <1>15, <1>17 DEF Used
  <2>4. \A c \in Used' \ Used : \/ rows'[c].secret = Fresh(c)
                                \/ rows'[c].secret.account \in Used \cap astray'
    BY <1>14, <1>17
  <2> QED BY <1>0, <1>4, <1>17, <1>20, <1>21, <2>1, <2>2, <2>3, <2>4, RowsMove DEF Knowing
<1> QED BY <1>18, <1>19, <1>23, <1>24 DEF CredentialInv

-----------------------------------------------------------------------------
(* The upstream and the requests. *)

RequestRecords == [at : RequestLabels, row : Rows, secret : Secret]

(* The route index has keys that may be used, and so has one that is loaded. *)
LEMMA IndexIsSafe ==
  ASSUME CredentialInv, index' = index \/ index' = LoadedPool
  PROVE  \A c \in DOMAIN index' :
           c \in Rows /\ index'[c].secret \in Secret /\ OfRow(c, index'[c].secret)
           /\ Safe(index'[c].secret)
<1>1. CASE index' = index
  BY <1>1 DEF CredentialInv, CredentialTyped, Owned, Rotated
<1>2. CASE index' = LoadedPool
  <2>1. DOMAIN index' = Pool /\ \A c \in Pool : index'[c].secret = rows[c].secret
    BY <1>2 DEF LoadedPool
  <2>2. Pool \subseteq Used /\ Used \subseteq Rows
    BY DEF Pool, Used
  <2> QED BY <2>1, <2>2 DEF CredentialInv, CredentialTyped, Row, Rotated, OfRow
<1> QED BY <1>1, <1>2

(* A step after which nobody saves who did not before, and after which a token
   that was newest, or on its way to its row, is so still or has gone astray. *)
LEMMA UpstreamMoves ==
  ASSUME CredentialInv, UNCHANGED <<rows, primary, call, edits>>,
         request' \in [Requests -> RequestRecords], live' \in [Rows -> 0..MaxVersion],
         astray \subseteq astray', astray' \subseteq Rows,
         \A a \in Rows : live'[a] = live[a] \/ a \in Used \cap astray',
         \A r \in Requests :
           \/ request'[r] = request[r]
           \/ /\ request'[r].at # "save"
              /\ request[r].at = "save" => request[r].secret.account \in astray'
              /\ request'[r].at = "token" => /\ OfRow(request'[r].row, request'[r].secret)
                                             /\ Safe(request'[r].secret),
         index' = index \/ index' = LoadedPool
  PROVE  CredentialInv'
<1>0. /\ CredentialTyped /\ InOrder /\ Owned /\ Rotated /\ PrimaryIsActive /\ RotationIsSaved
      /\ rows \in [Rows -> Row] /\ request \in [Requests -> RequestRecords]
  BY DEF CredentialInv, CredentialTyped, RequestRecords
<1>1. Used' = Used /\ Usable' = Usable /\ Pool' = Pool /\ \A c, s : OfRow(c, s)' = OfRow(c, s)
  BY DEF Used, Usable, Pool, OfRow
<1>2. \A r \in Requests : \A a :
        /\ IsSaving(r, a)' => IsSaving(r, a)
        /\ IsSaving(r, a) => IsSaving(r, a)' \/ a \in astray'
  BY DEF IsSaving
<1>3. ASSUME NEW s \in Secret, Safe(s) PROVE Safe(s)'
  <2>1. s.account \in Rows
    BY DEF Secret
  <2> QED BY <1>2, <1>3, <2>1 DEF Safe
<1>4. \A c \in DOMAIN index' :
        c \in Rows /\ index'[c].secret \in Secret /\ OfRow(c, index'[c].secret)
        /\ Safe(index'[c].secret)
  BY IndexIsSafe
<1>5. CredentialTyped' /\ InOrder' /\ PrimaryIsActive'
  BY <1>0, <1>1, <1>4 DEF CredentialTyped, InOrder, PrimaryIsActive, RequestRecords
<1>6. Owned'
  <2>1. \A r \in Requests : Holding(r)' => OfRow(request'[r].row, request'[r].secret)
    <3> SUFFICES ASSUME NEW r \in Requests, Holding(r)'
                 PROVE  OfRow(request'[r].row, request'[r].secret)
      OBVIOUS
    <3>1. CASE request'[r] = request[r]
      BY <1>0, <3>1 DEF Owned, Holding
    <3>2. CASE request'[r] # request[r]
      BY <3>2 DEF Holding
    <3> QED BY <3>1, <3>2
  <2>2. \A c \in Rows \ Used : rows'[c].secret = Fresh(c) /\ live'[c] = 0
    BY <1>0 DEF Owned
  <2>3. \A c \in Rows : /\ rows'[c].secret.account \in Used \cup {c}
                        /\ rows'[c].secret.account = c \/ rows'[c].secret.account \in astray'
    BY <1>0 DEF Owned
  <2>4. \A k \in Calls : /\ call'[k].at = "tests" => call'[k].row \in Used
                         /\ \A c \in DOMAIN call'[k].form : OfRow(c, call'[k].form[c])
    BY <1>0 DEF Owned
  <2>5. \A c : Fresh(c)' = Fresh(c)
    BY DEF Fresh
  <2> QED BY <1>1, <1>4, <2>1, <2>2, <2>3, <2>4, <2>5 DEF Owned
<1>7. Rotated'
  <2>1. \A c \in Rows : Safe(rows[c].secret)'
    <3>1. \A c \in Rows : rows[c].secret \in Secret /\ Safe(rows[c].secret) /\ rows'[c] = rows[c]
      BY <1>0 DEF Row, Rotated
    <3> QED BY <1>3, <3>1 DEF Safe
  <2>2. \A c \in DOMAIN index' : Safe(index[c].secret)'
    BY <1>3, <1>4 DEF Safe
  <2>3. ASSUME NEW r \in Requests, request'[r].at = "token" PROVE Safe(request[r].secret)'
    <3>1. request'[r].secret \in Secret
      BY DEF RequestRecords
    <3>2. Safe(request'[r].secret)
      BY <1>0, <2>3 DEF Rotated
    <3> QED BY <1>3, <3>1, <3>2 DEF Safe
  <2>4. ASSUME NEW r \in Requests, request'[r].at = "save" PROVE SavesNewest(r)'
    <3>1. request'[r] = request[r] /\ SavesNewest(r) /\ request[r].secret.account \in Rows
      BY <1>0, <2>4 DEF Rotated, RequestRecords, Secret
    <3> QED BY <1>2, <3>1 DEF SavesNewest
  <2> QED BY <2>1, <2>2, <2>3, <2>4 DEF Rotated
<1>8. RotationIsSaved'
  <2> SUFFICES ASSUME NEW c \in Usable
               PROVE  \/ rows[c].secret.account \in astray'
                      \/ rows[c].secret.version = live'[rows[c].secret.account]
                      \/ \E r \in Requests : IsSaving(r, rows[c].secret.account)'
    BY <1>1 DEF RotationIsSaved
  <2>1. rows[c].secret.account \in Rows
    BY <1>0 DEF Usable, Used, Row, Secret
  <2> QED BY <1>0, <1>2, <2>1 DEF RotationIsSaved
<1> QED BY <1>5, <1>6, <1>7, <1>8 DEF CredentialInv

(* A request turns to a state in which it has nothing to save. *)
LEMMA RequestTurns ==
  ASSUME CredentialInv, NEW r \in Requests, NEW q \in RequestRecords,
         request' = [request EXCEPT ![r] = q], q.at # "save",
         request[r].at = "save" => request[r].secret.account \in astray',
         q.at = "token" => OfRow(q.row, q.secret) /\ Safe(q.secret),
         UNCHANGED <<rows, primary, live, call, edits>>,
         astray \subseteq astray', astray' \subseteq Rows,
         index' = index \/ index' = LoadedPool
  PROVE  CredentialInv'
<1>0. request \in [Requests -> RequestRecords] /\ live \in [Rows -> 0..MaxVersion]
  BY DEF CredentialInv, CredentialTyped, RequestRecords
<1>1. request' \in [Requests -> RequestRecords] /\ live' \in [Rows -> 0..MaxVersion]
  BY <1>0
<1>2. \A p \in Requests : request'[p] = IF p = r THEN q ELSE request[p]
  BY <1>0
<1>3. ASSUME NEW p \in Requests
      PROVE  \/ request'[p] = request[p]
             \/ /\ request'[p].at # "save"
                /\ request[p].at = "save" => request[p].secret.account \in astray'
                /\ request'[p].at = "token" => /\ OfRow(request'[p].row, request'[p].secret)
                                               /\ Safe(request'[p].secret)
  BY <1>2
<1> QED BY <1>1, <1>3, UpstreamMoves

(* A request that is over holds no secret. *)
LEMMA RequestLeaves ==
  ASSUME NEW label \in {"load", "over"}
  PROVE  Without(label) \in RequestRecords /\ Without(label).at = label
<1>1. 1 \in Rows /\ 0 \in 0..MaxVersion
  BY CredentialAssumption DEF Rows
<1> QED BY <1>1 DEF Without, RequestRecords, RequestLabels, Fresh, Secret

(* A request that takes a secret, uses it or gives up. *)
LEMMA RequestStepsKeep ==
  ASSUME CredentialInv, NEW r \in Requests,
         \/ SelectKey(r) \/ PinKey(r) \/ UseToken(r) \/ RefreshFails(r)
         \/ SaveRefreshedFails(r) \/ LoadAfterSave(r)
  PROVE  CredentialInv'
<1>0. /\ rows \in [Rows -> Row] /\ request \in [Requests -> RequestRecords]
      /\ astray \subseteq Rows
      /\ \A c \in DOMAIN index :
           c \in Rows /\ index[c].secret \in Secret /\ OfRow(c, index[c].secret)
           /\ Safe(index[c].secret)
      /\ \A c \in Rows : Safe(rows[c].secret)
  BY DEF CredentialInv, CredentialTyped, RequestRecords, Owned, Rotated
<1>1. ASSUME Arrives(r), NEW c \in Rows, NEW s \in Secret, Has(r, c, s), OfRow(c, s), Safe(s),
             UNCHANGED <<rows, primary, index, live, call, edits, astray>>
      PROVE  CredentialInv'
  <2> DEFINE q == [at |-> "token", row |-> c, secret |-> s]
  <2>1. q \in RequestRecords /\ q.at = "token" /\ q.row = c /\ q.secret = s
    BY DEF RequestRecords, RequestLabels
  <2>2. request' = [request EXCEPT ![r] = q] /\ request[r].at = "new"
    BY <1>1 DEF Has, Arrives
  <2> HIDE DEF q
  <2> QED BY <1>0, <1>1, <2>1, <2>2, RequestTurns
<1>2. ASSUME NEW label \in {"load", "over"}, RequestGoes(r, label),
             request[r].at = "save" => request[r].secret.account \in astray',
             UNCHANGED <<rows, primary, live, call, edits>>,
             astray \subseteq astray', astray' \subseteq Rows,
             index' = index \/ index' = LoadedPool
      PROVE  CredentialInv'
  <2> DEFINE q == Without(label)
  <2>1. q \in RequestRecords /\ q.at = label
    BY RequestLeaves
  <2>2. request' = [request EXCEPT ![r] = q]
    BY <1>2 DEF RequestGoes
  <2> HIDE DEF q
  <2> QED BY <1>2, <2>1, <2>2, RequestTurns
<1>3. CASE SelectKey(r)
  <2>1. PICK c \in DOMAIN index : Has(r, c, index[c].secret)
    BY <1>3 DEF SelectKey
  <2>2. Arrives(r) /\ UNCHANGED <<rows, primary, index, live, call, edits, astray>>
    BY <1>3 DEF SelectKey
  <2> QED BY <1>0, <1>1, <2>1, <2>2
<1>4. CASE PinKey(r)
  <2>1. PICK c \in Rows : rows[c].status \in {"active", "retired"} /\ Has(r, c, rows[c].secret)
    BY <1>4 DEF PinKey
  <2>2. Arrives(r) /\ UNCHANGED <<rows, primary, index, live, call, edits, astray>>
    BY <1>4 DEF PinKey
  <2>3. rows[c].secret \in Secret /\ OfRow(c, rows[c].secret)
    BY <1>0, <2>1 DEF Row, OfRow, Used
  <2> QED BY <1>0, <1>1, <2>1, <2>2, <2>3
<1>5. CASE UseToken(r)
  BY <1>0, <1>2, <1>5 DEF UseToken
<1>6. CASE RefreshFails(r)
  BY <1>0, <1>2, <1>6 DEF RefreshFails
<1>7. CASE SaveRefreshedFails(r)
  <2>1. request[r].secret.account \in Rows
    BY <1>0 DEF RequestRecords, Secret
  <2> QED BY <1>0, <1>2, <1>7, <2>1 DEF SaveRefreshedFails, Lose
<1>8. CASE LoadAfterSave(r)
  BY <1>0, <1>2, <1>8 DEF LoadAfterSave
<1> QED BY <1>3, <1>4, <1>5, <1>6, <1>7, <1>8

(* The upstream has rotated a token, and nobody has the new one. *)
LEMMA AnswerIsLost ==
  ASSUME CredentialInv, NEW a \in Used, live[a] < MaxVersion,
         live' = [live EXCEPT ![a] = @ + 1], astray' = astray \cup {a},
         UNCHANGED <<rows, primary, index, call, edits>>,
         request' \in [Requests -> RequestRecords],
         \A p \in Requests : \/ request'[p] = request[p]
                             \/ request'[p].at = "over" /\ request[p].at = "token"
  PROVE  CredentialInv'
<1>1. /\ live \in [Rows -> 0..MaxVersion] /\ astray \subseteq Rows /\ a \in Rows
      /\ MaxVersion \in Nat
  BY CredentialAssumption DEF CredentialInv, CredentialTyped, Used
<1>2. live[a] + 1 \in 0..MaxVersion
  BY <1>1
<1>3. live' \in [Rows -> 0..MaxVersion] /\ \A b \in Rows \ {a} : live'[b] = live[b]
  BY <1>1, <1>2
<1>4. astray \subseteq astray' /\ astray' \subseteq Rows
      /\ \A b \in Rows : live'[b] = live[b] \/ b \in Used \cap astray'
  BY <1>1, <1>3
<1> QED BY <1>3, <1>4, UpstreamMoves

(* A test of a credential refreshes its token outside of the pool. *)
LEMMA ProbeKeeps ==
  ASSUME CredentialInv, NEW k \in Calls, ProbeRefreshes(k)
  PROVE  CredentialInv'
<1> DEFINE a == rows[call[k].row].secret.account
<1>1. /\ live' = [live EXCEPT ![a] = @ + 1] /\ astray' = astray \cup {a}
      /\ rows[call[k].row].secret.version = live[a]
      /\ rows[call[k].row].secret.version < MaxVersion
      /\ UNCHANGED <<rows, primary, index, request, call, edits>>
  BY DEF ProbeRefreshes
<1>2. call[k].row \in Used /\ call[k].row \in Rows
  BY DEF CredentialInv, Owned, ProbeRefreshes, Used
<1>3. a \in Used
  BY <1>2 DEF CredentialInv, Owned
<1>4. request' \in [Requests -> RequestRecords]
  BY <1>1 DEF CredentialInv, CredentialTyped, RequestRecords
<1>5. live[a] < MaxVersion /\ \A p \in Requests : request'[p] = request[p]
  BY <1>1
<1> HIDE DEF a
<1> QED BY <1>1, <1>3, <1>4, <1>5, AnswerIsLost

(* A refresh whose answer is lost leaves its account without a newest token. *)
LEMMA LostRefreshKeeps ==
  ASSUME CredentialInv, NEW r \in Requests, RefreshAnswerLost(r)
  PROVE  CredentialInv'
<1> DEFINE a == request[r].secret.account
<1>1. /\ live' = [live EXCEPT ![a] = @ + 1] /\ astray' = astray \cup {a}
      /\ request[r].secret.version = live[a] /\ request[r].secret.version < MaxVersion
      /\ request[r].at = "token" /\ UNCHANGED <<rows, primary, index, call, edits>>
  BY DEF RefreshAnswerLost, Takes, Rotates, Lose
<1>2. OfRow(request[r].row, request[r].secret)
  BY <1>1 DEF CredentialInv, Owned, Holding
<1>3. a \in Used
  BY <1>2 DEF CredentialInv, Owned, OfRow, Used
<1>4. request' = [request EXCEPT ![r] = Without("over")]
      /\ request \in [Requests -> RequestRecords]
  BY DEF RefreshAnswerLost, RequestGoes, CredentialInv, CredentialTyped, RequestRecords
<1>5. Without("over") \in RequestRecords /\ Without("over").at = "over"
  BY RequestLeaves
<1>6. \A p \in Requests : request'[p] = IF p = r THEN Without("over") ELSE request[p]
  BY <1>4
<1>7. /\ request' \in [Requests -> RequestRecords]
      /\ \A p \in Requests : \/ request'[p] = request[p]
                             \/ request'[p].at = "over" /\ request[p].at = "token"
  BY <1>1, <1>4, <1>5, <1>6
<1>8. live[a] < MaxVersion
  BY <1>1
<1> HIDE DEF a
<1> QED BY <1>1, <1>3, <1>7, <1>8, AnswerIsLost

(* The upstream answers a request: nobody else was about to save a secret of
   this account, and its row holds no newer one. *)
LEMMA RefreshKeeps ==
  ASSUME CredentialInv, NEW r \in Requests, Refresh(r)
  PROVE  CredentialInv'
<1>a. request[r].secret \in Secret
  BY DEF CredentialInv, CredentialTyped
<1>s. PICK s \in Secret : s = request[r].secret
  BY <1>a
<1> DEFINE a == s.account
           q == [request[r] EXCEPT !.at = "save", !.secret.version = @ + 1]
<1>0. /\ CredentialTyped /\ InOrder /\ Owned /\ Rotated /\ PrimaryIsActive /\ RotationIsSaved
      /\ rows \in [Rows -> Row] /\ request \in [Requests -> RequestRecords]
      /\ live \in [Rows -> 0..MaxVersion] /\ MaxVersion \in Nat
  BY CredentialAssumption DEF CredentialInv, CredentialTyped, RequestRecords
<1>1. /\ request[r].at = "token" /\ s.version = live[a] /\ s.version < MaxVersion
      /\ live' = [live EXCEPT ![a] = @ + 1]
      /\ request' = [request EXCEPT ![r] = q]
      /\ UNCHANGED <<rows, primary, index, call, edits, astray>>
  BY <1>0, <1>s DEF Refresh, Takes, Rotates, RequestRecords
<1>2. /\ request[r] \in RequestRecords /\ s \in Secret /\ a \in Rows
      /\ OfRow(request[r].row, s) /\ Safe(s)
  BY <1>0, <1>1, <1>s DEF RequestRecords, Secret, Owned, Rotated, Holding
<1>3. a \in Used
  BY <1>0, <1>2 DEF OfRow, Owned, Used
<1>4. live[a] \in Nat /\ live[a] + 1 \in 0..MaxVersion
  BY <1>0, <1>1, <1>2
<1>5. /\ live' \in [Rows -> 0..MaxVersion] /\ live'[a] = live[a] + 1
      /\ \A b \in Rows \ {a} : live'[b] = live[b]
  BY <1>0, <1>1, <1>2, <1>4
<1>6. /\ q \in RequestRecords /\ q.at = "save" /\ q.row = request[r].row
      /\ q.secret.account = a /\ q.secret.version = live'[a]
  BY <1>1, <1>2, <1>4, <1>5, <1>s DEF RequestRecords, RequestLabels, Secret
<1>7. /\ request' \in [Requests -> RequestRecords] /\ request'[r] = q
      /\ \A p \in Requests \ {r} : request'[p] = request[p]
  BY <1>0, <1>1, <1>6
<1> HIDE DEF a, q
<1>8. /\ Used' = Used /\ Usable' = Usable /\ Pool' = Pool
      /\ \A c, t : OfRow(c, t)' = OfRow(c, t)
  BY <1>1 DEF Used, Usable, Pool, OfRow
<1>9. /\ IsSaving(r, a)' /\ \A b : b # a => ~IsSaving(r, b)' /\ ~IsSaving(r, b)
      /\ \A p \in Requests \ {r} : \A b : IsSaving(p, b)' <=> IsSaving(p, b)
      /\ a \in astray \/ \A p \in Requests : ~IsSaving(p, a)
  <2>1. IsSaving(r, a)' /\ \A b : b # a => ~IsSaving(r, b)' /\ ~IsSaving(r, b)
    BY <1>1, <1>6, <1>7, <1>s DEF IsSaving
  <2>2. \A p \in Requests \ {r} : \A b : IsSaving(p, b)' <=> IsSaving(p, b)
    BY <1>7 DEF IsSaving
  <2>3. s.account = a /\ ~(s.version < live[a])
    BY <1>1, <1>4 DEF a
  <2>4. a \in astray \/ \A p \in Requests : ~IsSaving(p, a)
    BY <1>2, <2>3 DEF Safe
  <2> QED BY <2>1, <2>2, <2>4
<1>10. ASSUME NEW t \in Secret, Safe(t) PROVE Safe(t)'
  <2>1. t.account \in Rows /\ t.version \in Nat
    BY <1>0 DEF Secret
  <2>2. CASE t.account = a
    <3>1. t.account \in astray \/ t.version < live'[t.account]
      BY <1>4, <1>5, <1>10, <2>1, <2>2 DEF Safe
    <3> QED BY <1>1, <3>1 DEF Safe
  <2>3. CASE t.account # a
    <3>1. \A p \in Requests : IsSaving(p, t.account)' <=> IsSaving(p, t.account)
      BY <1>9, <2>3
    <3>2. live'[t.account] = live[t.account]
      BY <1>5, <2>1, <2>3
    <3> QED BY <1>1, <1>10, <3>1, <3>2 DEF Safe
  <2> QED BY <2>2, <2>3
<1>11. CredentialTyped' /\ InOrder' /\ PrimaryIsActive'
  BY <1>0, <1>1, <1>5, <1>7, <1>8
     DEF CredentialTyped, InOrder, PrimaryIsActive, RequestRecords
<1>12. Owned'
  <2>1. ASSUME NEW p \in Requests, Holding(p)' PROVE OfRow(request'[p].row, request'[p].secret)
    <3>1. CASE p = r
      BY <1>2, <1>6, <1>7, <1>s, <3>1 DEF OfRow, a
    <3>2. CASE p # r
      BY <1>0, <1>7, <2>1, <3>2 DEF Owned, Holding
    <3> QED BY <3>1, <3>2
  <2>2. \A c \in Rows \ Used : rows'[c].secret = Fresh(c) /\ live'[c] = 0
    BY <1>0, <1>1, <1>3, <1>5 DEF Owned
  <2>3. \A c \in Rows : /\ rows'[c].secret.account \in Used \cup {c}
                        /\ rows'[c].secret.account = c \/ rows'[c].secret.account \in astray'
    BY <1>0, <1>1 DEF Owned
  <2>4. \A k \in Calls : /\ call'[k].at = "tests" => call'[k].row \in Used
                         /\ \A c \in DOMAIN call'[k].form : OfRow(c, call'[k].form[c])
    BY <1>0, <1>1 DEF Owned
  <2>5. \A c : Fresh(c)' = Fresh(c)
    BY DEF Fresh
  <2>6. \A c \in DOMAIN index' : OfRow(c, index'[c].secret)
    BY <1>0, <1>1 DEF Owned
  <2> QED BY <1>8, <2>1, <2>2, <2>3, <2>4, <2>5, <2>6 DEF Owned
<1>13. Rotated'
  <2>1. \A c \in Rows : Safe(rows[c].secret)'
    <3>1. \A c \in Rows : rows[c].secret \in Secret /\ Safe(rows[c].secret) /\ rows'[c] = rows[c]
      BY <1>0, <1>1 DEF Row, Rotated
    <3> QED BY <1>10, <3>1 DEF Safe
  <2>2. \A c \in DOMAIN index' : Safe(index[c].secret)'
    <3>1. \A c \in DOMAIN index : index[c].secret \in Secret /\ Safe(index[c].secret)
      BY <1>0 DEF CredentialTyped, Rotated
    <3> QED BY <1>1, <1>10, <3>1 DEF Safe
  <2>3. ASSUME NEW p \in Requests, request'[p].at = "token" PROVE Safe(request[p].secret)'
    <3>1. request'[p] = request[p] /\ request[p].secret \in Secret /\ Safe(request[p].secret)
      BY <1>0, <1>6, <1>7, <2>3 DEF RequestRecords, Rotated
    <3> QED BY <1>10, <3>1 DEF Safe
  <2>4. ASSUME NEW p \in Requests, request'[p].at = "save" PROVE SavesNewest(p)'
    <3>1. CASE p = r
      BY <1>1, <1>6, <1>7, <1>9, <3>1 DEF SavesNewest
    <3>2. CASE p # r
      <4>1. /\ request'[p] = request[p] /\ SavesNewest(p) /\ request[p].at = "save"
            /\ request[p].secret.account \in Rows
        BY <1>0, <1>7, <2>4, <3>2 DEF Rotated, RequestRecords, Secret
      <4>2. CASE request[p].secret.account = a
        <5>1. IsSaving(p, a)
          BY <4>1, <4>2 DEF IsSaving
        <5> QED BY <1>1, <1>9, <4>1, <4>2, <5>1 DEF SavesNewest
      <4>3. CASE request[p].secret.account # a
        BY <1>1, <1>5, <1>9, <4>1, <4>3 DEF SavesNewest
      <4> QED BY <4>2, <4>3
    <3> QED BY <3>1, <3>2
  <2> QED BY <2>1, <2>2, <2>3, <2>4 DEF Rotated
<1>14. RotationIsSaved'
  <2> SUFFICES ASSUME NEW c \in Usable
               PROVE  \/ rows[c].secret.account \in astray
                      \/ rows[c].secret.version = live'[rows[c].secret.account]
                      \/ \E p \in Requests : IsSaving(p, rows[c].secret.account)'
    BY <1>1, <1>8 DEF RotationIsSaved
  <2>1. rows[c].secret.account \in Rows
    BY <1>0 DEF Usable, Used, Row, Secret
  <2>2. CASE rows[c].secret.account = a
    BY <1>1, <1>9, <2>2 DEF IsSaving
  <2>3. CASE rows[c].secret.account # a
    BY <1>0, <1>1, <1>5, <1>9, <2>1, <2>3 DEF RotationIsSaved, IsSaving
  <2> QED BY <2>2, <2>3
<1> QED BY <1>11, <1>12, <1>13, <1>14 DEF CredentialInv

(* The new secret of a row is saved: the row's account is its own, so no other
   row has waited for this secret, unless the token is astray. *)
LEMMA SaveRefreshedKeeps ==
  ASSUME CredentialInv, NEW r \in Requests, SaveRefreshed(r)
  PROVE  CredentialInv'
<1>a. request[r].secret \in Secret /\ request[r].row \in Rows
  BY DEF CredentialInv, CredentialTyped
<1>s. PICK s \in Secret, c \in Rows : s = request[r].secret /\ c = request[r].row
  BY <1>a
<1> DEFINE a == s.account
<1>0. /\ CredentialTyped /\ InOrder /\ Owned /\ Rotated /\ PrimaryIsActive /\ RotationIsSaved
      /\ rows \in [Rows -> Row] /\ request \in [Requests -> RequestRecords]
  BY DEF CredentialInv, CredentialTyped, RequestRecords
<1>1. /\ request[r].at = "save" /\ rows' = [rows EXCEPT ![c].secret = s]
      /\ request' = [request EXCEPT ![r] = Without("load")]
      /\ UNCHANGED <<primary, index, live, call, edits, astray>>
  BY <1>s DEF SaveRefreshed, SavedRow, RequestGoes
<1>2. /\ c \in Rows /\ s \in Secret /\ a \in Rows /\ SavesNewest(r)
      /\ c \in Used /\ rows[c].secret.account = a
  BY <1>0, <1>1, <1>s DEF RequestRecords, Secret, Owned, Rotated, Holding, OfRow
<1>3. /\ rows' \in [Rows -> Row] /\ rows'[c].secret = s /\ rows'[c].status = rows[c].status
      /\ \A d \in Rows \ {c} : rows'[d] = rows[d]
  BY <1>0, <1>1, <1>2 DEF Row
<1>4. /\ request' \in [Requests -> RequestRecords] /\ request'[r].at = "load"
      /\ \A p \in Requests \ {r} : request'[p] = request[p]
  <2>1. Without("load") \in RequestRecords /\ Without("load").at = "load"
    BY RequestLeaves
  <2> QED BY <1>0, <1>1, <2>1
<1>5. \A d \in Rows : /\ rows'[d].status = rows[d].status
                      /\ rows'[d].secret.account = rows[d].secret.account
  BY <1>2, <1>3
<1>6. \/ a \in astray
      \/ s.version = live[a] /\ \A p \in Requests \ {r} : ~IsSaving(p, a)
  BY <1>2, <1>s DEF SavesNewest
<1> HIDE DEF a
<1>7. /\ Used' = Used /\ Usable' = Usable /\ Pool' = Pool /\ Used \subseteq Rows
      /\ \A d, t : OfRow(d, t)' = OfRow(d, t)
  <2>1. Used' = Used /\ Usable' = Usable /\ Pool' = Pool /\ Used \subseteq Rows
    BY <1>5 DEF Used, Usable, Pool
  <2> QED BY <1>5, <2>1 DEF OfRow
<1>8. /\ \A b : ~IsSaving(r, b)'
      /\ \A p \in Requests \ {r} : \A b : IsSaving(p, b)' <=> IsSaving(p, b)
      /\ \A b : IsSaving(r, b) => b = a
  BY <1>4, <1>s DEF IsSaving, a
<1>9. \A t : Safe(t) => Safe(t)'
  BY <1>1, <1>8 DEF Safe
<1>10. Safe(s)'
  <2>1. s.account = a
    BY DEF a
  <2> QED BY <1>1, <1>6, <1>8, <2>1 DEF Safe
<1>11. CredentialTyped' /\ InOrder' /\ PrimaryIsActive'
  BY <1>0, <1>1, <1>3, <1>4, <1>7
     DEF CredentialTyped, InOrder, PrimaryIsActive, RequestRecords
<1>12. Owned'
  <2>1. ASSUME NEW p \in Requests, Holding(p)' PROVE OfRow(request'[p].row, request'[p].secret)
    <3>1. p # r
      BY <1>4, <2>1 DEF Holding
    <3> QED BY <1>0, <1>4, <2>1, <3>1 DEF Owned, Holding
  <2>2. \A d \in Rows \ Used : rows'[d].secret = Fresh(d) /\ live'[d] = 0
    BY <1>0, <1>1, <1>2, <1>3 DEF Owned
  <2>3. \A d \in Rows : /\ rows'[d].secret.account \in Used \cup {d}
                        /\ rows'[d].secret.account = d \/ rows'[d].secret.account \in astray'
    BY <1>0, <1>1, <1>5 DEF Owned
  <2>4. \A k \in Calls : /\ call'[k].at = "tests" => call'[k].row \in Used
                         /\ \A d \in DOMAIN call'[k].form : OfRow(d, call'[k].form[d])
    BY <1>0, <1>1 DEF Owned
  <2>5. \A d : Fresh(d)' = Fresh(d)
    BY DEF Fresh
  <2>6. \A d \in DOMAIN index' : OfRow(d, index'[d].secret)
    BY <1>0, <1>1 DEF Owned
  <2> QED BY <1>7, <2>1, <2>2, <2>3, <2>4, <2>5, <2>6 DEF Owned
<1>13. Rotated'
  <2>1. ASSUME NEW d \in Rows PROVE Safe(rows[d].secret)'
    <3>1. CASE d = c
      BY <1>3, <1>10, <3>1 DEF Safe
    <3>2. CASE d # c
      <4>1. rows'[d] = rows[d] /\ Safe(rows[d].secret)
        BY <1>0, <1>3, <3>2 DEF Rotated
      <4> QED BY <1>9, <4>1 DEF Safe
    <3> QED BY <3>1, <3>2
  <2>2. \A d \in DOMAIN index' : Safe(index[d].secret)'
    BY <1>0, <1>1, <1>9 DEF Safe, Rotated
  <2>3. ASSUME NEW p \in Requests, request'[p].at = "token" PROVE Safe(request[p].secret)'
    <3>1. request'[p] = request[p] /\ Safe(request[p].secret)
      BY <1>0, <1>4, <2>3 DEF Rotated
    <3> QED BY <1>9, <3>1 DEF Safe
  <2>4. ASSUME NEW p \in Requests, request'[p].at = "save" PROVE SavesNewest(p)'
    <3>1. p # r /\ request'[p] = request[p] /\ SavesNewest(p)
      BY <1>0, <1>4, <2>4 DEF Rotated
    <3> QED BY <1>1, <1>8, <3>1 DEF SavesNewest
  <2> QED BY <2>1, <2>2, <2>3, <2>4 DEF Rotated
<1>14. RotationIsSaved'
  <2> SUFFICES ASSUME NEW d \in Usable
               PROVE  \/ rows'[d].secret.account \in astray
                      \/ rows'[d].secret.version = live[rows'[d].secret.account]
                      \/ \E p \in Requests : IsSaving(p, rows[d].secret.account)'
    BY <1>1, <1>7 DEF RotationIsSaved
  <2>1. d \in Rows
    BY DEF Usable, Used
  <2>2. CASE d = c
    BY <1>3, <1>6, <2>2 DEF a
  <2>3. CASE d # c
    <3>1. rows'[d] = rows[d]
      BY <1>3, <2>1, <2>3
    <3>2. CASE rows[d].secret.account = a
      BY <1>0, <1>2, <2>1, <2>3, <3>1, <3>2 DEF Owned
    <3>3. CASE rows[d].secret.account # a
      BY <1>0, <1>8, <3>1, <3>3 DEF RotationIsSaved
    <3> QED BY <3>2, <3>3
  <2> QED BY <2>2, <2>3
<1> QED BY <1>11, <1>12, <1>13, <1>14 DEF CredentialInv

-----------------------------------------------------------------------------
(* The theorems. *)

(* Every step keeps the invariant. *)
LEMMA CredentialSteps ==
  ASSUME CredentialInv, [CredentialNext]_credentialVars
  PROVE  CredentialInv'
<1>1. ASSUME NEW k \in Calls, Administration(k) PROVE CredentialInv'
  BY <1>1, StatusStepsKeep, CreateKeeps, SaveKeeps, ProbeKeeps DEF Administration
<1>2. ASSUME NEW r \in Requests, TokenStep(r) PROVE CredentialInv'
  BY <1>2, RequestStepsKeep, RefreshKeeps, LostRefreshKeeps, SaveRefreshedKeeps DEF TokenStep
<1>3. CASE UNCHANGED credentialVars
  BY <1>3 DEF credentialVars, CredentialInv, CredentialTyped, InOrder, Owned, Rotated,
              PrimaryIsActive, RotationIsSaved, Used, Usable, Pool, OfRow, Holding, Safe,
              SavesNewest, IsSaving
<1> QED BY <1>1, <1>2, <1>3 DEF CredentialNext

(* The invariant holds whatever requests, administrators, tests of credentials
   and refreshes of their tokens meet: rows are numbered as they come, a secret
   that somebody holds is of the account of its row, an account has one row
   unless its token is astray, and whoever may send a token to the upstream
   either sends the newest one, which nobody is about to replace, or is refused. *)
THEOREM CredentialInvariant == CredentialSpec => []CredentialInv
<1>1. CredentialInit => CredentialInv
  BY CredentialStarts
<1>2. CredentialInv /\ [CredentialNext]_credentialVars => CredentialInv'
  BY CredentialSteps
<1> QED BY <1>1, <1>2, PTL DEF CredentialSpec

(* Every variable keeps its type: the rows that are made have a number within
   the bound, and what a row, the index, a form or a request holds is a secret. *)
THEOREM CredentialTypes == CredentialSpec => []CredentialTypeOK
<1>1. CredentialInv => CredentialTypeOK
  BY DEF CredentialInv, CredentialTyped, CredentialTypeOK
<1> QED BY <1>1, CredentialInvariant, PTL

(* The credential that the endpoint refers to is an active one
   (gateway_endpoints.active_credential_id), for any number of calls that
   activate, replace, test, save, disable and revoke at the same time. *)
THEOREM PrimaryActive == CredentialSpec => []PrimaryIsActive
<1>1. CredentialInv => PrimaryIsActive
  BY DEF CredentialInv
<1> QED BY <1>1, CredentialInvariant, PTL

(* Each row that may be used holds the newest refresh token of its account, or
   a request is about to save it, unless the token went astray: for any number
   of requests that refresh at the same time, and any forms and rotations. *)
THEOREM RotationSaved == CredentialSpec => []RotationIsSaved
<1>1. CredentialInv => RotationIsSaved
  BY DEF CredentialInv
<1> QED BY <1>1, CredentialInvariant, PTL

-----------------------------------------------------------------------------
(* A Claude stream. What is said of out at a position is said of any sequence
   of events, so that a chunk's events can be looked at one by one. *)

StreamEvents ==
  [ev : {"start", "delta", "stop", "message_start", "message_delta", "message_stop"},
   index : Nat,
   of : {"think", "text", "tool0", "tool1", "any", "message"}]

StartsIn(s, n) == {m \in DOMAIN s : m < n /\ s[m].ev = "start"}
StoppedIn(s, i, from, n) ==
  \E m \in DOMAIN s : from < m /\ m < n /\ s[m].ev = "stop" /\ s[m].index = i
OpenIn(s, n) == {m \in StartsIn(s, n) : ~StoppedIn(s, s[m].index, m, n)}

(* BlocksAreWellFormed at one position. *)
Shapely(s, n, direct) ==
  /\ s[n].ev = "delta" => \E m \in OpenIn(s, n) : s[m].index = s[n].index /\ s[m].of = s[n].of
  /\ s[n].ev = "stop" => \E m \in OpenIn(s, n) : s[m].index = s[n].index
  /\ s[n].ev = "message_stop" => n = Len(s) /\ \A m \in OpenIn(s, n) : s[m].of = "think"
  /\ direct /\ s[n].ev = "start" =>
       OpenIn(s, n) = {} /\ s[n].index = Cardinality(StartsIn(s, n))

(* The blocks, each an index and a kind, that are open behind the last event. *)
OpenBlocks(s) == {<<s[m].index, s[m].of>> : m \in OpenIn(s, Len(s) + 1)}

(* An unfinished message that is well formed so far, what it has left open and
   how many blocks it has begun; only the direct conversion counts them. *)
Written(s, direct, open, begun) ==
  /\ s \in Seq(StreamEvents)
  /\ \A n \in DOMAIN s : Shapely(s, n, direct) /\ s[n].ev # "message_stop"
  /\ OpenBlocks(s) = open
  /\ direct => IsFiniteSet(StartsIn(s, Len(s) + 1)) /\ Cardinality(StartsIn(s, Len(s) + 1)) = begun

(* An event that may come next, and the blocks that are open behind it. *)
MayFollow(e, direct, open, begun) ==
  /\ e.ev = "delta" => <<e.index, e.of>> \in open
  /\ e.ev = "stop" => \E b \in open : b[1] = e.index
  /\ direct /\ e.ev = "start" => open = {} /\ e.index = begun
OpenAfter(e, open) ==
  CASE e.ev = "start" -> open \cup {<<e.index, e.of>>}
    [] e.ev = "stop"  -> {b \in open : b[1] # e.index}
    [] OTHER          -> open

(* Nothing that was written changes when an event is appended. *)
LEMMA PositionsStay ==
  ASSUME NEW s \in Seq(StreamEvents), NEW e \in StreamEvents, NEW n \in 1..(Len(s) + 1)
  PROVE  /\ StartsIn(Append(s, e), n) = StartsIn(s, n)
         /\ OpenIn(Append(s, e), n) = OpenIn(s, n)
<1> DEFINE t == Append(s, e)
<1>1. /\ DOMAIN s = 1..Len(s) /\ DOMAIN t = 1..(Len(s) + 1) /\ Len(s) \in Nat
      /\ \A m \in 1..Len(s) : t[m] = s[m]
  BY AppendProperties, LenProperties
<1>2. StartsIn(t, n) = StartsIn(s, n)
  BY <1>1 DEF StartsIn
<1>3. \A m \in StartsIn(s, n) : t[m] = s[m]
  BY <1>1 DEF StartsIn
<1>4. ASSUME NEW i, NEW from PROVE StoppedIn(t, i, from, n) <=> StoppedIn(s, i, from, n)
  BY <1>1 DEF StoppedIn
<1>5. OpenIn(t, n) = {m \in StartsIn(s, n) : ~StoppedIn(t, t[m].index, m, n)}
  BY <1>2 DEF OpenIn
<1>6. OpenIn(t, n) = OpenIn(s, n)
  BY <1>3, <1>4, <1>5 DEF OpenIn
<1> QED BY <1>2, <1>6

(* The open positions behind an appended event. *)
LEMMA PositionsAfter ==
  ASSUME NEW s \in Seq(StreamEvents), NEW e \in StreamEvents
  PROVE  LET t == Append(s, e)
             last == Len(s) + 1
         IN /\ t \in Seq(StreamEvents) /\ Len(t) = last /\ t[last] = e
            /\ \A m \in 1..Len(s) : t[m] = s[m]
            /\ StartsIn(t, Len(t) + 1) =
                 StartsIn(s, last) \cup (IF e.ev = "start" THEN {last} ELSE {})
            /\ OpenIn(t, Len(t) + 1) =
                 {m \in OpenIn(s, last) : ~(e.ev = "stop" /\ s[m].index = e.index)}
                   \cup (IF e.ev = "start" THEN {last} ELSE {})
<1> DEFINE t == Append(s, e)
           last == Len(s) + 1
<1>1. /\ DOMAIN s = 1..Len(s) /\ DOMAIN t = 1..last /\ Len(s) \in Nat /\ Len(t) = last
      /\ \A m \in 1..Len(s) : t[m] = s[m]
      /\ t[last] = e /\ t \in Seq(StreamEvents)
  BY AppendProperties, LenProperties
<1>2. StartsIn(t, last + 1) = StartsIn(s, last) \cup (IF e.ev = "start" THEN {last} ELSE {})
  BY <1>1 DEF StartsIn
<1>3. ASSUME NEW m \in 1..Len(s), NEW i
      PROVE  StoppedIn(t, i, m, last + 1) <=> StoppedIn(s, i, m, last) \/ (e.ev = "stop" /\ e.index = i)
  BY <1>1 DEF StoppedIn
<1>4. ~StoppedIn(t, e.index, last, last + 1)
  BY <1>1 DEF StoppedIn
<1>5. StartsIn(s, last) \subseteq 1..Len(s)
  BY <1>1 DEF StartsIn
<1>6. ASSUME NEW m \in StartsIn(s, last)
      PROVE  m \in OpenIn(t, last + 1) <=> m \in OpenIn(s, last) /\ ~(e.ev = "stop" /\ s[m].index = e.index)
  <2>1. m \in 1..Len(s) /\ t[m] = s[m]
    BY <1>1, <1>5
  <2>2. m \in StartsIn(t, last + 1)
    BY <1>2
  <2> QED BY <1>3, <2>1, <2>2 DEF OpenIn
<1>7. ASSUME e.ev = "start" PROVE last \in OpenIn(t, last + 1)
  BY <1>1, <1>2, <1>4, <1>7 DEF OpenIn
<1>8. OpenIn(t, last + 1) \subseteq StartsIn(t, last + 1) /\ OpenIn(s, last) \subseteq StartsIn(s, last)
  BY DEF OpenIn
<1>9. last \notin StartsIn(s, last)
  BY <1>1, <1>5
<1>10. OpenIn(t, last + 1) =
         {m \in OpenIn(s, last) : ~(e.ev = "stop" /\ s[m].index = e.index)}
           \cup (IF e.ev = "start" THEN {last} ELSE {})
  BY <1>2, <1>6, <1>7, <1>8, <1>9
<1> QED BY <1>1, <1>2, <1>10

(* An event that may follow leaves the message well formed. *)
LEMMA EventWritten ==
  ASSUME NEW s, NEW direct \in BOOLEAN, NEW open, NEW begun \in Nat, NEW e \in StreamEvents,
         Written(s, direct, open, begun),
         MayFollow(e, direct, open, begun), e.ev # "message_stop"
  PROVE  Written(Append(s, e), direct, OpenAfter(e, open),
                 IF direct /\ e.ev = "start" THEN begun + 1 ELSE begun)
<1> DEFINE t == Append(s, e)
           last == Len(s) + 1
<1>1. /\ s \in Seq(StreamEvents) /\ Len(s) \in Nat /\ DOMAIN s = 1..Len(s)
      /\ OpenBlocks(s) = open
  BY LenProperties DEF Written
<1>2. /\ t \in Seq(StreamEvents) /\ Len(t) = last /\ t[last] = e /\ DOMAIN t = 1..last
      /\ \A m \in 1..Len(s) : t[m] = s[m]
      /\ StartsIn(t, Len(t) + 1) = StartsIn(s, last) \cup (IF e.ev = "start" THEN {last} ELSE {})
      /\ OpenIn(t, Len(t) + 1) =
           {m \in OpenIn(s, last) : ~(e.ev = "stop" /\ s[m].index = e.index)}
             \cup (IF e.ev = "start" THEN {last} ELSE {})
  BY <1>1, PositionsAfter, LenProperties
<1>3. OpenIn(s, last) \subseteq 1..Len(s) /\ StartsIn(s, last) \subseteq 1..Len(s)
  BY <1>1 DEF OpenIn, StartsIn
<1>4. ASSUME NEW n \in 1..Len(s) PROVE Shapely(t, n, direct) /\ t[n].ev # "message_stop"
  <2>1. StartsIn(t, n) = StartsIn(s, n) /\ OpenIn(t, n) = OpenIn(s, n) /\ t[n] = s[n]
    BY <1>1, <1>2, PositionsStay
  <2>2. \A m \in OpenIn(s, n) : t[m] = s[m]
    BY <1>1, <1>2 DEF OpenIn, StartsIn
  <2>3. Shapely(s, n, direct) /\ s[n].ev # "message_stop"
    BY <1>1 DEF Written
  <2> QED BY <2>1, <2>2, <2>3 DEF Shapely
<1>5. Shapely(t, last, direct)
  <2>1. StartsIn(t, last) = StartsIn(s, last) /\ OpenIn(t, last) = OpenIn(s, last)
    BY <1>1, PositionsStay
  <2>2. \A m \in OpenIn(s, last) : t[m] = s[m] /\ <<s[m].index, s[m].of>> \in open
    BY <1>1, <1>2, <1>3 DEF OpenBlocks
  <2>3. ASSUME e.ev = "delta" PROVE \E m \in OpenIn(t, last) : t[m].index = e.index /\ t[m].of = e.of
    <3>1. PICK m \in OpenIn(s, last) : <<e.index, e.of>> = <<s[m].index, s[m].of>>
      BY <1>1, <2>3 DEF MayFollow, OpenBlocks
    <3> QED BY <2>1, <2>2, <3>1
  <2>4. ASSUME e.ev = "stop" PROVE \E m \in OpenIn(t, last) : t[m].index = e.index
    <3>1. PICK m \in OpenIn(s, last) : <<s[m].index, s[m].of>>[1] = e.index
      BY <1>1, <2>4 DEF MayFollow, OpenBlocks
    <3> QED BY <2>1, <2>2, <3>1
  <2>5. ASSUME direct, e.ev = "start"
        PROVE  OpenIn(t, last) = {} /\ e.index = Cardinality(StartsIn(t, last))
    BY <1>1, <2>1, <2>5 DEF MayFollow, OpenBlocks, Written
  <2> QED BY <1>2, <2>3, <2>4, <2>5 DEF Shapely
<1>6. OpenBlocks(t) = OpenAfter(e, open)
  <2>1. \A m \in OpenIn(s, last) : t[m] = s[m]
    BY <1>2, <1>3
  <2>2. OpenBlocks(t) =
          {<<s[m].index, s[m].of>> : m \in {k \in OpenIn(s, last) : ~(e.ev = "stop" /\ s[k].index = e.index)}}
            \cup (IF e.ev = "start" THEN {<<e.index, e.of>>} ELSE {})
    <3>1. CASE e.ev = "start"
      <4>1. OpenIn(t, Len(t) + 1) = OpenIn(s, last) \cup {last}
        BY <1>2, <3>1
      <4>2. OpenBlocks(t) =
              {<<t[m].index, t[m].of>> : m \in OpenIn(s, last)} \cup {<<t[last].index, t[last].of>>}
        BY <4>1 DEF OpenBlocks
      <4>3. {<<t[m].index, t[m].of>> : m \in OpenIn(s, last)} = {<<s[m].index, s[m].of>> : m \in OpenIn(s, last)}
        BY <2>1
      <4>4. {k \in OpenIn(s, last) : ~(e.ev = "stop" /\ s[k].index = e.index)} = OpenIn(s, last)
        BY <3>1
      <4> HIDE DEF t, last
      <4> QED BY <1>2, <3>1, <4>2, <4>3, <4>4
    <3>2. CASE e.ev # "start"
      <4>1. OpenIn(t, Len(t) + 1) = {k \in OpenIn(s, last) : ~(e.ev = "stop" /\ s[k].index = e.index)}
        BY <1>2, <3>2
      <4> QED BY <2>1, <3>2, <4>1 DEF OpenBlocks
    <3> QED BY <3>1, <3>2
  <2>3. open = {<<s[m].index, s[m].of>> : m \in OpenIn(s, last)}
    BY <1>1 DEF OpenBlocks
  <2>4. CASE e.ev = "stop"
    <3>1. \A m \in OpenIn(s, last) : <<s[m].index, s[m].of>>[1] = s[m].index
      OBVIOUS
    <3> QED BY <2>2, <2>3, <2>4, <3>1 DEF OpenAfter
  <2>5. CASE e.ev # "stop"
    BY <2>2, <2>3, <2>5 DEF OpenAfter
  <2> QED BY <2>4, <2>5
<1>7. ASSUME direct
      PROVE  /\ IsFiniteSet(StartsIn(t, Len(t) + 1))
             /\ Cardinality(StartsIn(t, Len(t) + 1)) = IF e.ev = "start" THEN begun + 1 ELSE begun
  <2>1. IsFiniteSet(StartsIn(s, last)) /\ Cardinality(StartsIn(s, last)) = begun
    BY <1>7 DEF Written
  <2>2. last \notin StartsIn(s, last)
    BY <1>1, <1>3
  <2>3. CASE e.ev = "start"
    <3>1. StartsIn(t, Len(t) + 1) = StartsIn(s, last) \cup {last}
      BY <1>2, <2>3
    <3>2. /\ IsFiniteSet(StartsIn(s, last) \cup {last})
          /\ Cardinality(StartsIn(s, last) \cup {last}) = begun + 1
      BY <2>1, <2>2, FS_AddElement
    <3> QED BY <2>3, <3>1, <3>2
  <2>4. CASE e.ev # "start"
    <3>1. StartsIn(t, Len(t) + 1) = StartsIn(s, last)
      BY <1>2, <2>4
    <3> QED BY <2>1, <2>4, <3>1
  <2> QED BY <2>3, <2>4
<1>8. \A n \in DOMAIN t : Shapely(t, n, direct) /\ t[n].ev # "message_stop"
  BY <1>1, <1>2, <1>4, <1>5
<1> QED BY <1>2, <1>6, <1>7, <1>8 DEF Written

-----------------------------------------------------------------------------
(* Runs of events. *)

(* Events that take any message with these blocks to one with those. *)
Extends(run, direct, open, begun, openThen, begunThen) ==
  /\ run \in Seq(StreamEvents)
  /\ \A s : Written(s, direct, open, begun) => Written(s \o run, direct, openThen, begunThen)

(* Events that end any message with these blocks. *)
Completes(run, direct, open, begun) ==
  /\ run \in Seq(StreamEvents)
  /\ \A s : Written(s, direct, open, begun) =>
        \A n \in DOMAIN (s \o run) : Shapely(s \o run, n, direct)

(* No event: nothing changes. *)
LEMMA NothingExtends ==
  ASSUME NEW direct, NEW open, NEW begun
  PROVE  Extends(<<>>, direct, open, begun, open, begun)
<1>1. \A s : Written(s, direct, open, begun) => s \o <<>> = s
  BY ConcatEmptySeq DEF Written
<1> QED BY <1>1, EmptySeq DEF Extends

(* One event that may follow. *)
LEMMA EventExtends ==
  ASSUME NEW direct \in BOOLEAN, NEW open, NEW begun \in Nat, NEW e \in StreamEvents,
         MayFollow(e, direct, open, begun), e.ev # "message_stop"
  PROVE  Extends(<<e>>, direct, open, begun, OpenAfter(e, open),
                 IF direct /\ e.ev = "start" THEN begun + 1 ELSE begun)
<1>1. ASSUME NEW s, Written(s, direct, open, begun)
      PROVE  Written(s \o <<e>>, direct, OpenAfter(e, open),
                     IF direct /\ e.ev = "start" THEN begun + 1 ELSE begun)
  <2>1. s \o <<e>> = Append(s, e)
    BY <1>1, AppendIsConcat DEF Written
  <2> QED BY <1>1, <2>1, EventWritten
<1>2. <<e>> \in Seq(StreamEvents)
  OBVIOUS
<1> QED BY <1>1, <1>2 DEF Extends

(* A run of events after another. *)
LEMMA ExtendsTwice ==
  ASSUME NEW direct, NEW open, NEW begun, NEW open1, NEW begun1, NEW open2, NEW begun2,
         NEW first, NEW second,
         Extends(first, direct, open, begun, open1, begun1),
         Extends(second, direct, open1, begun1, open2, begun2)
  PROVE  Extends(first \o second, direct, open, begun, open2, begun2)
<1>1. first \o second \in Seq(StreamEvents)
  BY ConcatProperties DEF Extends
<1>2. ASSUME NEW s, Written(s, direct, open, begun)
      PROVE  Written(s \o (first \o second), direct, open2, begun2)
  <2>1. s \o (first \o second) = (s \o first) \o second
    BY <1>2, ConcatAssociative DEF Written, Extends
  <2> QED BY <1>2, <2>1 DEF Extends
<1> QED BY <1>1, <1>2 DEF Extends

(* A run of events before the end of the message. *)
LEMMA ExtendsAndCompletes ==
  ASSUME NEW direct, NEW open, NEW begun, NEW open1, NEW begun1, NEW first, NEW second,
         Extends(first, direct, open, begun, open1, begun1),
         Completes(second, direct, open1, begun1)
  PROVE  Completes(first \o second, direct, open, begun)
<1>1. first \o second \in Seq(StreamEvents)
  BY ConcatProperties DEF Extends, Completes
<1>2. ASSUME NEW s, Written(s, direct, open, begun)
      PROVE  \A n \in DOMAIN (s \o (first \o second)) : Shapely(s \o (first \o second), n, direct)
  <2>1. s \o (first \o second) = (s \o first) \o second
    BY <1>2, ConcatAssociative DEF Written, Extends, Completes
  <2>2. Written(s \o first, direct, open1, begun1)
    BY <1>2 DEF Extends
  <2> QED BY <2>1, <2>2 DEF Completes
<1> QED BY <1>1, <1>2 DEF Completes

(* message_delta and message_stop, where only a thinking is left open. *)
LEMMA MessageCompletes ==
  ASSUME NEW direct \in BOOLEAN, NEW open, NEW begun \in Nat, \A b \in open : b[2] = "think"
  PROVE  Completes(<<Message("message_delta"), Message("message_stop")>>, direct, open, begun)
<1> DEFINE delta == Message("message_delta")
           stop == Message("message_stop")
<1>1. delta \in StreamEvents /\ stop \in StreamEvents
  BY DEF Message, Event, StreamEvents
<1>2. <<delta, stop>> \in Seq(StreamEvents)
  BY <1>1
<1>3. ASSUME NEW s, Written(s, direct, open, begun)
      PROVE  \A n \in DOMAIN (s \o <<delta, stop>>) : Shapely(s \o <<delta, stop>>, n, direct)
  <2> DEFINE r == Append(s, delta)
             t == Append(r, stop)
  <2>1. Written(r, direct, open, begun)
    <3>1. MayFollow(delta, direct, open, begun) /\ OpenAfter(delta, open) = open /\ delta.ev # "start"
          /\ delta.ev # "message_stop"
      BY DEF MayFollow, OpenAfter, Message, Event
    <3> QED BY <1>1, <1>3, <3>1, EventWritten
  <2>2. s \in Seq(StreamEvents) /\ r \in Seq(StreamEvents)
    BY <1>3, <2>1 DEF Written
  <2>3. s \o <<delta, stop>> = t
    <3>1. r = s \o <<delta>> /\ t = r \o <<stop>>
      BY <1>1, <2>2, AppendIsConcat
    <3>2. <<delta>> \in Seq(StreamEvents) /\ <<stop>> \in Seq(StreamEvents)
      BY <1>1
    <3>3. t = s \o (<<delta>> \o <<stop>>)
      BY <2>2, <3>1, <3>2, ConcatAssociative
    <3>4. ASSUME NEW a \in StreamEvents, NEW b \in StreamEvents PROVE <<a>> \o <<b>> = <<a, b>>
      <4>1. <<a>> \in Seq(StreamEvents)
        OBVIOUS
      <4>2. Append(<<a>>, b) = <<a, b>>
        <5>1. <<a, b>> \in Seq(StreamEvents) /\ Len(<<a, b>>) = 2
          OBVIOUS
        <5>2. \A n \in 1..2 : Append(<<a>>, b)[n] = <<a, b>>[n]
          <6>1. Append(<<a>>, b)[1] = a /\ Append(<<a>>, b)[2] = b
            BY <4>1, AppendProperties
          <6> QED BY <6>1
        <5>3. Append(<<a>>, b) \in Seq(StreamEvents) /\ Len(Append(<<a>>, b)) = 2
          BY <4>1, AppendProperties
        <5> QED BY <5>1, <5>2, <5>3, SeqEqual
      <4> QED BY <4>1, <4>2, AppendIsConcat
    <3> QED BY <1>1, <3>3, <3>4
  <2>4. /\ Len(r) \in Nat /\ DOMAIN r = 1..Len(r) /\ DOMAIN t = 1..(Len(r) + 1)
        /\ Len(t) = Len(r) + 1 /\ t[Len(r) + 1] = stop
        /\ \A m \in 1..Len(r) : t[m] = r[m]
    BY <1>1, <2>2, AppendProperties, LenProperties
  <2>5. ASSUME NEW n \in 1..(Len(r) + 1)
        PROVE  /\ StartsIn(t, n) = StartsIn(r, n) /\ OpenIn(t, n) = OpenIn(r, n)
               /\ \A m \in OpenIn(r, n) : t[m] = r[m]
    <3>1. StartsIn(t, n) = StartsIn(r, n) /\ OpenIn(t, n) = OpenIn(r, n)
      BY <1>1, <2>2, PositionsStay
    <3>2. OpenIn(r, n) \subseteq 1..Len(r)
      BY <2>4 DEF OpenIn, StartsIn
    <3> QED BY <2>4, <3>1, <3>2
  <2> HIDE DEF r, t, stop, delta
  <2>6. ASSUME NEW n \in 1..Len(r) PROVE Shapely(t, n, direct)
    <3>1. Shapely(r, n, direct) /\ r[n].ev # "message_stop" /\ t[n] = r[n]
      BY <2>1, <2>4 DEF Written
    <3>2. /\ StartsIn(t, n) = StartsIn(r, n) /\ OpenIn(t, n) = OpenIn(r, n)
          /\ \A m \in OpenIn(r, n) : t[m] = r[m]
      BY <2>4, <2>5
    <3> QED BY <3>1, <3>2 DEF Shapely
  <2>7. Shapely(t, Len(r) + 1, direct)
    <3>1. OpenIn(t, Len(r) + 1) = OpenIn(r, Len(r) + 1) /\ \A m \in OpenIn(r, Len(r) + 1) : t[m] = r[m]
      BY <2>4, <2>5
    <3>2. ASSUME NEW m \in OpenIn(r, Len(r) + 1) PROVE r[m].of = "think"
      <4>1. <<r[m].index, r[m].of>> \in open
        BY <2>1 DEF Written, OpenBlocks
      <4>2. <<r[m].index, r[m].of>>[2] = "think"
        BY <4>1
      <4> QED BY <4>2
    <3>3. stop.ev = "message_stop"
      BY DEF stop, Message, Event
    <3> QED BY <2>4, <3>1, <3>2, <3>3 DEF Shapely
  <2>8. \A n \in DOMAIN t : Shapely(t, n, direct)
    BY <2>4, <2>6, <2>7
  <2> QED BY <2>3, <2>8
<1> QED BY <1>2, <1>3 DEF Completes

-----------------------------------------------------------------------------
(* The events one by one. *)

(* content_block_start: one block more is open; the direct conversion has none
   open then, and numbers its blocks in their order. *)
LEMMA StartExtends ==
  ASSUME NEW direct \in BOOLEAN, NEW open, NEW begun \in Nat, NEW i \in Nat,
         NEW of \in {"think", "text", "tool0", "tool1"}, direct => open = {} /\ i = begun
  PROVE  Extends(<<Event("start", i, of)>>, direct, open, begun, open \cup {<<i, of>>},
                 IF direct THEN begun + 1 ELSE begun)
<1> DEFINE e == Event("start", i, of)
<1>1. e \in StreamEvents /\ e.ev = "start" /\ e.index = i /\ e.of = of
  BY DEF Event, StreamEvents
<1>2. MayFollow(e, direct, open, begun) /\ OpenAfter(e, open) = open \cup {<<i, of>>}
  BY <1>1 DEF MayFollow, OpenAfter
<1> HIDE DEF e
<1>3. Extends(<<e>>, direct, open, begun, OpenAfter(e, open),
              IF direct /\ e.ev = "start" THEN begun + 1 ELSE begun)
  BY <1>1, <1>2, EventExtends
<1> QED BY <1>1, <1>2, <1>3 DEF e

(* content_block_delta for an open block. *)
LEMMA DeltaExtends ==
  ASSUME NEW direct \in BOOLEAN, NEW open, NEW begun \in Nat, NEW i \in Nat,
         NEW of \in {"think", "text", "tool0", "tool1"}, <<i, of>> \in open
  PROVE  Extends(<<Event("delta", i, of)>>, direct, open, begun, open, begun)
<1> DEFINE e == Event("delta", i, of)
<1>1. e \in StreamEvents /\ e.ev = "delta" /\ e.index = i /\ e.of = of
  BY DEF Event, StreamEvents
<1>2. MayFollow(e, direct, open, begun) /\ OpenAfter(e, open) = open
  BY <1>1 DEF MayFollow, OpenAfter
<1> HIDE DEF e
<1>3. Extends(<<e>>, direct, open, begun, OpenAfter(e, open),
              IF direct /\ e.ev = "start" THEN begun + 1 ELSE begun)
  BY <1>1, <1>2, EventExtends
<1> QED BY <1>1, <1>2, <1>3 DEF e

(* content_block_stop for an open block closes what has its index. *)
LEMMA StopExtends ==
  ASSUME NEW direct \in BOOLEAN, NEW open, NEW begun \in Nat, NEW i \in Nat,
         NEW of \in {"think", "text", "tool0", "tool1", "any"}, \E b \in open : b[1] = i
  PROVE  Extends(<<Event("stop", i, of)>>, direct, open, begun, {b \in open : b[1] # i}, begun)
<1> DEFINE e == Event("stop", i, of)
<1>1. e \in StreamEvents /\ e.ev = "stop" /\ e.index = i
  BY DEF Event, StreamEvents
<1>2. MayFollow(e, direct, open, begun) /\ OpenAfter(e, open) = {b \in open : b[1] # i}
  BY <1>1 DEF MayFollow, OpenAfter
<1> HIDE DEF e
<1>3. Extends(<<e>>, direct, open, begun, OpenAfter(e, open),
              IF direct /\ e.ev = "start" THEN begun + 1 ELSE begun)
  BY <1>1, <1>2, EventExtends
<1> QED BY <1>1, <1>2, <1>3 DEF e

(* message_start, where it is due. *)
LEMMA GreetingExtends ==
  ASSUME NEW direct \in BOOLEAN, NEW open, NEW begun \in Nat, NEW due \in BOOLEAN
  PROVE  Extends(If(due, Message("message_start")), direct, open, begun, open, begun)
<1> DEFINE e == Message("message_start")
<1>1. e \in StreamEvents /\ e.ev = "message_start"
  BY DEF Message, Event, StreamEvents
<1>2. MayFollow(e, direct, open, begun) /\ OpenAfter(e, open) = open
  BY <1>1 DEF MayFollow, OpenAfter
<1> HIDE DEF e
<1>3. Extends(<<e>>, direct, open, begun, OpenAfter(e, open),
              IF direct /\ e.ev = "start" THEN begun + 1 ELSE begun)
  BY <1>1, <1>2, EventExtends
<1>4. Extends(<<e>>, direct, open, begun, open, begun)
  BY <1>1, <1>2, <1>3
<1>5. Extends(If(due, e), direct, open, begun, open, begun)
  BY <1>4, NothingExtends DEF If
<1> QED BY <1>5 DEF e

-----------------------------------------------------------------------------
(* The direct conversion. *)

Conversions ==
  [started : BOOLEAN, thinking : BOOLEAN, text : BOOLEAN, tools : SUBSET (0..1),
   block : [0..1 -> Nat], index : Nat, closed : BOOLEAN, finished : BOOLEAN]

(* What the conversion's variables say came last. *)
StageOf(c) ==
  CASE 1 \in c.tools                  -> "tool1"
    [] c.tools = {0}                  -> "tool0"
    [] c.tools = {} /\ c.text         -> "text"
    [] c.tools = {} /\ ~c.text /\ c.thinking /\ c.index = 0 -> "think"
    [] c.tools = {} /\ ~c.text /\ c.thinking /\ c.index # 0 -> "sign"
    [] OTHER                          -> "start"

(* The block that is open, and how many were begun. *)
LeftOpen(c) ==
  IF StageOf(c) \in {"start", "sign"} THEN {} ELSE {<<c.index, StageOf(c)>>}
Begun(c) == IF StageOf(c) \in {"start", "sign"} THEN c.index ELSE c.index + 1

FitsDirect(c) == c \in Conversions /\ (StageOf(c) = "start" => c.index = 0)

(* The chunk x may come after stage s: Deltas, as the conversion meets it. *)
ToolRuns == {<< 0 >>, << 1 >>, <<0, 1>>}
Follows(s, x) ==
  /\ x.delta = "role" => s = "start"
  /\ x.delta = "think" => s \in {"start", "think"}
  /\ x.delta = "sign" => s = "think"
  /\ x.delta = "text" => s \in {"start", "sign", "text"}
  /\ x.delta = "tools" =>
       /\ x.tools \in ToolRuns /\ s # "think"
       /\ s \in {"start", "sign", "text"} => x.tools # << 1 >>
       /\ s = "tool0" => x.tools # <<0, 1>>
       /\ s = "tool1" => x.tools = << 1 >>
  /\ x.delta = "none" => x.finish

(* A tool call of the direct conversion, new or continued: the message is
   extended, and the conversion is at that call's stage. *)
LEMMA CallExtends ==
  ASSUME NEW c, FitsDirect(c), NEW t \in 0..1, StageOf(c) # "think",
         t \in c.tools => StageOf(c) = Tools[t + 1],
         t = 0 => 1 \notin c.tools
  PROVE  /\ FitsDirect(AfterCall(c, t)) /\ StageOf(AfterCall(c, t)) = Tools[t + 1]
         /\ AfterCall(c, t).started = c.started /\ AfterCall(c, t).tools = c.tools \cup {t}
         /\ Extends(Called(c, t), TRUE, LeftOpen(c), Begun(c),
                    LeftOpen(AfterCall(c, t)), Begun(AfterCall(c, t)))
<1> DEFINE d == AfterCall(c, t)
           i == d.index
           kind == Tools[t + 1]
<1>1. c \in Conversions /\ c.index \in Nat /\ c.tools \subseteq 0..1 /\ c.text \in BOOLEAN
  BY DEF FitsDirect, Conversions
<1>2. /\ d \in Conversions /\ d.tools = c.tools \cup {t} /\ d.started = c.started
      /\ d.index = IF Closes(c, t) THEN c.index + 1 ELSE c.index
  <2>1. c.tools \cup {t} \in SUBSET (0..1)
    BY <1>1
  <2>2. /\ d.tools = c.tools \cup {t} /\ d.started = c.started
        /\ d.index = IF Closes(c, t) THEN c.index + 1 ELSE c.index
    BY DEF AfterCall, FitsDirect, Conversions
  <2>3. d.index \in Nat
    BY <1>1, <2>2
  <2>4. d \in Conversions
    BY <2>1, <2>3 DEF AfterCall, FitsDirect, Conversions
  <2> QED BY <2>2, <2>4
<1>3. StageOf(d) = kind /\ kind \in {"tool0", "tool1"}
  <2>1. CASE t = 1
    <3>1. Tools[1 + 1] = "tool1"
      BY DEF Tools
    <3> QED BY <1>2, <2>1, <3>1 DEF StageOf
  <2>2. CASE t = 0
    <3>1. d.tools = {0} /\ 1 \notin d.tools
      BY <1>1, <1>2, <2>2
    <3>2. Tools[0 + 1] = "tool0"
      BY DEF Tools
    <3> QED BY <2>2, <3>1, <3>2 DEF StageOf
  <2> QED BY <2>1, <2>2
<1>4. LeftOpen(d) = {<<i, kind>>} /\ Begun(d) = i + 1 /\ i \in Nat
  BY <1>1, <1>2, <1>3 DEF LeftOpen, Begun
<1>5. Closes(c, t) => LeftOpen(c) = {<<c.index, StageOf(c)>>} /\ Begun(c) = c.index + 1
  <2>1. (c.text \/ c.tools # {}) /\ StageOf(c) # "think" => StageOf(c) \notin {"start", "sign"}
    BY <1>1 DEF StageOf
  <2> QED BY <2>1 DEF LeftOpen, Begun, Closes
<1>6. IsNew(c, t) /\ ~Closes(c, t) => LeftOpen(c) = {} /\ Begun(c) = c.index
  <2>1. ~c.text /\ c.tools = {} /\ StageOf(c) # "think" => StageOf(c) \in {"start", "sign"}
    BY <1>1 DEF StageOf
  <2> QED BY <2>1 DEF LeftOpen, Begun, Closes
<1>7. ~IsNew(c, t) => LeftOpen(c) = LeftOpen(d) /\ Begun(c) = Begun(d) /\ ~Closes(c, t)
  <2>1. ~IsNew(c, t) => StageOf(c) = kind /\ ~Closes(c, t)
    BY DEF IsNew, Closes
  <2> QED BY <1>2, <1>3, <2>1 DEF LeftOpen, Begun
<1>8. FitsDirect(d)
  BY <1>2, <1>3 DEF FitsDirect
<1>9. c.index \in Nat /\ Begun(c) \in Nat
  BY <1>1 DEF Begun
<1> HIDE DEF d, i, kind
<1>10. Extends(<<Event("delta", i, kind)>>, TRUE, {<<i, kind>>}, i + 1, {<<i, kind>>}, i + 1)
  <2>1. i + 1 \in Nat /\ <<i, kind>> \in {<<i, kind>>}
    BY <1>4
  <2> QED BY <1>3, <1>4, <2>1, DeltaExtends
<1>11. Extends(<<Event("start", i, kind)>>, TRUE, {}, i, {<<i, kind>>}, i + 1)
  <2>1. Extends(<<Event("start", i, kind)>>, TRUE, {}, i, {} \cup {<<i, kind>>}, IF TRUE THEN i + 1 ELSE i)
    BY <1>3, <1>4, StartExtends
  <2> QED BY <2>1
<1>12. ASSUME Closes(c, t)
       PROVE  Extends(<<Event("stop", c.index, "any")>>, TRUE, LeftOpen(c), Begun(c), {}, i)
  <2>1. \E b \in LeftOpen(c) : b[1] = c.index
    <3>1. <<c.index, StageOf(c)>>[1] = c.index /\ <<c.index, StageOf(c)>> \in LeftOpen(c)
      BY <1>5, <1>12
    <3> QED BY <3>1
  <2>2. {b \in LeftOpen(c) : b[1] # c.index} = {}
    BY <1>5, <1>12
  <2>3. i = Begun(c)
    BY <1>2, <1>5, <1>12 DEF i
  <2>4. Extends(<<Event("stop", c.index, "any")>>, TRUE, LeftOpen(c), Begun(c),
                {b \in LeftOpen(c) : b[1] # c.index}, Begun(c))
    BY <1>9, <2>1, StopExtends
  <2> QED BY <2>2, <2>3, <2>4
<1> DEFINE stops == If(Closes(c, t), Event("stop", c.index, "any"))
           starts == If(IsNew(c, t), Event("start", i, kind))
           deltas == <<Event("delta", i, kind)>>
<1>13. Called(c, t) = (stops \o starts) \o deltas
  BY DEF Called, i, d, kind
<1>14. Extends(deltas, TRUE, {<<i, kind>>}, i + 1, {<<i, kind>>}, i + 1)
  BY <1>10
<1> HIDE DEF stops, starts, deltas
<1>15. CASE IsNew(c, t)
  <2>1. Extends(stops, TRUE, LeftOpen(c), Begun(c), {}, i)
    <3>1. CASE Closes(c, t)
      BY <1>12, <3>1 DEF If, stops, starts
    <3>2. CASE ~Closes(c, t)
      <4>1. LeftOpen(c) = {} /\ Begun(c) = i
        BY <1>2, <1>6, <1>15, <3>2 DEF i
      <4>2. Extends(<<>>, TRUE, {}, i, {}, i)
        BY NothingExtends
      <4> QED BY <3>2, <4>1, <4>2 DEF If, stops, starts
    <3> QED BY <3>1, <3>2
  <2>2. Extends(starts, TRUE, {}, i, {<<i, kind>>}, i + 1)
    BY <1>11, <1>15 DEF If, stops, starts
  <2>3. Extends(stops \o starts, TRUE, LeftOpen(c), Begun(c), {<<i, kind>>}, i + 1)
    BY <2>1, <2>2, ExtendsTwice
  <2>4. Extends((stops \o starts) \o deltas, TRUE, LeftOpen(c), Begun(c), {<<i, kind>>}, i + 1)
    BY <1>14, <2>3, ExtendsTwice
  <2> QED BY <1>2, <1>3, <1>4, <1>8, <1>13, <2>4 DEF d, kind
<1>16. CASE ~IsNew(c, t)
  <2>1. LeftOpen(c) = {<<i, kind>>} /\ Begun(c) = i + 1
    BY <1>4, <1>7, <1>16 DEF i, d, kind
  <2>2. Extends(stops, TRUE, LeftOpen(c), Begun(c), LeftOpen(c), Begun(c))
    BY <1>7, <1>16, NothingExtends DEF If, stops
  <2>3. Extends(starts, TRUE, LeftOpen(c), Begun(c), {<<i, kind>>}, i + 1)
    <3>1. Extends(starts, TRUE, LeftOpen(c), Begun(c), LeftOpen(c), Begun(c))
      BY <1>16, NothingExtends DEF If, starts
    <3> QED BY <2>1, <3>1
  <2>4. Extends(stops \o starts, TRUE, LeftOpen(c), Begun(c), {<<i, kind>>}, i + 1)
    BY <2>2, <2>3, ExtendsTwice
  <2>5. Extends((stops \o starts) \o deltas, TRUE, LeftOpen(c), Begun(c), {<<i, kind>>}, i + 1)
    BY <1>14, <2>4, ExtendsTwice
  <2> QED BY <1>2, <1>3, <1>4, <1>8, <1>13, <2>5 DEF d, kind
<1> QED BY <1>15, <1>16

AfterCalls(c, tools) == AfterTools(AfterCall, c, tools)
CallEvents(c, tools) == EventsOfTools(AfterCall, Called, c, tools)

(* The tool calls of a chunk, one after the other. *)
LEMMA CallsExtend ==
  ASSUME NEW c, FitsDirect(c), NEW tools \in ToolRuns, StageOf(c) # "think",
         StageOf(c) \in {"start", "sign", "text"} => tools # << 1 >>,
         StageOf(c) = "tool0" => tools # <<0, 1>>,
         StageOf(c) = "tool1" => tools = << 1 >>
  PROVE  LET d == AfterCalls(c, tools)
         IN /\ FitsDirect(d) /\ d.started = c.started
            /\ StageOf(d) = Tools[tools[Len(tools)] + 1]
            /\ Extends(CallEvents(c, tools), TRUE,
                       LeftOpen(c), Begun(c), LeftOpen(d), Begun(d))
<1>1. /\ c.tools \in SUBSET (0..1)
      /\ StageOf(c) \in {"start", "sign", "text"} => c.tools = {}
      /\ StageOf(c) = "tool0" => c.tools = {0}
      /\ StageOf(c) = "tool1" => 1 \in c.tools
      /\ StageOf(c) \in {"start", "sign", "text", "tool0", "tool1"}
  <2>1. c.tools \in {{}, {0}, {1}, {0, 1}}
    BY DEF FitsDirect, Conversions
  <2> QED BY <2>1 DEF StageOf
<1>2. Tools[0 + 1] = "tool0" /\ Tools[1 + 1] = "tool1"
  BY DEF Tools
<1>3. CASE tools = << 0 >> \/ tools = << 1 >>
  <2> DEFINE t == tools[1]
  <2>1. Len(tools) = 1 /\ t \in 0..1 /\ (t = 0 <=> tools = << 0 >>) /\ (t = 1 <=> tools = << 1 >>)
    BY <1>3
  <2>2. (t \in c.tools => StageOf(c) = Tools[t + 1]) /\ (t = 0 => 1 \notin c.tools)
    <3>1. CASE t = 0
      BY <1>1, <1>2, <2>1, <3>1
    <3>2. CASE t = 1
      BY <1>1, <1>2, <2>1, <3>2
    <3> QED BY <2>1, <3>1, <3>2
  <2>3. tools[Len(tools)] = t
    BY <2>1
  <2>4. /\ FitsDirect(AfterCall(c, t)) /\ StageOf(AfterCall(c, t)) = Tools[t + 1]
        /\ AfterCall(c, t).started = c.started
        /\ Extends(Called(c, t), TRUE, LeftOpen(c), Begun(c),
                   LeftOpen(AfterCall(c, t)), Begun(AfterCall(c, t)))
    <3> HIDE DEF t
    <3> QED BY <2>1, <2>2, CallExtends, Zenon
  <2>5. AfterCalls(c, tools) = AfterCall(c, t) /\ CallEvents(c, tools) = Called(c, t)
    BY <2>1 DEF AfterCalls, CallEvents, AfterTools, EventsOfTools
  <2> HIDE DEF t
  <2> QED BY <2>3, <2>4, <2>5
<1>4. CASE tools = <<0, 1>>
  <2> DEFINE d == AfterCall(c, 0)
             e == AfterCall(d, 1)
  <2>1. Len(tools) = 2 /\ tools[1] = 0 /\ tools[2] = 1 /\ tools # << 0 >> /\ tools # << 1 >>
    BY <1>4
  <2>2. StageOf(c) \in {"start", "sign", "text"} /\ c.tools = {}
    BY <1>1, <1>4, <2>1
  <2>3. /\ FitsDirect(d) /\ StageOf(d) = "tool0" /\ d.started = c.started /\ d.tools = {0}
        /\ Extends(Called(c, 0), TRUE, LeftOpen(c), Begun(c), LeftOpen(d), Begun(d))
    <3>1. /\ FitsDirect(d) /\ StageOf(d) = Tools[0 + 1] /\ d.started = c.started
          /\ d.tools = c.tools \cup {0}
          /\ Extends(Called(c, 0), TRUE, LeftOpen(c), Begun(c), LeftOpen(d), Begun(d))
      <4>1. 0 \in 0..1 /\ 0 \notin c.tools /\ 1 \notin c.tools
        BY <2>2
      <4>2. (0 \in c.tools => StageOf(c) = Tools[0 + 1]) /\ (0 = 0 => 1 \notin c.tools)
        BY <4>1
      <4> QED BY <4>1, <4>2, CallExtends, Zenon
    <3> HIDE DEF d
    <3> QED BY <1>2, <2>2, <3>1
  <2>4. /\ FitsDirect(e) /\ StageOf(e) = "tool1" /\ e.started = d.started
        /\ Extends(Called(d, 1), TRUE, LeftOpen(d), Begun(d), LeftOpen(e), Begun(e))
    <3> HIDE DEF d
    <3>1. 1 \in 0..1 /\ StageOf(d) # "think"
          /\ (1 \in d.tools => StageOf(d) = Tools[1 + 1]) /\ (1 = 0 => 1 \notin d.tools)
      BY <2>3
    <3>2. /\ FitsDirect(e) /\ StageOf(e) = Tools[1 + 1] /\ e.started = d.started
          /\ Extends(Called(d, 1), TRUE, LeftOpen(d), Begun(d), LeftOpen(e), Begun(e))
      BY <2>3, <3>1, CallExtends, Zenon
    <3> QED BY <1>2, <3>2
  <2>5. Tools[tools[Len(tools)] + 1] = "tool1"
    BY <1>2, <2>1
  <2>6. Extends(Called(c, 0) \o Called(d, 1), TRUE, LeftOpen(c), Begun(c), LeftOpen(e), Begun(e))
    <3> HIDE DEF d, e
    <3> QED BY <2>3, <2>4, ExtendsTwice
  <2>7. AfterCalls(c, tools) = e /\ CallEvents(c, tools) = Called(c, 0) \o Called(d, 1)
    BY <2>1 DEF AfterCalls, CallEvents, AfterTools, EventsOfTools
  <2> HIDE DEF d, e
  <2> QED BY <2>3, <2>4, <2>5, <2>6, <2>7
<1> QED BY <1>3, <1>4 DEF ToolRuns

(* A chunk. *)
LEMMA ChunkExtends ==
  ASSUME NEW c, FitsDirect(c), NEW x, Follows(StageOf(c), x),
         x.delta \in {"none", "role", "think", "sign", "text", "tools"}
  PROVE  LET d == AfterDelta(c, x)
         IN /\ FitsDirect(d)
            /\ StageOf(d) = CASE x.delta = "tools" -> Tools[x.tools[Len(x.tools)] + 1]
                              [] x.delta \in {"none", "role"} -> StageOf(c)
                              [] OTHER -> x.delta
            /\ Extends(Converted(c, x), TRUE, LeftOpen(c), Begun(c), LeftOpen(d), Begun(d))
<1> DEFINE d == AfterDelta(c, x)
           run == CASE x.delta \in {"think", "sign"} -> Thought(c, x.delta = "sign")
                       [] x.delta = "text"              -> Said(c)
                       [] x.delta = "tools"             -> CallEvents(c, x.tools)
                       [] OTHER                         -> <<>>
           due == If(~c.started, Message("message_start"))
           i == c.index
<1>1. /\ c \in Conversions /\ c.started \in BOOLEAN /\ c.thinking \in BOOLEAN /\ c.text \in BOOLEAN
      /\ c.tools \in SUBSET (0..1) /\ i \in Nat /\ Begun(c) \in Nat
  BY DEF FitsDirect, Conversions, Begun
<1>2. Converted(c, x) = due \o run
  BY DEF Converted, CallEvents
<1>3. Extends(due, TRUE, LeftOpen(c), Begun(c), LeftOpen(c), Begun(c))
  BY <1>1, GreetingExtends
<1> DEFINE Fits ==
             /\ FitsDirect(d)
             /\ StageOf(d) = CASE x.delta = "tools" -> Tools[x.tools[Len(x.tools)] + 1]
                               [] x.delta \in {"none", "role"} -> StageOf(c)
                               [] OTHER -> x.delta
           Extended == Extends(run, TRUE, LeftOpen(c), Begun(c), LeftOpen(d), Begun(d))
<1>4. ASSUME x.delta \in {"none", "role"} PROVE Fits /\ Extended
  <2>1. d = c /\ run = <<>>
    BY <1>4 DEF AfterDelta
  <2> QED BY <1>4, <2>1, NothingExtends
<1>5. ASSUME x.delta = "tools" PROVE Fits /\ Extended
  <2>1. d = AfterCalls(c, x.tools) /\ run = CallEvents(c, x.tools)
    BY <1>5 DEF AfterDelta, AfterCalls
  <2>2. /\ x.tools \in ToolRuns /\ StageOf(c) # "think"
        /\ StageOf(c) \in {"start", "sign", "text"} => x.tools # << 1 >>
        /\ StageOf(c) = "tool0" => x.tools # <<0, 1>>
        /\ StageOf(c) = "tool1" => x.tools = << 1 >>
    BY <1>5 DEF Follows
  <2> HIDE DEF d, run
  <2> QED BY <1>5, <2>1, <2>2, CallsExtend
<1>6. ASSUME x.delta = "text" PROVE Fits /\ Extended
  <2>1. d = [c EXCEPT !.text = TRUE] /\ run = Said(c)
    BY <1>6 DEF AfterDelta
  <2>2. /\ d \in Conversions /\ d.text = TRUE /\ d.tools = c.tools /\ d.index = i
    BY <1>1, <2>1 DEF Conversions
  <2>3. StageOf(c) \in {"start", "sign", "text"} /\ c.tools = {}
    <3>1. c.tools \in {{}, {0}, {1}, {0, 1}}
      BY <1>1
    <3> QED BY <1>6, <3>1 DEF Follows, StageOf
  <2>4. StageOf(d) = "text"
    BY <2>2, <2>3 DEF StageOf
  <2>5. FitsDirect(d) /\ LeftOpen(d) = {<<i, "text">>} /\ Begun(d) = i + 1
    BY <2>2, <2>4 DEF FitsDirect, LeftOpen, Begun
  <2>6. StageOf(c) = "text" <=> c.text
    BY <1>1, <2>3 DEF StageOf
  <2>7. Extends(<<Event("delta", i, "text")>>, TRUE, {<<i, "text">>}, i + 1, {<<i, "text">>}, i + 1)
    <3>1. i + 1 \in Nat /\ <<i, "text">> \in {<<i, "text">>}
      BY <1>1
    <3> QED BY <1>1, <3>1, DeltaExtends
  <2>8. Extends(If(~c.text, Event("start", i, "text")), TRUE, LeftOpen(c), Begun(c), {<<i, "text">>}, i + 1)
    <3>1. CASE c.text
      <4>1. LeftOpen(c) = {<<i, "text">>} /\ Begun(c) = i + 1
        BY <2>6, <3>1 DEF LeftOpen, Begun
      <4> QED BY <3>1, <4>1, NothingExtends DEF If
    <3>2. CASE ~c.text
      <4>1. LeftOpen(c) = {} /\ Begun(c) = i
        BY <2>3, <2>6, <3>2 DEF LeftOpen, Begun
      <4>2. Extends(<<Event("start", i, "text")>>, TRUE, {}, i, {} \cup {<<i, "text">>}, IF TRUE THEN i + 1 ELSE i)
        BY <1>1, StartExtends
      <4>3. Extends(<<Event("start", i, "text")>>, TRUE, {}, i, {<<i, "text">>}, i + 1)
        BY <4>2
      <4> QED BY <3>2, <4>1, <4>3 DEF If
    <3> QED BY <3>1, <3>2
  <2>9. Extends(Said(c), TRUE, LeftOpen(c), Begun(c), {<<i, "text">>}, i + 1)
    BY <2>7, <2>8, ExtendsTwice DEF Said
  <2> HIDE DEF d, run
  <2> QED BY <1>6, <2>1, <2>4, <2>5, <2>9
<1>7. ASSUME x.delta \in {"think", "sign"} PROVE Fits /\ Extended
  <2> DEFINE signed == x.delta = "sign"
             starts == If(~c.thinking, Event("start", i, "think"))
             deltas == <<Event("delta", i, "think")>>
             stops == If(signed, Event("stop", i, "think"))
  <2>1. d = [c EXCEPT !.thinking = TRUE, !.index = IF signed THEN @ + 1 ELSE @] /\ run = Thought(c, signed)
    BY <1>7 DEF AfterDelta, FitsDirect, Conversions
  <2>2. /\ d \in Conversions /\ d.thinking = TRUE /\ d.text = c.text /\ d.tools = c.tools
        /\ d.index = IF signed THEN i + 1 ELSE i
    <3>1. CASE signed
      <4>1. d = [c EXCEPT !.thinking = TRUE, !.index = i + 1] /\ i + 1 \in Nat
        BY <1>1, <2>1, <3>1
      <4> HIDE DEF d, signed
      <4> QED BY <1>1, <3>1, <4>1 DEF Conversions
    <3>2. CASE ~signed
      BY <1>1, <2>1, <3>2 DEF Conversions
    <3> QED BY <3>1, <3>2
  <2>3. StageOf(c) \in {"start", "think"} /\ c.tools = {} /\ ~c.text
    <3>1. c.tools \in {{}, {0}, {1}, {0, 1}}
      BY <1>1
    <3> QED BY <1>1, <1>7, <3>1 DEF Follows, StageOf
  <2>4. i = 0 /\ (c.thinking <=> StageOf(c) = "think")
    BY <1>1, <2>3 DEF StageOf, FitsDirect
  <2>5. StageOf(d) = x.delta
    BY <1>7, <2>2, <2>3, <2>4 DEF StageOf
  <2>6. /\ FitsDirect(d)
        /\ signed => LeftOpen(d) = {} /\ Begun(d) = i + 1
        /\ ~signed => LeftOpen(d) = {<<i, "think">>} /\ Begun(d) = i + 1
    BY <1>7, <2>2, <2>5 DEF FitsDirect, LeftOpen, Begun
  <2>7. Extends(starts, TRUE, LeftOpen(c), Begun(c), {<<i, "think">>}, i + 1)
    <3>1. CASE c.thinking
      <4>1. LeftOpen(c) = {<<i, "think">>} /\ Begun(c) = i + 1
        BY <2>4, <3>1 DEF LeftOpen, Begun
      <4> QED BY <3>1, <4>1, NothingExtends DEF If
    <3>2. CASE ~c.thinking
      <4>1. LeftOpen(c) = {} /\ Begun(c) = i
        BY <2>3, <2>4, <3>2 DEF LeftOpen, Begun
      <4>2. Extends(<<Event("start", i, "think")>>, TRUE, {}, i, {} \cup {<<i, "think">>}, IF TRUE THEN i + 1 ELSE i)
        BY <1>1, StartExtends
      <4>3. Extends(<<Event("start", i, "think")>>, TRUE, {}, i, {<<i, "think">>}, i + 1)
        BY <4>2
      <4> QED BY <3>2, <4>1, <4>3 DEF If
    <3> QED BY <1>1, <3>1, <3>2
  <2>8. Extends(deltas, TRUE, {<<i, "think">>}, i + 1, {<<i, "think">>}, i + 1)
    <3>1. i + 1 \in Nat /\ <<i, "think">> \in {<<i, "think">>}
      BY <1>1
    <3> QED BY <1>1, <3>1, DeltaExtends
  <2>9. Extends(stops, TRUE, {<<i, "think">>}, i + 1, LeftOpen(d), Begun(d))
    <3>1. CASE signed
      <4>1. i + 1 \in Nat /\ \E b \in {<<i, "think">>} : b[1] = i
        BY <1>1
      <4>2. {b \in {<<i, "think">>} : b[1] # i} = {}
        OBVIOUS
      <4>3. Extends(<<Event("stop", i, "think")>>, TRUE, {<<i, "think">>}, i + 1,
                    {b \in {<<i, "think">>} : b[1] # i}, i + 1)
        BY <1>1, <4>1, StopExtends
      <4> QED BY <2>6, <3>1, <4>2, <4>3 DEF If
    <3>2. CASE ~signed
      <4>1. LeftOpen(d) = {<<i, "think">>} /\ Begun(d) = i + 1
        BY <2>6, <3>2
      <4> HIDE DEF d
      <4> QED BY <3>2, <4>1, NothingExtends DEF If
    <3> QED BY <3>1, <3>2
  <2>10. Thought(c, signed) = (starts \o deltas) \o stops
    BY DEF Thought
  <2> HIDE DEF d, run, starts, deltas, stops
  <2>11. Extends(starts \o deltas, TRUE, LeftOpen(c), Begun(c), {<<i, "think">>}, i + 1)
    BY <2>7, <2>8, ExtendsTwice
  <2>12. Extends((starts \o deltas) \o stops, TRUE, LeftOpen(c), Begun(c), LeftOpen(d), Begun(d))
    BY <2>9, <2>11, ExtendsTwice
  <2> QED BY <1>7, <2>1, <2>5, <2>6, <2>10, <2>12
<1>8. Fits /\ Extended
  BY <1>4, <1>5, <1>6, <1>7
<1>9. Extends(due \o run, TRUE, LeftOpen(c), Begun(c), LeftOpen(d), Begun(d))
  <2> HIDE DEF due, run, d
  <2> QED BY <1>3, <1>8, ExtendsTwice
<1> QED BY <1>2, <1>8, <1>9

(* The end of the message. *)
LEMMA EndCompletes ==
  ASSUME NEW c, FitsDirect(c)
  PROVE  Completes(Ended(c), TRUE, LeftOpen(c), Begun(c))
<1> DEFINE stops == If(c.text \/ c.tools # {}, Event("stop", c.index, "any"))
           ends == <<Message("message_delta"), Message("message_stop")>>
<1>1. c.index \in Nat /\ Begun(c) \in Nat /\ c.tools \in {{}, {0}, {1}, {0, 1}} /\ c.text \in BOOLEAN
  BY DEF FitsDirect, Conversions, Begun
<1>2. CASE c.text \/ c.tools # {}
  <2>1. StageOf(c) \notin {"start", "sign"}
    BY <1>1, <1>2 DEF StageOf
  <2>2. LeftOpen(c) = {<<c.index, StageOf(c)>>}
    BY <2>1 DEF LeftOpen
  <2>3. \E b \in LeftOpen(c) : b[1] = c.index
    <3>1. <<c.index, StageOf(c)>>[1] = c.index
      OBVIOUS
    <3> QED BY <2>2, <3>1
  <2>4. {b \in LeftOpen(c) : b[1] # c.index} = {}
    BY <2>2
  <2>5. Extends(<<Event("stop", c.index, "any")>>, TRUE, LeftOpen(c), Begun(c),
                {b \in LeftOpen(c) : b[1] # c.index}, Begun(c))
    BY <1>1, <2>3, StopExtends
  <2>6. Extends(stops, TRUE, LeftOpen(c), Begun(c), {}, Begun(c))
    BY <1>2, <2>4, <2>5 DEF If
  <2>7. Completes(ends, TRUE, {}, Begun(c))
    BY <1>1, MessageCompletes
  <2>8. Ended(c) = stops \o ends
    BY DEF Ended
  <2> HIDE DEF stops, ends
  <2> QED BY <2>6, <2>7, <2>8, ExtendsAndCompletes
<1>3. CASE ~(c.text \/ c.tools # {})
  <2>1. StageOf(c) \in {"start", "think", "sign"}
    BY <1>1, <1>3 DEF StageOf
  <2>2. \A b \in LeftOpen(c) : b[2] = "think"
    BY <2>1 DEF LeftOpen
  <2>3. Extends(stops, TRUE, LeftOpen(c), Begun(c), LeftOpen(c), Begun(c))
    BY <1>3, NothingExtends DEF If
  <2>4. Completes(ends, TRUE, LeftOpen(c), Begun(c))
    BY <1>1, <2>2, MessageCompletes
  <2>5. Ended(c) = stops \o ends
    BY DEF Ended
  <2> HIDE DEF stops, ends
  <2> QED BY <2>3, <2>4, <2>5, ExtendsAndCompletes
<1> QED BY <1>2, <1>3

-----------------------------------------------------------------------------
(* The piped conversion. *)

(* The blocks it has open: a text, or the tool calls, which stay open. *)
PipedOpen(c) ==
  (IF c.text THEN {<<c.index, "text">>} ELSE {}) \cup {<<c.block[t], Tools[t + 1]>> : t \in c.tools}

FitsPiped(c) ==
  /\ c \in Conversions
  /\ c.text => c.tools = {}
  /\ \A t \in c.tools : c.block[t] < Cardinality(c.tools)
  /\ c.tools = {0, 1} => c.block[0] # c.block[1]

(* How many tool calls a set of them is. *)
LEMMA HowManyTools ==
  /\ Cardinality({}) = 0 /\ Cardinality({0}) = 1 /\ Cardinality({1}) = 1
  /\ Cardinality({0, 1}) = 2
<1>1. 0 \notin {1} /\ {1} \cup {0} = {0, 1}
  OBVIOUS
<1>2. IsFiniteSet({1}) /\ Cardinality({1}) = 1 /\ Cardinality({0}) = 1
  BY FS_Singleton
<1>3. Cardinality({1} \cup {0}) = Cardinality({1}) + 1
  BY <1>1, <1>2, FS_AddElement
<1> QED BY <1>1, <1>2, <1>3, FS_EmptySet

(* Behind a new tool call. *)
LEMMA PipedCallFits ==
  ASSUME NEW c, FitsPiped(c), NEW t \in 0..1
  PROVE  LET d == PipedAfterCall(c, t)
         IN /\ FitsPiped(d) /\ d.tools = c.tools \cup {t} /\ d.block[t] \in Nat
            /\ IsNew(c, t) =>
                 PipedOpen(d) = {<<c.block[u], Tools[u + 1]>> : u \in c.tools} \cup {<<d.block[t], Tools[t + 1]>>}
            /\ ~IsNew(c, t) => d = c
<1> DEFINE d == PipedAfterCall(c, t)
           n == Cardinality(c.tools)
<1>1. /\ c \in Conversions /\ c.block \in [0..1 -> Nat] /\ c.tools \in {{}, {0}, {1}, {0, 1}}
      /\ c.text \in BOOLEAN /\ c.index \in Nat
  BY DEF FitsPiped, Conversions
<1>2. CASE ~IsNew(c, t)
  <2>1. d = c /\ t \in c.tools
    BY <1>2 DEF PipedAfterCall, IsNew
  <2>2. c.tools \cup {t} = c.tools
    BY <2>1
  <2> QED BY <1>1, <1>2, <2>1, <2>2
<1>3. CASE IsNew(c, t)
  <2>1. t \notin c.tools /\ d = [c EXCEPT !.text = FALSE, !.tools = @ \cup {t}, !.block[t] = n, !.index = n]
    BY <1>3 DEF PipedAfterCall, IsNew
  <2>2. /\ c.tools = {} => n = 0
        /\ c.tools = {0} => n = 1
        /\ c.tools = {1} => n = 1
        /\ c.tools # {0, 1} /\ n \in Nat
    <3>1. c.tools # {0, 1}
      BY <2>1
    <3> QED BY <1>1, <3>1, HowManyTools
  <2>3. /\ d.text = FALSE /\ d.tools = c.tools \cup {t} /\ d.index = n
        /\ d.block = [c.block EXCEPT ![t] = n]
    <3> HIDE DEF d, n
    <3> QED BY <1>1, <2>1 DEF Conversions
  <2>4. /\ d.block \in [0..1 -> Nat] /\ d.block[t] = n
        /\ \A u \in 0..1 : u # t => d.block[u] = c.block[u]
    <3> HIDE DEF d, n
    <3> QED BY <1>1, <2>2, <2>3
  <2>5. d \in Conversions
    <3>1. d.tools \in SUBSET (0..1)
      BY <1>1, <2>3
    <3>2. d = [c EXCEPT !.text = FALSE, !.tools = d.tools, !.block = d.block, !.index = n]
      <4> HIDE DEF n
      <4> QED BY <1>1, <2>1 DEF Conversions
    <3> HIDE DEF d, n
    <3> QED BY <1>1, <2>2, <2>4, <3>1, <3>2 DEF Conversions
  <2> HIDE DEF d, n
  <2>6. \A u \in c.tools : c.block[u] = 0
    <3>1. CASE c.tools = {}
      BY <3>1
    <3>2. CASE c.tools = {0} \/ c.tools = {1}
      <4>1. Cardinality(c.tools) = 1
        BY <3>2, HowManyTools
      <4>2. \A u \in c.tools : c.block[u] < 1 /\ c.block[u] \in Nat
        BY <1>1, <4>1 DEF FitsPiped
      <4> QED BY <4>2
    <3> QED BY <1>1, <2>2, <3>1, <3>2
  <2>7. /\ \A u \in d.tools : d.block[u] < Cardinality(d.tools)
        /\ d.tools = {0, 1} => d.block[0] # d.block[1]
    <3>1. CASE c.tools = {}
      <4>1. d.tools = {t} /\ n = 0
        BY <2>2, <2>3, <3>1
      <4>2. Cardinality(d.tools) = 1 /\ d.tools # {0, 1}
        BY <4>1, FS_Singleton
      <4> QED BY <2>4, <4>1, <4>2
    <3>2. CASE c.tools = {0} \/ c.tools = {1}
      <4>1. n = 1 /\ d.tools = {0, 1}
        BY <2>1, <2>2, <2>3, <3>2
      <4>2. Cardinality(d.tools) = 2
        BY <4>1, HowManyTools
      <4>3. \A u \in 0..1 : u # t => d.block[u] = 0
        BY <2>1, <2>4, <2>6, <3>2
      <4> QED BY <2>4, <4>1, <4>2, <4>3
    <3> QED BY <1>1, <2>2, <3>1, <3>2
  <2>8. FitsPiped(d)
    BY <2>3, <2>5, <2>7 DEF FitsPiped
  <2>9. PipedOpen(d) = {<<c.block[u], Tools[u + 1]>> : u \in c.tools} \cup {<<d.block[t], Tools[t + 1]>>}
    <3>1. PipedOpen(d) = {<<d.block[u], Tools[u + 1]>> : u \in c.tools \cup {t}}
      BY <2>3 DEF PipedOpen
    <3>2. \A u \in c.tools : d.block[u] = c.block[u]
      BY <1>1, <2>1, <2>4
    <3>3. {<<d.block[u], Tools[u + 1]>> : u \in c.tools} = {<<c.block[u], Tools[u + 1]>> : u \in c.tools}
      BY <3>2
    <3>4. {<<d.block[u], Tools[u + 1]>> : u \in c.tools \cup {t}}
          = {<<d.block[u], Tools[u + 1]>> : u \in c.tools} \cup {<<d.block[t], Tools[t + 1]>>}
      OBVIOUS
    <3> QED BY <3>1, <3>3, <3>4
  <2> QED BY <1>3, <2>2, <2>3, <2>4, <2>8, <2>9 DEF d
<1> QED BY <1>2, <1>3

(* A tool call of the piped conversion, new or continued. *)
LEMMA PipedCallExtends ==
  ASSUME NEW c, FitsPiped(c), NEW t \in 0..1
  PROVE  Extends(PipedCalled(c, t), FALSE, PipedOpen(c), 0, PipedOpen(PipedAfterCall(c, t)), 0)
<1> DEFINE d == PipedAfterCall(c, t)
           i == d.block[t]
           kind == Tools[t + 1]
           tools == {<<c.block[u], Tools[u + 1]>> : u \in c.tools}
           stops == If(IsNew(c, t) /\ c.text, Event("stop", c.index, "text"))
           starts == If(IsNew(c, t), Event("start", i, kind))
           deltas == <<Event("delta", i, kind)>>
<1>1. /\ FitsPiped(d) /\ d.tools = c.tools \cup {t} /\ i \in Nat
      /\ IsNew(c, t) => PipedOpen(d) = tools \cup {<<i, kind>>}
      /\ ~IsNew(c, t) => d = c
  BY PipedCallFits
<1>2. kind \in {"tool0", "tool1"}
  BY DEF Tools
<1>3. PipedCalled(c, t) = (stops \o starts) \o deltas
  BY DEF PipedCalled
<1>4. c.index \in Nat /\ c.text \in BOOLEAN /\ (c.text => c.tools = {})
  BY DEF FitsPiped, Conversions
<1>5. <<i, kind>> \in PipedOpen(d)
  <2>1. <<d.block[t], Tools[t + 1]>> \in {<<d.block[u], Tools[u + 1]>> : u \in d.tools}
    BY <1>1
  <2> QED BY <2>1 DEF PipedOpen
<1> HIDE DEF i, kind
<1>6. Extends(deltas, FALSE, PipedOpen(d), 0, PipedOpen(d), 0)
  <2> HIDE DEF d
  <2> QED BY <1>1, <1>2, <1>5, DeltaExtends
<1>7. Extends(stops, FALSE, PipedOpen(c), 0, IF IsNew(c, t) THEN tools ELSE PipedOpen(c), 0)
  <2>1. CASE IsNew(c, t) /\ c.text
    <3>1. PipedOpen(c) = {<<c.index, "text">>} /\ tools = {}
      BY <1>4, <2>1 DEF PipedOpen
    <3>2. \E b \in PipedOpen(c) : b[1] = c.index
      <4>1. <<c.index, "text">>[1] = c.index
        OBVIOUS
      <4> QED BY <3>1, <4>1
    <3>3. {b \in PipedOpen(c) : b[1] # c.index} = {}
      BY <3>1
    <3>4. Extends(<<Event("stop", c.index, "text")>>, FALSE, PipedOpen(c), 0, {b \in PipedOpen(c) : b[1] # c.index}, 0)
      BY <1>4, <3>2, StopExtends
    <3> HIDE DEF tools
    <3> QED BY <2>1, <3>1, <3>3, <3>4 DEF If
  <2>2. CASE IsNew(c, t) /\ ~c.text
    <3>1. PipedOpen(c) = tools
      BY <2>2 DEF PipedOpen
    <3> HIDE DEF tools
    <3> QED BY <2>2, <3>1, NothingExtends DEF If
  <2>3. CASE ~IsNew(c, t)
    <3> HIDE DEF tools
    <3> QED BY <2>3, NothingExtends DEF If
  <2> QED BY <1>4, <2>1, <2>2, <2>3
<1>8. Extends(starts, FALSE, IF IsNew(c, t) THEN tools ELSE PipedOpen(c), 0, PipedOpen(d), 0)
  <2> HIDE DEF tools, d
  <2>1. CASE IsNew(c, t)
    <3>1. Extends(<<Event("start", i, kind)>>, FALSE, tools, 0, tools \cup {<<i, kind>>}, IF FALSE THEN 0 + 1 ELSE 0)
      BY <1>1, <1>2, StartExtends
    <3>2. starts = <<Event("start", i, kind)>>
      BY <2>1 DEF If
    <3> QED BY <1>1, <2>1, <3>1, <3>2
  <2>2. CASE ~IsNew(c, t)
    <3>1. starts = <<>>
      BY <2>2 DEF If
    <3> QED BY <1>1, <2>2, <3>1, NothingExtends
  <2> QED BY <2>1, <2>2
<1> HIDE DEF d, tools, stops, starts, deltas
<1>9. Extends(stops \o starts, FALSE, PipedOpen(c), 0, PipedOpen(d), 0)
  BY <1>7, <1>8, ExtendsTwice
<1>10. Extends((stops \o starts) \o deltas, FALSE, PipedOpen(c), 0, PipedOpen(d), 0)
  BY <1>6, <1>9, ExtendsTwice
<1> QED BY <1>3, <1>10 DEF d

PipedAfterCalls(c, tools) == AfterTools(PipedAfterCall, c, tools)
PipedCallEvents(c, tools) == EventsOfTools(PipedAfterCall, PipedCalled, c, tools)

(* The tool calls of a chunk, in the piped conversion. *)
LEMMA PipedCallsExtend ==
  ASSUME NEW c, FitsPiped(c), NEW tools \in ToolRuns
  PROVE  LET d == PipedAfterCalls(c, tools)
         IN /\ FitsPiped(d) /\ d.tools # {}
            /\ Extends(PipedCallEvents(c, tools), FALSE, PipedOpen(c), 0, PipedOpen(d), 0)
<1>1. CASE tools = << 0 >> \/ tools = << 1 >>
  <2> DEFINE t == tools[1]
             d == PipedAfterCall(c, t)
  <2>1. Len(tools) = 1 /\ t \in 0..1
    BY <1>1
  <2>2. PipedAfterCalls(c, tools) = d /\ PipedCallEvents(c, tools) = PipedCalled(c, t)
    BY <2>1 DEF PipedAfterCalls, PipedCallEvents, AfterTools, EventsOfTools
  <2>3. FitsPiped(d) /\ d.tools = c.tools \cup {t}
    <3> HIDE DEF t
    <3> QED BY <2>1, PipedCallFits
  <2>4. Extends(PipedCalled(c, t), FALSE, PipedOpen(c), 0, PipedOpen(d), 0)
    <3> HIDE DEF t
    <3> QED BY <2>1, PipedCallExtends
  <2> HIDE DEF d, t
  <2> QED BY <2>2, <2>3, <2>4
<1>2. CASE tools = <<0, 1>>
  <2> DEFINE d == PipedAfterCall(c, 0)
             e == PipedAfterCall(d, 1)
  <2>1. Len(tools) = 2 /\ tools[1] = 0 /\ tools[2] = 1 /\ 0 \in 0..1 /\ 1 \in 0..1
    BY <1>2
  <2>2. PipedAfterCalls(c, tools) = e /\ PipedCallEvents(c, tools) = PipedCalled(c, 0) \o PipedCalled(d, 1)
    BY <2>1 DEF PipedAfterCalls, PipedCallEvents, AfterTools, EventsOfTools
  <2>3. FitsPiped(d) /\ Extends(PipedCalled(c, 0), FALSE, PipedOpen(c), 0, PipedOpen(d), 0)
    BY <2>1, PipedCallFits, PipedCallExtends
  <2>4. /\ FitsPiped(e) /\ e.tools = d.tools \cup {1}
        /\ Extends(PipedCalled(d, 1), FALSE, PipedOpen(d), 0, PipedOpen(e), 0)
    <3> HIDE DEF d
    <3> QED BY <2>1, <2>3, PipedCallFits, PipedCallExtends
  <2> HIDE DEF d, e
  <2>5. Extends(PipedCalled(c, 0) \o PipedCalled(d, 1), FALSE, PipedOpen(c), 0, PipedOpen(e), 0)
    BY <2>3, <2>4, ExtendsTwice
  <2> QED BY <2>2, <2>4, <2>5
<1> QED BY <1>1, <1>2 DEF ToolRuns

(* A chunk of the piped conversion: text only comes before any tool call. *)
LEMMA PipedChunkExtends ==
  ASSUME NEW c, FitsPiped(c), NEW x,
         x.delta = "tools" => x.tools \in ToolRuns, x.delta = "text" => c.tools = {}
  PROVE  LET d == PipedAfterDelta(c, x)
         IN /\ FitsPiped(d) /\ (d.tools # {} => c.tools # {} \/ x.delta = "tools")
            /\ Extends(Piped(c, x), FALSE, PipedOpen(c), 0, PipedOpen(d), 0)
<1> DEFINE d == PipedAfterDelta(c, x)
<1>1. CASE x.delta = "text"
  <2> DEFINE i == c.index
  <2>1. d = [c EXCEPT !.text = TRUE] /\ Piped(c, x) = Said(c) /\ c.tools = {}
    BY <1>1 DEF PipedAfterDelta, Piped
  <2>2. c \in Conversions /\ i \in Nat /\ c.text \in BOOLEAN
    BY DEF FitsPiped, Conversions
  <2>3. d \in Conversions /\ d.text = TRUE /\ d.tools = {} /\ d.index = i
    BY <2>1, <2>2 DEF Conversions
  <2>4. FitsPiped(d)
    BY <2>3 DEF FitsPiped
  <2>5. PipedOpen(d) = {<<i, "text">>} /\ PipedOpen(c) = IF c.text THEN {<<i, "text">>} ELSE {}
    BY <2>1, <2>3 DEF PipedOpen
  <2>6. Extends(<<Event("delta", i, "text")>>, FALSE, {<<i, "text">>}, 0, {<<i, "text">>}, 0)
    <3>1. <<i, "text">> \in {<<i, "text">>}
      OBVIOUS
    <3> QED BY <2>2, <3>1, DeltaExtends
  <2>7. Extends(If(~c.text, Event("start", i, "text")), FALSE, PipedOpen(c), 0, {<<i, "text">>}, 0)
    <3>1. CASE c.text
      BY <2>5, <3>1, NothingExtends DEF If
    <3>2. CASE ~c.text
      <4>1. Extends(<<Event("start", i, "text")>>, FALSE, {}, 0, {} \cup {<<i, "text">>}, IF FALSE THEN 0 + 1 ELSE 0)
        BY <2>2, StartExtends
      <4>2. Extends(<<Event("start", i, "text")>>, FALSE, {}, 0, {<<i, "text">>}, 0)
        BY <4>1
      <4> QED BY <2>5, <3>2, <4>2 DEF If
    <3> QED BY <2>2, <3>1, <3>2
  <2>8. Extends(Said(c), FALSE, PipedOpen(c), 0, {<<i, "text">>}, 0)
    BY <2>6, <2>7, ExtendsTwice DEF Said
  <2> HIDE DEF d
  <2> QED BY <2>1, <2>3, <2>4, <2>5, <2>8 DEF d
<1>2. CASE x.delta = "tools"
  <2>1. d = PipedAfterCalls(c, x.tools) /\ Piped(c, x) = PipedCallEvents(c, x.tools)
    BY <1>2 DEF PipedAfterDelta, Piped, PipedAfterCalls, PipedCallEvents
  <2> HIDE DEF d
  <2> QED BY <1>2, <2>1, PipedCallsExtend DEF d
<1>3. CASE x.delta \notin {"text", "tools"}
  <2>1. d = c /\ Piped(c, x) = <<>>
    BY <1>3 DEF PipedAfterDelta, Piped
  <2> QED BY <2>1, NothingExtends
<1> QED BY <1>1, <1>2, <1>3

(* The end of the piped conversion closes whatever it has open. *)
LEMMA PipedEndCompletes ==
  ASSUME NEW c, FitsPiped(c)
  PROVE  Completes(PipedEnded(c), FALSE, PipedOpen(c), 0)
<1> DEFINE texts == If(c.text, Event("stop", c.index, "text"))
           firsts == If(0 \in c.tools, Event("stop", c.block[0], "tool0"))
           seconds == If(1 \in c.tools, Event("stop", c.block[1], "tool1"))
           ends == <<Message("message_delta"), Message("message_stop")>>
           called == {<<c.block[t], Tools[t + 1]>> : t \in c.tools}
           second == {<<c.block[t], Tools[t + 1]>> : t \in c.tools \ {0}}
<1>1. /\ c.index \in Nat /\ c.text \in BOOLEAN /\ c.block \in [0..1 -> Nat]
      /\ c.tools \in {{}, {0}, {1}, {0, 1}} /\ c.block[0] \in Nat /\ c.block[1] \in Nat
      /\ c.tools = {0, 1} => c.block[0] # c.block[1]
      /\ c.text => c.tools = {}
  BY DEF FitsPiped, Conversions
<1>2. PipedEnded(c) = ((texts \o firsts) \o seconds) \o ends
  BY DEF PipedEnded
<1>3. Extends(texts, FALSE, PipedOpen(c), 0, called, 0)
  <2>1. CASE c.text
    <3>1. PipedOpen(c) = {<<c.index, "text">>} /\ called = {}
      BY <1>1, <2>1 DEF PipedOpen
    <3>2. \E b \in PipedOpen(c) : b[1] = c.index
      <4>1. <<c.index, "text">>[1] = c.index
        OBVIOUS
      <4> QED BY <3>1, <4>1
    <3>3. {b \in PipedOpen(c) : b[1] # c.index} = {}
      BY <3>1
    <3>4. Extends(<<Event("stop", c.index, "text")>>, FALSE, PipedOpen(c), 0, {b \in PipedOpen(c) : b[1] # c.index}, 0)
      BY <1>1, <3>2, StopExtends
    <3> HIDE DEF called
    <3> QED BY <2>1, <3>1, <3>3, <3>4 DEF If
  <2>2. CASE ~c.text
    <3>1. PipedOpen(c) = called
      BY <2>2 DEF PipedOpen
    <3> HIDE DEF called
    <3> QED BY <2>2, <3>1, NothingExtends DEF If
  <2> QED BY <1>1, <2>1, <2>2
<1>4. Extends(firsts, FALSE, called, 0, second, 0)
  <2>1. CASE 0 \in c.tools
    <3>1. \E b \in called : b[1] = c.block[0]
      <4>1. <<c.block[0], Tools[0 + 1]>> \in called /\ <<c.block[0], Tools[0 + 1]>>[1] = c.block[0]
        BY <2>1
      <4> QED BY <4>1
    <3>2. {b \in called : b[1] # c.block[0]} = second
      <4>1. \A t \in c.tools : <<c.block[t], Tools[t + 1]>>[1] = c.block[t]
        OBVIOUS
      <4>2. \A t \in c.tools : c.block[t] # c.block[0] <=> t # 0
        BY <1>1, <2>1
      <4> QED BY <4>1, <4>2
    <3> HIDE DEF called, second
    <3>3. Extends(<<Event("stop", c.block[0], "tool0")>>, FALSE, called, 0, {b \in called : b[1] # c.block[0]}, 0)
      BY <1>1, <3>1, StopExtends
    <3> QED BY <2>1, <3>2, <3>3 DEF If
  <2>2. CASE 0 \notin c.tools
    <3>1. called = second
      BY <2>2
    <3> HIDE DEF called, second
    <3> QED BY <2>2, <3>1, NothingExtends DEF If
  <2> QED BY <2>1, <2>2
<1>5. Extends(seconds, FALSE, second, 0, {}, 0)
  <2>1. CASE 1 \in c.tools
    <3>1. second = {<<c.block[1], Tools[1 + 1]>>}
      BY <1>1, <2>1
    <3>2. \E b \in second : b[1] = c.block[1]
      <4>1. <<c.block[1], Tools[1 + 1]>>[1] = c.block[1]
        OBVIOUS
      <4> QED BY <3>1, <4>1
    <3>3. {b \in second : b[1] # c.block[1]} = {}
      BY <3>1
    <3> HIDE DEF second
    <3>4. Extends(<<Event("stop", c.block[1], "tool1")>>, FALSE, second, 0, {b \in second : b[1] # c.block[1]}, 0)
      BY <1>1, <3>2, StopExtends
    <3> QED BY <2>1, <3>3, <3>4 DEF If
  <2>2. CASE 1 \notin c.tools
    <3>1. second = {}
      BY <1>1, <2>2
    <3> HIDE DEF second
    <3> QED BY <2>2, <3>1, NothingExtends DEF If
  <2> QED BY <2>1, <2>2
<1>6. Completes(ends, FALSE, {}, 0)
  BY MessageCompletes
<1> HIDE DEF texts, firsts, seconds, ends, called, second
<1>7. Extends(texts \o firsts, FALSE, PipedOpen(c), 0, second, 0)
  BY <1>3, <1>4, ExtendsTwice
<1>8. Extends((texts \o firsts) \o seconds, FALSE, PipedOpen(c), 0, {}, 0)
  BY <1>5, <1>7, ExtendsTwice
<1>9. Completes(((texts \o firsts) \o seconds) \o ends, FALSE, PipedOpen(c), 0)
  BY <1>6, <1>8, ExtendsAndCompletes
<1> QED BY <1>2, <1>9

-----------------------------------------------------------------------------
(* The invariant. *)

StreamStages == {"start", "think", "sign", "text", "tool0", "tool1", "finished", "accounted"}
StreamChunks ==
  {x \in [delta : {"none", "role", "think", "sign", "text", "tools"},
          tools : ToolRuns \cup {<<>>}, finish : BOOLEAN, usage : BOOLEAN] :
     x.delta = "tools" => x.tools \in ToolRuns}

ClaudeTypes ==
  /\ way \in Ways /\ stage \in StreamStages /\ there \in BOOLEAN
  /\ line \in StreamChunks /\ pipe \in Seq(StreamChunks) /\ conv \in Conversions
  /\ out \in Seq(StreamEvents) /\ caller \in {"converts", "returned", "settled"}

(* Where the chunk x takes the stream. *)
StageBehind(s, x) ==
  CASE x.delta = "tools"            -> Tools[x.tools[Len(x.tools)] + 1]
    [] x.delta \in {"none", "role"} -> s
    [] OTHER                        -> x.delta

(* The direct conversion is where the upstream was before the chunk that is
   offered, and has written accordingly. *)
DirectKeepsUp ==
  way = "direct" /\ caller = "converts" /\ ~conv.closed =>
    /\ FitsDirect(conv) /\ Written(out, TRUE, LeftOpen(conv), Begun(conv))
    /\ producer = "offers" =>
         Follows(StageOf(conv), line) /\ (~line.finish => stage = StageBehind(StageOf(conv), line))
    /\ producer # "offers" => stage = StageOf(conv)

(* In the pipes, too, no text comes behind a tool call. *)
Piping == way = "piped" /\ caller = "converts"
ToolsPiped == \E i \in DOMAIN pipe : pipe[i].delta = "tools"
PipesKeepOrder ==
  Piping =>
    /\ FitsPiped(conv) /\ Written(out, FALSE, PipedOpen(conv), 0)
    /\ conv.tools # {} => \A i \in DOMAIN pipe : pipe[i].delta # "text"
    /\ \A i, j \in DOMAIN pipe : i < j /\ pipe[i].delta = "tools" => pipe[j].delta # "text"
    /\ conv.tools # {} \/ ToolsPiped => line.delta # "text"
    /\ conv.tools # {} \/ ToolsPiped \/ line.delta = "tools" =>
         stage \in {"tool0", "tool1", "finished", "accounted"}

OutShapely == \A n \in DOMAIN out : Shapely(out, n, way = "direct")

ClaudeInv == ClaudeTypes /\ DirectKeepsUp /\ PipesKeepOrder /\ OutShapely

(* The flags have no part in what is open. *)
LEMMA FlagsAside ==
  ASSUME NEW c \in Conversions, NEW d \in Conversions,
         d.tools = c.tools, d.text = c.text, d.thinking = c.thinking, d.index = c.index,
         d.block = c.block
  PROVE  /\ StageOf(d) = StageOf(c) /\ LeftOpen(d) = LeftOpen(c) /\ Begun(d) = Begun(c)
         /\ PipedOpen(d) = PipedOpen(c)
         /\ FitsDirect(d) = FitsDirect(c) /\ FitsPiped(d) = FitsPiped(c)
<1>1. StageOf(d) = StageOf(c)
  BY DEF StageOf
<1>2. PipedOpen(d) = PipedOpen(c)
  BY DEF PipedOpen
<1> QED BY <1>1, <1>2 DEF LeftOpen, Begun, FitsDirect, FitsPiped

(* A stream begins with the invariant. *)
LEMMA ClaudeStarts == ClaudeInit => ClaudeInv
<1> SUFFICES ASSUME ClaudeInit PROVE ClaudeInv
  OBVIOUS
<1>1. FreshConversion \in Conversions
  BY DEF FreshConversion, Conversions
<1>2. NoChunk \in StreamChunks /\ NoChunk.delta = "none"
  BY DEF NoChunk, Chunk, StreamChunks
<1>3. StageOf(FreshConversion) = "start" /\ FreshConversion.index = 0
  BY DEF StageOf, FreshConversion
<1>4. /\ FitsDirect(FreshConversion) /\ LeftOpen(FreshConversion) = {} /\ Begun(FreshConversion) = 0
      /\ FitsPiped(FreshConversion) /\ PipedOpen(FreshConversion) = {}
  <2>1. FreshConversion.text = FALSE /\ FreshConversion.tools = {}
    BY DEF FreshConversion
  <2> QED BY <1>1, <1>3, <2>1 DEF FitsDirect, LeftOpen, Begun, FitsPiped, PipedOpen
<1>5. ASSUME NEW direct \in BOOLEAN PROVE Written(<<>>, direct, {}, 0)
  <2>1. <<>> \in Seq(StreamEvents) /\ Len(<<>>) = 0 /\ DOMAIN <<>> = {}
    OBVIOUS
  <2>2. StartsIn(<<>>, Len(<<>>) + 1) = {} /\ OpenBlocks(<<>>) = {}
    BY <2>1 DEF StartsIn, OpenBlocks, OpenIn
  <2>3. IsFiniteSet({}) /\ Cardinality({}) = 0
    BY FS_EmptySet
  <2> QED BY <2>1, <2>2, <2>3 DEF Written
<1>6. ASSUME way = "piped" PROVE Written(out, FALSE, {}, 0)
  <2>1. Extends(If(TRUE, Message("message_start")), FALSE, {}, 0, {}, 0)
    BY GreetingExtends
  <2>2. Written(<<>> \o If(TRUE, Message("message_start")), FALSE, {}, 0)
    BY <1>5, <2>1 DEF Extends
  <2>3. <<>> \o If(TRUE, Message("message_start")) = If(TRUE, Message("message_start"))
    BY <2>1, ConcatEmptySeq DEF Extends
  <2>4. out = If(TRUE, Message("message_start"))
    BY <1>6 DEF ClaudeInit
  <2> QED BY <2>2, <2>3, <2>4
<1>7. ASSUME way = "direct" PROVE Written(out, TRUE, {}, 0)
  <2>1. out = <<>>
    BY <1>7 DEF ClaudeInit, If
  <2> QED BY <1>5, <2>1
<1>8. way \in {"direct", "piped"}
  BY DEF ClaudeInit, Ways
<1>9. pipe = <<>> /\ DOMAIN pipe = {} /\ pipe \in Seq(StreamChunks)
  BY DEF ClaudeInit
<1>10. OutShapely /\ out \in Seq(StreamEvents)
  <2>1. CASE way = "direct"
    BY <1>7, <2>1 DEF OutShapely, Written
  <2>2. CASE way = "piped"
    BY <1>6, <2>2 DEF OutShapely, Written
  <2> QED BY <1>8, <2>1, <2>2
<1>11. ClaudeTypes
  BY <1>1, <1>2, <1>8, <1>9, <1>10 DEF ClaudeInit, ClaudeTypes, Ways, StreamStages
<1>12. DirectKeepsUp
  BY <1>3, <1>4, <1>7 DEF ClaudeInit, DirectKeepsUp
<1>13. PipesKeepOrder
  <2>1. ~ToolsPiped /\ conv.tools = {} /\ line.delta = "none"
    BY <1>2, <1>9 DEF ToolsPiped, ClaudeInit, FreshConversion
  <2> QED BY <1>4, <1>6, <1>9, <2>1 DEF ClaudeInit, PipesKeepOrder, Piping
<1> QED BY <1>10, <1>11, <1>12, <1>13 DEF ClaudeInv

(* A chunk is read. *)
LEMMA ReadChunkKeeps ==
  ASSUME ClaudeInv, ReadChunk
  PROVE  ClaudeInv'
<1>1. PICK d \in Deltas, finish \in BOOLEAN :
         /\ Offer(Chunk(d[1], d[2], finish, finish /\ plan = "finish"))
         /\ stage' = IF finish THEN "finished" ELSE StageAfter(d)
  BY DEF ReadChunk
<1> DEFINE x == Chunk(d[1], d[2], finish, finish /\ plan = "finish")
<1>2. /\ line' = x /\ producer = "reads" /\ producer' = "offers"
      /\ UNCHANGED <<way, pipe, conv, out, there, caller>>
  BY <1>1 DEF ReadChunk, Offer
<1>3. x.delta = d[1] /\ x.tools = d[2] /\ x.finish = finish
  BY DEF Chunk
<1>4. Tools[1] = "tool0" /\ Tools[2] = "tool1"
  BY DEF Tools
<1>5. /\ d[1] \in {"role", "think", "sign", "text", "tools"}
      /\ d[1] = "tools" => d[2] \in NextTools(stage) /\ stage \in {"start", "sign", "text", "tool0", "tool1"}
      /\ d[1] # "tools" => d[2] = <<>>
      /\ d[1] = "role" => stage = "start"
      /\ d[1] = "think" => stage \in {"start", "think"}
      /\ d[1] = "sign" => stage = "think"
      /\ d[1] = "text" => stage \in {"start", "sign", "text"}
  <2>1. stage \in StreamStages
    BY DEF ClaudeInv, ClaudeTypes
  <2>2. CASE stage = "think"
    BY <2>2 DEF Deltas
  <2>3. CASE stage = "start"
    BY <2>3 DEF Deltas
  <2>4. CASE stage \in {"sign", "text"}
    BY <2>4 DEF Deltas
  <2>5. CASE stage \in {"tool0", "tool1"}
    BY <2>5 DEF Deltas
  <2>6. CASE stage \in {"finished", "accounted"}
    BY <2>6 DEF Deltas
  <2> QED BY <2>1, <2>2, <2>3, <2>4, <2>5, <2>6 DEF StreamStages
<1>6. d[1] = "tools" =>
        /\ d[2] \in ToolRuns
        /\ stage \in {"start", "sign", "text"} => d[2] # << 1 >>
        /\ stage = "tool0" => d[2] # <<0, 1>>
        /\ stage = "tool1" => d[2] = << 1 >>
  <2>1. << 0 >> # << 1 >> /\ <<0, 1>> # << 1 >> /\ << 0 >> # <<0, 1>>
    <3>1. << 0 >>[1] # << 1 >>[1] /\ Len(<<0, 1>>) # Len(<< 1 >>) /\ Len(<< 0 >>) # Len(<<0, 1>>)
      OBVIOUS
    <3> QED BY <3>1
  <2> QED BY <1>5, <2>1 DEF NextTools, ToolRuns
<1>7. d[1] = "tools" => StageAfter(d) = Tools[d[2][Len(d[2])] + 1] /\ StageAfter(d) \in {"tool0", "tool1"}
  <2> SUFFICES ASSUME d[1] = "tools" PROVE Tools[d[2][Len(d[2])] + 1] \in {"tool0", "tool1"}
    BY DEF StageAfter
  <2>1. d[2][Len(d[2])] \in {0, 1}
    <3>1. \A t \in ToolRuns : t[Len(t)] \in {0, 1}
      <4>1. << 0 >>[Len(<< 0 >>)] = 0 /\ << 1 >>[Len(<< 1 >>)] = 1 /\ <<0, 1>>[Len(<<0, 1>>)] = 1
        OBVIOUS
      <4> QED BY <4>1 DEF ToolRuns
    <3> HIDE DEF ToolRuns
    <3> QED BY <1>6, <3>1
  <2> QED BY <1>4, <2>1
<1>8. stage' \in StreamStages
  BY <1>1, <1>5, <1>7 DEF StageAfter, StreamStages
<1>9. x \in StreamChunks
  BY <1>3, <1>5, <1>6 DEF StreamChunks, Chunk
<1> HIDE DEF x
<1>10. ClaudeTypes'
  BY <1>2, <1>8, <1>9 DEF ClaudeInv, ClaudeTypes
<1>11. DirectKeepsUp'
  <2> SUFFICES ASSUME way = "direct", caller = "converts", ~conv.closed
               PROVE  /\ FitsDirect(conv) /\ Written(out, TRUE, LeftOpen(conv), Begun(conv))
                      /\ Follows(StageOf(conv), x)
                      /\ ~x.finish => stage' = StageBehind(StageOf(conv), x)
    BY <1>2 DEF DirectKeepsUp
  <2>1. FitsDirect(conv) /\ Written(out, TRUE, LeftOpen(conv), Begun(conv)) /\ stage = StageOf(conv)
    BY <1>2 DEF ClaudeInv, DirectKeepsUp
  <2>2. Follows(stage, x)
    <3> HIDE DEF Tools
    <3>1. x.delta # "none" /\ (x.delta = "tools" => stage # "think")
      BY <1>3, <1>5
    <3> QED BY <1>3, <1>5, <1>6, <3>1 DEF Follows
  <2>3. ~x.finish => stage' = StageBehind(stage, x)
    BY <1>1, <1>3, <1>5, <1>7 DEF StageBehind, StageAfter
  <2> QED BY <2>1, <2>2, <2>3
<1>12. PipesKeepOrder'
  <2> SUFFICES ASSUME Piping PROVE PipesKeepOrder'
    BY <1>2 DEF PipesKeepOrder, Piping
  <2>1. stage \in {"tool0", "tool1"} => stage' \in {"tool0", "tool1", "finished", "accounted"}
    BY <1>1, <1>5, <1>7
  <2>2. x.delta = "tools" => stage' \in {"tool0", "tool1", "finished", "accounted"}
    BY <1>1, <1>3, <1>7
  <2>3. x.delta = "text" => stage \in {"start", "sign", "text"}
    BY <1>3, <1>5
  <2>4. stage \notin {"finished", "accounted"}
    BY <1>5
  <2>5. ToolsPiped' = ToolsPiped
    BY <1>2 DEF ToolsPiped
  <2> QED BY <1>2, <2>1, <2>2, <2>3, <2>4, <2>5 DEF ClaudeInv, PipesKeepOrder, Piping
<1>13. OutShapely'
  BY <1>2 DEF ClaudeInv, OutShapely
<1> QED BY <1>10, <1>11, <1>12, <1>13 DEF ClaudeInv

(* The other steps of the producer, and whatever takes no part in it. *)
LEMMA ElsewhereKeeps ==
  ASSUME ClaudeInv,
         \/ ReadFinish \/ ReadUsage \/ ReadDone \/ ReadEnds \/ ReadFailure \/ GiveUp
         \/ PumpEnds \/ ClientLeaves \/ SettleStream \/ UNCHANGED claudeVars
  PROVE  ClaudeInv'
<1> USE DEF ClaudeInv
<1>1. CASE ReadFinish
  <2> DEFINE x == Chunk("none", <<>>, TRUE, plan = "finish")
  <2>1. /\ line' = x /\ producer' = "offers" /\ stage' = "finished"
        /\ UNCHANGED <<way, pipe, conv, out, there, caller>>
    BY <1>1 DEF ReadFinish, Offer
  <2>2. x.delta = "none" /\ x.finish = TRUE /\ x \in StreamChunks
    BY DEF Chunk, StreamChunks
  <2> HIDE DEF x
  <2>3. ClaudeTypes'
    BY <2>1, <2>2 DEF ClaudeTypes, StreamStages
  <2>4. DirectKeepsUp'
    BY <2>1, <2>2 DEF DirectKeepsUp, Follows
  <2>5. PipesKeepOrder'
    BY <2>1, <2>2 DEF PipesKeepOrder, Piping, ToolsPiped
  <2>6. OutShapely'
    BY <2>1 DEF OutShapely
  <2> QED BY <2>3, <2>4, <2>5, <2>6
<1>2. CASE ReadUsage
  <2>1. /\ producer = "reads" /\ stage = "finished" /\ stage' = "accounted"
        /\ UNCHANGED <<way, line, producer, pipe, conv, out, there, caller>>
    BY <1>2 DEF ReadUsage
  <2>2. ClaudeTypes'
    BY <2>1 DEF ClaudeTypes, StreamStages
  <2>3. DirectKeepsUp'
    <3>1. StageOf(conv) # "finished"
      BY DEF StageOf
    <3> QED BY <2>1, <3>1 DEF DirectKeepsUp
  <2>4. PipesKeepOrder'
    BY <2>1 DEF PipesKeepOrder, Piping, ToolsPiped
  <2>5. OutShapely'
    BY <2>1 DEF OutShapely
  <2> QED BY <2>2, <2>3, <2>4, <2>5
<1>3. CASE ReadDone \/ ReadEnds \/ ReadFailure \/ GiveUp \/ PumpEnds \/ UNCHANGED claudeVars
  <2>1. /\ producer' = producer \/ (producer # "offers" /\ producer' # "offers")
        /\ UNCHANGED <<way, stage, line, pipe, conv, out, there, caller>>
    BY <1>3 DEF ReadDone, ReadEnds, ReadFailure, GiveUp, PumpEnds, claudeVars, upstreamVars,
                Offers, AfterOffer
  <2>2. ClaudeTypes'
    BY <2>1 DEF ClaudeTypes
  <2>3. DirectKeepsUp'
    BY <2>1 DEF DirectKeepsUp
  <2>4. PipesKeepOrder'
    BY <2>1 DEF PipesKeepOrder, Piping, ToolsPiped
  <2>5. OutShapely'
    BY <2>1 DEF OutShapely
  <2> QED BY <2>2, <2>3, <2>4, <2>5
<1>4. CASE ClientLeaves \/ SettleStream
  <2>1. /\ there' \in BOOLEAN /\ caller' \in {"converts", "returned", "settled"}
        /\ caller' = "converts" => caller = "converts"
        /\ UNCHANGED <<way, stage, line, producer, pipe, conv, out>>
    BY <1>4 DEF ClientLeaves, SettleStream, upstreamVars, ClaudeTypes
  <2>2. ClaudeTypes'
    BY <2>1 DEF ClaudeTypes
  <2>3. DirectKeepsUp'
    BY <2>1 DEF DirectKeepsUp
  <2>4. PipesKeepOrder'
    BY <2>1 DEF PipesKeepOrder, Piping, ToolsPiped
  <2>5. OutShapely'
    BY <2>1 DEF OutShapely
  <2> QED BY <2>2, <2>3, <2>4, <2>5
<1> QED BY <1>1, <1>2, <1>3, <1>4

(* The direct conversion takes a chunk. *)
LEMMA TakeChunkKeeps ==
  ASSUME ClaudeInv, TakeChunk
  PROVE  ClaudeInv'
<1> DEFINE x == line
           c == [AfterDelta(conv, x) EXCEPT !.started = TRUE]
           converted == Converted(conv, x)
           ends == x.finish /\ (there \/ converted = <<>>)
           rest == IF ends /\ there THEN Ended(c) ELSE <<>>
           after == [c EXCEPT !.finished = ends, !.closed = ends]
<1>1. /\ way = "direct" /\ caller = "converts" /\ producer = "offers" /\ producer' = "reads"
      /\ line' = NoChunk /\ UNCHANGED <<way, stage, pipe, there>>
      /\ caller' = IF conv.closed \/ conv'.finished THEN "returned" ELSE caller
  BY DEF TakeChunk, upstreamVars
<1>2. NoChunk \in StreamChunks
  BY DEF NoChunk, Chunk, StreamChunks
<1>3. PipesKeepOrder'
  BY <1>1 DEF PipesKeepOrder, Piping
<1>4. CASE conv.closed
  <2>1. UNCHANGED <<conv, out>> /\ caller' = "returned"
    BY <1>1, <1>4 DEF TakeChunk
  <2>2. ClaudeTypes' /\ DirectKeepsUp' /\ OutShapely'
    BY <1>1, <1>2, <2>1 DEF ClaudeInv, ClaudeTypes, DirectKeepsUp, OutShapely
  <2> QED BY <1>3, <2>2 DEF ClaudeInv
<1>5. CASE ~conv.closed
  <2>1. Write(converted \o rest, after)
    BY <1>5 DEF TakeChunk, ConvertChunk
  <2>2. /\ conv \in Conversions /\ out \in Seq(StreamEvents) /\ there \in BOOLEAN
        /\ x \in StreamChunks /\ x.finish \in BOOLEAN
        /\ x.delta \in {"none", "role", "think", "sign", "text", "tools"}
        /\ OutShapely
    BY DEF ClaudeInv, ClaudeTypes, StreamChunks
  <2> DEFINE d == AfterDelta(conv, x)
  <2>3. /\ FitsDirect(conv) /\ Written(out, TRUE, LeftOpen(conv), Begun(conv))
        /\ Follows(StageOf(conv), x)
        /\ ~x.finish => stage = StageBehind(StageOf(conv), x)
    BY <1>1, <1>5 DEF ClaudeInv, DirectKeepsUp
  <2>4. /\ FitsDirect(d) /\ StageOf(d) = StageBehind(StageOf(conv), x)
        /\ Extends(converted, TRUE, LeftOpen(conv), Begun(conv), LeftOpen(d), Begun(d))
    BY <2>2, <2>3, ChunkExtends DEF StageBehind
  <2>5. c \in Conversions /\ d \in Conversions /\ FitsDirect(c) /\ LeftOpen(c) = LeftOpen(d) /\ Begun(c) = Begun(d)
        /\ StageOf(c) = StageOf(d)
    <3>1. d \in Conversions
      BY <2>4 DEF FitsDirect
    <3> HIDE DEF d
    <3>2. /\ [d EXCEPT !.started = TRUE] \in Conversions
          /\ [d EXCEPT !.started = TRUE].tools = d.tools
          /\ [d EXCEPT !.started = TRUE].text = d.text
          /\ [d EXCEPT !.started = TRUE].thinking = d.thinking
          /\ [d EXCEPT !.started = TRUE].index = d.index
          /\ [d EXCEPT !.started = TRUE].block = d.block
      BY <3>1 DEF Conversions
    <3> QED BY <2>4, <3>1, <3>2, FlagsAside DEF d
  <2>6. ends \in BOOLEAN
    BY <2>2
  <2>7. /\ after \in Conversions /\ after.closed = ends /\ after.finished = ends
        /\ FitsDirect(after) /\ LeftOpen(after) = LeftOpen(c) /\ Begun(after) = Begun(c)
        /\ StageOf(after) = StageOf(c)
    <3> HIDE DEF c, ends
    <3>1. /\ after \in Conversions /\ after.closed = ends /\ after.finished = ends
          /\ after.tools = c.tools /\ after.text = c.text /\ after.thinking = c.thinking
          /\ after.index = c.index /\ after.block = c.block
      BY <2>5, <2>6 DEF Conversions
    <3> QED BY <2>5, <3>1, FlagsAside
  <2>8. converted \in Seq(StreamEvents) /\ Written(out \o converted, TRUE, LeftOpen(d), Begun(d))
    BY <2>3, <2>4 DEF Extends
  <2>9. CASE there \/ converted \o rest = <<>>
    <3>1. out' = out \o (converted \o rest) /\ conv' = after
      BY <2>1, <2>9 DEF Write
    <3>2. CASE ends
      <4>1. caller' = "returned"
        BY <1>1, <2>7, <3>1, <3>2
      <4>2. out' \in Seq(StreamEvents) /\ \A n \in DOMAIN out' : Shapely(out', n, TRUE)
        <5>1. CASE there
          <6>1. Completes(Ended(c), TRUE, LeftOpen(d), Begun(d))
            <7> HIDE DEF c, d
            <7> QED BY <2>5, EndCompletes
          <6>2. rest = Ended(c)
            BY <3>2, <5>1
          <6>3. Completes(rest, TRUE, LeftOpen(d), Begun(d))
            BY <6>1, <6>2
          <6> HIDE DEF c, d, rest, converted, ends
          <6>4. Completes(converted \o rest, TRUE, LeftOpen(conv), Begun(conv))
            BY <2>4, <6>3, ExtendsAndCompletes
          <6>5. out \o (converted \o rest) \in Seq(StreamEvents)
            BY <2>2, <6>4, ConcatProperties DEF Completes
          <6> QED BY <2>3, <3>1, <6>4, <6>5 DEF Completes
        <5>2. CASE ~there
          <6> HIDE DEF c, d, rest, converted, ends
          <6>1. converted \o rest = <<>>
            BY <2>9, <5>2
          <6>2. out' = out
            BY <2>2, <3>1, <6>1, ConcatEmptySeq
          <6> QED BY <1>1, <2>2, <6>2 DEF OutShapely
        <5> QED BY <2>2, <5>1, <5>2
      <4> HIDE DEF c, ends, after
      <4>3. ClaudeTypes' /\ DirectKeepsUp' /\ OutShapely'
        BY <1>1, <1>2, <2>7, <3>1, <4>1, <4>2 DEF ClaudeInv, ClaudeTypes, DirectKeepsUp, OutShapely
      <4> QED BY <1>3, <4>3 DEF ClaudeInv
    <3>3. CASE ~ends
      <4>1. rest = <<>>
        BY <3>3
      <4>2. ~x.finish
        <5>1. there \/ converted = <<>>
          <6> HIDE DEF converted
          <6> QED BY <2>2, <2>8, <2>9, <4>1, ConcatEmptySeq
        <5> QED BY <3>3, <5>1
      <4> HIDE DEF c, d, rest, converted, ends, after
      <4>3. out' = out \o converted
        BY <2>8, <3>1, <4>1, ConcatEmptySeq
      <4>4. /\ FitsDirect(conv') /\ Written(out', TRUE, LeftOpen(conv'), Begun(conv'))
            /\ stage' = StageOf(conv') /\ conv' \in Conversions
        BY <1>1, <2>3, <2>4, <2>5, <2>7, <2>8, <3>1, <4>2, <4>3
      <4>5. ClaudeTypes'
        BY <1>1, <1>2, <4>4 DEF ClaudeInv, ClaudeTypes, Written
      <4>6. DirectKeepsUp'
        <5>1. LeftOpen(conv)' = LeftOpen(conv') /\ Begun(conv)' = Begun(conv') /\ StageOf(conv)' = StageOf(conv')
          OBVIOUS
        <5> QED BY <1>1, <4>4, <5>1 DEF DirectKeepsUp
      <4>7. OutShapely'
        BY <1>1, <4>4 DEF OutShapely, Written
      <4> QED BY <1>3, <4>5, <4>6, <4>7 DEF ClaudeInv
    <3> QED BY <2>6, <3>2, <3>3
  <2>10. CASE ~(there \/ converted \o rest = <<>>)
    <3>1. out' = out /\ conv' = [conv EXCEPT !.closed = TRUE]
      BY <2>1, <2>10 DEF Write
    <3>2. conv' \in Conversions /\ conv'.closed = TRUE
      BY <2>2, <3>1 DEF Conversions
    <3>3. ClaudeTypes' /\ OutShapely'
      BY <1>1, <1>2, <3>1, <3>2 DEF ClaudeInv, ClaudeTypes, OutShapely
    <3>4. DirectKeepsUp'
      BY <3>2 DEF DirectKeepsUp
    <3> QED BY <1>3, <3>3, <3>4 DEF ClaudeInv
  <2> QED BY <2>9, <2>10
<1> QED BY <1>1, <1>4, <1>5

(* The direct conversion takes the end. *)
LEMMA TakeEndKeeps ==
  ASSUME ClaudeInv, TakeEnd
  PROVE  ClaudeInv'
<1>1. /\ way = "direct" /\ caller = "converts" /\ caller' = "returned" /\ producer \in Offers
      /\ UNCHANGED <<way, stage, line, pipe, there>>
  BY DEF TakeEnd, upstreamVars
<1>2. /\ conv \in Conversions /\ out \in Seq(StreamEvents) /\ OutShapely /\ ClaudeTypes
  BY DEF ClaudeInv, ClaudeTypes
<1>3. conv' \in Conversions /\ out' \in Seq(StreamEvents) /\ \A n \in DOMAIN out' : Shapely(out', n, TRUE)
  <2>1. CASE producer \in {"offersEOF", "offersEnd"} /\ Live(conv)
    <3>1. Write(Ended(conv), conv)
      BY <2>1 DEF TakeEnd
    <3>2. FitsDirect(conv) /\ Written(out, TRUE, LeftOpen(conv), Begun(conv))
      BY <1>1, <2>1 DEF ClaudeInv, DirectKeepsUp, Live
    <3>3. Completes(Ended(conv), TRUE, LeftOpen(conv), Begun(conv))
      BY <3>2, EndCompletes
    <3>4. out \o Ended(conv) \in Seq(StreamEvents)
      BY <1>2, <3>3, ConcatProperties DEF Completes
    <3>5. \A n \in DOMAIN (out \o Ended(conv)) : Shapely(out \o Ended(conv), n, TRUE)
      BY <3>2, <3>3 DEF Completes
    <3>6. \/ out' = out \o Ended(conv) /\ conv' = conv
          \/ out' = out /\ conv' = [conv EXCEPT !.closed = TRUE]
      BY <3>1 DEF Write
    <3>7. [conv EXCEPT !.closed = TRUE] \in Conversions
      BY <1>2 DEF Conversions
    <3>8. \A n \in DOMAIN out : Shapely(out, n, TRUE)
      BY <1>1, <1>2 DEF OutShapely
    <3> QED BY <1>2, <3>4, <3>5, <3>6, <3>7, <3>8
  <2>2. CASE ~(producer \in {"offersEOF", "offersEnd"} /\ Live(conv))
    <3>1. UNCHANGED <<conv, out>>
      BY <2>2 DEF TakeEnd
    <3> QED BY <1>1, <1>2, <3>1 DEF OutShapely
  <2> QED BY <2>1, <2>2
<1>4. ClaudeTypes'
  BY <1>1, <1>2, <1>3 DEF ClaudeTypes
<1>5. DirectKeepsUp' /\ PipesKeepOrder'
  BY <1>1 DEF DirectKeepsUp, PipesKeepOrder, Piping
<1>6. OutShapely'
  BY <1>1, <1>3 DEF OutShapely
<1> QED BY <1>4, <1>5, <1>6 DEF ClaudeInv

(* A chunk goes into the pipes. *)
LEMMA PumpChunkKeeps ==
  ASSUME ClaudeInv, PumpChunk
  PROVE  ClaudeInv'
<1>1. /\ way = "piped" /\ line' = NoChunk
      /\ pipe' = IF caller = "converts" THEN Append(pipe, line) ELSE <<>>
      /\ UNCHANGED <<way, stage, conv, out, there, caller>>
  BY DEF PumpChunk, upstreamVars
<1>2. NoChunk \in StreamChunks /\ NoChunk.delta = "none"
  BY DEF NoChunk, Chunk, StreamChunks
<1>3. ClaudeTypes /\ line \in StreamChunks /\ pipe \in Seq(StreamChunks)
  BY DEF ClaudeInv, ClaudeTypes
<1>4. ClaudeTypes'
  <2>1. pipe' \in Seq(StreamChunks)
    BY <1>1, <1>3, AppendProperties, EmptySeq
  <2> QED BY <1>1, <1>2, <1>3, <2>1 DEF ClaudeTypes
<1>5. DirectKeepsUp'
  BY <1>1 DEF DirectKeepsUp
<1>6. OutShapely'
  BY <1>1 DEF ClaudeInv, OutShapely
<1>7. PipesKeepOrder'
  <2> SUFFICES ASSUME caller = "converts" PROVE PipesKeepOrder'
    BY <1>1 DEF PipesKeepOrder, Piping
  <2> DEFINE p == Append(pipe, line)
  <2>1. /\ pipe' = p /\ DOMAIN pipe = 1..Len(pipe) /\ DOMAIN p = 1..(Len(pipe) + 1) /\ Len(pipe) \in Nat
        /\ \A i \in 1..Len(pipe) : p[i] = pipe[i]
        /\ p[Len(pipe) + 1] = line
    BY <1>1, <1>3, AppendProperties, LenProperties
  <2>2. PipesKeepOrder /\ Piping
    BY <1>1 DEF ClaudeInv, Piping
  <2> HIDE DEF p
  <2>3. ToolsPiped' => ToolsPiped \/ line.delta = "tools"
    BY <2>1 DEF ToolsPiped
  <2>4. conv.tools # {} => \A i \in DOMAIN p : p[i].delta # "text"
    BY <2>1, <2>2 DEF PipesKeepOrder
  <2>5. \A i, j \in DOMAIN p : i < j /\ p[i].delta = "tools" => p[j].delta # "text"
    <3> SUFFICES ASSUME NEW i \in DOMAIN p, NEW j \in DOMAIN p, i < j, p[i].delta = "tools"
                 PROVE  p[j].delta # "text"
      OBVIOUS
    <3>1. i \in 1..Len(pipe) /\ pipe[i].delta = "tools"
      BY <2>1
    <3>2. ToolsPiped
      BY <2>1, <3>1 DEF ToolsPiped
    <3>3. CASE j \in 1..Len(pipe)
      BY <2>1, <2>2, <3>1, <3>3 DEF PipesKeepOrder
    <3>4. CASE j = Len(pipe) + 1
      BY <2>1, <2>2, <3>2, <3>4 DEF PipesKeepOrder
    <3> QED BY <2>1, <3>3, <3>4
  <2>6. conv.tools # {} \/ ToolsPiped' => stage \in {"tool0", "tool1", "finished", "accounted"}
    BY <2>2, <2>3 DEF PipesKeepOrder
  <2> QED BY <1>1, <1>2, <2>1, <2>2, <2>4, <2>5, <2>6 DEF PipesKeepOrder, Piping
<1> QED BY <1>4, <1>5, <1>6, <1>7 DEF ClaudeInv

(* The piped conversion takes a chunk, or finds the pipe closed. *)
LEMMA ConvertPipedKeeps ==
  ASSUME ClaudeInv, ConvertPiped
  PROVE  ClaudeInv'
<1>1. /\ way = "piped" /\ caller = "converts" /\ UNCHANGED <<way, stage, line, there>>
  BY DEF ConvertPiped, upstreamVars
<1>2. ClaudeTypes /\ pipe \in Seq(StreamChunks) /\ conv \in Conversions /\ out \in Seq(StreamEvents)
  BY DEF ClaudeInv, ClaudeTypes
<1>3. DirectKeepsUp'
  BY <1>1 DEF DirectKeepsUp
<1>4. PipesKeepOrder /\ Piping
  BY <1>1 DEF ClaudeInv, Piping
<1>5. CASE pipe = <<>>
  <2>1. caller' = "returned" /\ UNCHANGED <<pipe, conv, out>>
    BY <1>5 DEF ConvertPiped
  <2> QED BY <1>1, <1>2, <1>3, <2>1 DEF ClaudeInv, ClaudeTypes, PipesKeepOrder, Piping, OutShapely
<1>6. CASE pipe # <<>>
  <2> DEFINE x == Head(pipe)
             c == PipedAfterDelta(conv, x)
             run == Piped(conv, x)
             rest == IF x.finish THEN PipedEnded(c) ELSE <<>>
             after == [c EXCEPT !.finished = x.finish]
  <2>1. /\ pipe' = Tail(pipe) /\ out' = (out \o run) \o rest /\ conv' = after
        /\ caller' = IF x.finish THEN "returned" ELSE caller
    BY <1>6 DEF ConvertPiped
  <2>2. /\ x \in StreamChunks /\ x = pipe[1] /\ Tail(pipe) \in Seq(StreamChunks)
        /\ Len(pipe) \in Nat \ {0} /\ DOMAIN pipe = 1..Len(pipe) /\ DOMAIN Tail(pipe) = 1..(Len(pipe) - 1)
        /\ \A i \in 1..(Len(pipe) - 1) : Tail(pipe)[i] = pipe[i + 1]
    <3>1. /\ x \in StreamChunks /\ Tail(pipe) \in Seq(StreamChunks) /\ Len(Tail(pipe)) = Len(pipe) - 1
          /\ \A i \in 1..Len(Tail(pipe)) : Tail(pipe)[i] = pipe[i + 1]
      BY <1>2, <1>6, HeadTailProperties
    <3>2. Len(pipe) \in Nat \ {0}
      BY <1>2, <1>6, EmptySeq
    <3> QED BY <1>2, <1>6, <3>1, <3>2, LenProperties
  <2>3. x.finish \in BOOLEAN /\ (x.delta = "tools" => x.tools \in ToolRuns)
    BY <2>2 DEF StreamChunks
  <2>4. FitsPiped(conv) /\ Written(out, FALSE, PipedOpen(conv), 0)
    BY <1>4 DEF PipesKeepOrder
  <2>5. x.delta = "text" => conv.tools = {}
    BY <1>4, <2>2 DEF PipesKeepOrder
  <2>6. /\ FitsPiped(c) /\ (c.tools # {} => conv.tools # {} \/ x.delta = "tools")
        /\ Extends(run, FALSE, PipedOpen(conv), 0, PipedOpen(c), 0)
    <3> HIDE DEF x
    <3> QED BY <2>3, <2>4, <2>5, PipedChunkExtends
  <2>7. /\ after \in Conversions /\ FitsPiped(after) /\ PipedOpen(after) = PipedOpen(c) /\ after.tools = c.tools
    <3>1. c \in Conversions
      BY <2>6 DEF FitsPiped
    <3> HIDE DEF c, x
    <3>2. /\ after \in Conversions /\ after.tools = c.tools /\ after.text = c.text /\ after.thinking = c.thinking
          /\ after.index = c.index /\ after.block = c.block
      BY <2>3, <3>1 DEF Conversions
    <3> QED BY <2>6, <3>1, <3>2, FlagsAside
  <2>8. /\ out \o run \in Seq(StreamEvents) /\ Written(out \o run, FALSE, PipedOpen(c), 0)
    BY <2>4, <2>6 DEF Extends, Written
  <2>9. CASE x.finish
    <3>1. Completes(rest, FALSE, PipedOpen(c), 0)
      <4>1. Completes(PipedEnded(c), FALSE, PipedOpen(c), 0)
        <5> HIDE DEF c
        <5> QED BY <2>6, PipedEndCompletes
      <4> QED BY <2>9, <4>1
    <3> HIDE DEF x, c, run, rest, after
    <3>2. out' \in Seq(StreamEvents) /\ \A n \in DOMAIN out' : Shapely(out', n, FALSE)
      <4>1. out' \in Seq(StreamEvents)
        BY <2>1, <2>8, <3>1, ConcatProperties DEF Completes
      <4> QED BY <2>1, <2>8, <3>1, <4>1 DEF Completes
    <3>3. ClaudeTypes' /\ PipesKeepOrder' /\ OutShapely'
      BY <1>1, <1>2, <2>1, <2>2, <2>7, <2>9, <3>2 DEF ClaudeTypes, PipesKeepOrder, Piping, OutShapely
    <3> QED BY <1>3, <3>3 DEF ClaudeInv
  <2>10. CASE ~x.finish
    <3>1. rest = <<>>
      BY <2>10
    <3> HIDE DEF x, c, run, rest, after
    <3>2. out' = out \o run /\ caller' = caller
      BY <2>1, <2>8, <2>10, <3>1, ConcatEmptySeq
    <3>3. FitsPiped(conv') /\ Written(out', FALSE, PipedOpen(conv'), 0) /\ conv'.tools = c.tools
      BY <2>1, <2>7, <2>8, <3>2
    <3>4. ClaudeTypes' /\ OutShapely'
      BY <1>1, <1>2, <2>1, <2>2, <2>7, <3>2, <3>3 DEF ClaudeTypes, OutShapely, Written
    <3>5. PipesKeepOrder'
      <4>1. ToolsPiped' => ToolsPiped
        BY <2>1, <2>2 DEF ToolsPiped
      <4>2. x.delta = "tools" => ToolsPiped
        BY <2>2 DEF ToolsPiped
      <4>3. conv'.tools # {} => \A i \in DOMAIN pipe' : pipe'[i].delta # "text"
        <5> SUFFICES ASSUME conv'.tools # {}, NEW i \in 1..(Len(pipe) - 1) PROVE pipe[i + 1].delta # "text"
          BY <2>1, <2>2
        <5>1. i + 1 \in DOMAIN pipe /\ 1 \in DOMAIN pipe /\ 1 < i + 1
          BY <2>2
        <5>2. CASE conv.tools # {}
          BY <1>4, <5>1, <5>2 DEF PipesKeepOrder
        <5>3. CASE x.delta = "tools"
          BY <1>4, <2>2, <5>1, <5>3 DEF PipesKeepOrder
        <5> QED BY <2>6, <3>3, <5>2, <5>3
      <4>4. \A i, j \in DOMAIN pipe' : i < j /\ pipe'[i].delta = "tools" => pipe'[j].delta # "text"
        <5> SUFFICES ASSUME NEW i \in DOMAIN pipe', NEW j \in DOMAIN pipe', i < j, pipe'[i].delta = "tools"
                     PROVE  pipe'[j].delta # "text"
          OBVIOUS
        <5>1. i \in 1..(Len(pipe) - 1) /\ j \in 1..(Len(pipe) - 1)
              /\ pipe'[i] = pipe[i + 1] /\ pipe'[j] = pipe[j + 1]
          BY <2>1, <2>2
        <5>2. i + 1 \in DOMAIN pipe /\ j + 1 \in DOMAIN pipe /\ i + 1 < j + 1
          BY <2>2, <5>1
        <5> QED BY <1>4, <5>1, <5>2 DEF PipesKeepOrder
      <4>5. conv'.tools # {} \/ ToolsPiped' => conv.tools # {} \/ ToolsPiped
        BY <2>6, <3>3, <4>1, <4>2
      <4> QED BY <1>1, <1>4, <3>2, <3>3, <4>3, <4>4, <4>5 DEF PipesKeepOrder, Piping
    <3> QED BY <1>3, <3>4, <3>5 DEF ClaudeInv
  <2> QED BY <2>3, <2>9, <2>10
<1> QED BY <1>5, <1>6

(* Every stream, by either conversion, whatever the upstream sends and however
   long, keeps the invariant. *)
THEOREM ClaudeInvariant == ClaudeSpec => []ClaudeInv
<1>1. ClaudeInv /\ [ClaudeNext]_claudeVars => ClaudeInv'
  BY ReadChunkKeeps, ElsewhereKeeps, TakeChunkKeeps, TakeEndKeeps, PumpChunkKeeps, ConvertPipedKeeps
     DEF ClaudeNext, ReadLine, Convert, PumpStep
<1> QED BY <1>1, ClaudeStarts, PTL DEF ClaudeSpec

(* The message has the shape a Claude client reads, by either conversion. *)
THEOREM MessagesWellFormed == ClaudeSpec => []BlocksAreWellFormed
<1>1. ClaudeInv => BlocksAreWellFormed
  <2> SUFFICES ASSUME ClaudeInv, NEW n \in Position
               PROVE  /\ out[n].ev = "delta" => \E m \in OpenAt(n) : out[m].index = out[n].index /\ out[m].of = out[n].of
                      /\ out[n].ev = "stop" => \E m \in OpenAt(n) : out[m].index = out[n].index
                      /\ out[n].ev = "message_stop" => n = Len(out) /\ \A m \in OpenAt(n) : out[m].of = "think"
                      /\ way = "direct" /\ out[n].ev = "start" =>
                           OpenAt(n) = {} /\ out[n].index = Cardinality(StartsBefore(n))
    BY DEF BlocksAreWellFormed
  <2>1. StartsBefore(n) = StartsIn(out, n)
    BY DEF StartsBefore, StartsIn, Position
  <2>2. ASSUME NEW i, NEW from PROVE IsStopped(i, from, n) <=> StoppedIn(out, i, from, n)
    BY DEF IsStopped, StoppedIn, Position
  <2>3. OpenAt(n) = OpenIn(out, n)
    BY <2>1, <2>2 DEF OpenAt, OpenIn
  <2>4. Shapely(out, n, way = "direct")
    BY DEF ClaudeInv, OutShapely, Position
  <2> QED BY <2>1, <2>3, <2>4 DEF Shapely
<1> QED BY <1>1, ClaudeInvariant, PTL

-----------------------------------------------------------------------------
(* Chat streams that are answered as Responses streams. First the output by
   itself: pieces that come add places to it, each behind all others. *)

Kinds == {"message", "reasoning", "tool"}
Texts == Seq(Nat)
Items == [kind : Kinds, call : 0..1, texts : Seq(Texts)]

(* What a piece is. *)
LEMMA PieceIs ==
  ASSUME NEW p \in Pieces
  PROVE  /\ p.kind \in Kinds /\ p.choice \in 0..1 /\ p.tool \in 0..1
         /\ p.kind = "tool" => p.choice = 0
         /\ p.kind # "tool" => p.tool = 0
BY DEF Pieces, Piece, Kinds

(* The places of an output. *)
LEMMA PlaceIs ==
  ASSUME NEW o, NEW a
  PROVE  a \in Places(o) <=>
           \E i \in DOMAIN o : \E t \in DOMAIN o[i].texts :
             \E k \in DOMAIN o[i].texts[t] : a = <<i, t, k>>
BY DEF Places

(* A place is one of an item's text. *)
IsPlace(o, a, i, t, k) ==
  /\ a = <<i, t, k>> /\ a[1] = i /\ a[2] = t /\ i \in Nat /\ t \in Nat /\ k \in Nat
  /\ i \in DOMAIN o /\ t \in DOMAIN o[i].texts
  /\ k \in DOMAIN o[i].texts[t] /\ 1 \in DOMAIN o[i].texts[t]

LEMMA PlaceIn ==
  ASSUME NEW o \in Seq(Items), NEW a \in Places(o)
  PROVE  \E i, t, k : IsPlace(o, a, i, t, k)
<1>1. PICK i \in DOMAIN o : \E t \in DOMAIN o[i].texts : \E k \in DOMAIN o[i].texts[t] : a = <<i, t, k>>
  BY PlaceIs
<1>2. o[i] \in Items /\ i \in Nat
  BY <1>1
<1>3. o[i].texts \in Seq(Texts)
  BY <1>2 DEF Items
<1>4. PICK t \in DOMAIN o[i].texts : \E k \in DOMAIN o[i].texts[t] : a = <<i, t, k>>
  BY <1>1
<1>5. o[i].texts[t] \in Texts /\ t \in Nat
  BY <1>3, <1>4
<1>6. PICK k \in DOMAIN o[i].texts[t] : a = <<i, t, k>>
  BY <1>4
<1>7. k \in Nat /\ 1 \in DOMAIN o[i].texts[t]
  BY <1>5, <1>6 DEF Texts
<1>8. IsPlace(o, a, i, t, k)
  BY <1>1, <1>2, <1>4, <1>5, <1>6, <1>7 DEF IsPlace
<1> QED BY <1>8

(* An output that has one more place, behind those of the other. *)
GainsPlace(o, q, w) ==
  /\ Places(q) = Places(o) \cup {w} /\ ~Precedes(w, w)
  /\ \A a \in Places(o) :
       /\ Precedes(a, w) /\ ~Precedes(w, a) /\ PieceAt(q, a) = PieceAt(o, a)
       /\ q[a[1]].kind = o[a[1]].kind /\ q[a[1]].call = o[a[1]].call
       /\ q[a[1]].texts[a[2]][1] = o[a[1]].texts[a[2]][1]

(* The piece at a place fits the item and the text it is in. *)
FitsPlace(q, w, pieces, p) ==
  LET first == q[w[1]].texts[w[2]][1] IN
  /\ PieceAt(q, w) = Len(pieces) + 1
  /\ p.kind = q[w[1]].kind /\ p.tool = q[w[1]].call
  /\ first = Len(pieces) + 1 \/ (first \in DOMAIN pieces /\ pieces[first].choice = p.choice)

(* The next piece, at a place behind all others. *)
LEMMA PieceAdded ==
  ASSUME NEW o \in Seq(Items), NEW q, NEW w, NEW pieces \in Seq(Pieces), NEW p \in Pieces,
         HoldsAll(o, pieces), GainsPlace(o, q, w), FitsPlace(q, w, pieces, p)
  PROVE  HoldsAll(q, Append(pieces, p))
<1> DEFINE n == Len(pieces) + 1
           more == Append(pieces, p)
<1>1. /\ n \in Nat /\ DOMAIN pieces = 1..(n - 1) /\ DOMAIN more = DOMAIN pieces \cup {n} /\ n \notin DOMAIN pieces
      /\ more[n] = p /\ \A m \in DOMAIN pieces : more[m] = pieces[m] /\ m \in Nat /\ m < n
  BY AppendProperties, LenProperties
<1>2. \A a \in Places(o) : PieceAt(o, a) \in DOMAIN pieces
  BY DEF HoldsAll
<1>3. \A a \in Places(o) : o[a[1]].texts[a[2]][1] \in DOMAIN pieces
  <2> SUFFICES ASSUME NEW a \in Places(o) PROVE o[a[1]].texts[a[2]][1] \in DOMAIN pieces
    OBVIOUS
  <2>1. PICK i, t, k : IsPlace(o, a, i, t, k)
    BY PlaceIn
  <2>2. <<i, t, 1>> \in Places(o)
    BY <2>1, PlaceIs DEF IsPlace
  <2>3. PieceAt(o, <<i, t, 1>>) = o[i].texts[t][1]
    BY DEF PieceAt
  <2> QED BY <1>2, <2>1, <2>2, <2>3 DEF IsPlace
<1> HIDE DEF n, more
<1>4. {PieceAt(q, a) : a \in Places(q)} = DOMAIN more
  <2>1. {PieceAt(q, a) : a \in Places(q)} = {PieceAt(q, a) : a \in Places(o)} \cup {PieceAt(q, w)}
    BY DEF GainsPlace
  <2>2. {PieceAt(q, a) : a \in Places(o)} = {PieceAt(o, a) : a \in Places(o)}
    BY DEF GainsPlace
  <2>3. {PieceAt(o, a) : a \in Places(o)} = DOMAIN pieces
    BY DEF HoldsAll
  <2> QED BY <1>1, <2>1, <2>2, <2>3 DEF n, FitsPlace
<1>5. \A a, b \in Places(q) : Precedes(a, b) => PieceAt(q, a) < PieceAt(q, b)
  <2> SUFFICES ASSUME NEW a \in Places(q), NEW b \in Places(q), Precedes(a, b)
               PROVE  PieceAt(q, a) < PieceAt(q, b)
    OBVIOUS
  <2>1. CASE a = w
    BY <2>1 DEF GainsPlace
  <2>2. CASE a \in Places(o) /\ b = w
    <3>1. PieceAt(q, a) = PieceAt(o, a) /\ PieceAt(o, a) \in DOMAIN pieces
      BY <1>2, <2>2 DEF GainsPlace
    <3>2. PieceAt(q, b) = n
      BY <2>2 DEF n, FitsPlace
    <3>3. \A m \in DOMAIN pieces : m < n
      BY <1>1
    <3> QED BY <3>1, <3>2, <3>3
  <2>3. CASE a \in Places(o) /\ b \in Places(o)
    <3>1. PieceAt(o, a) < PieceAt(o, b)
      BY <2>3 DEF HoldsAll
    <3> QED BY <2>3, <3>1 DEF GainsPlace
  <2> QED BY <2>1, <2>2, <2>3 DEF GainsPlace
<1>6. ASSUME NEW a \in Places(q)
      PROVE  LET x == more[PieceAt(q, a)]
                 item == q[a[1]]
             IN x.kind = item.kind /\ x.tool = item.call /\ x.choice = more[item.texts[a[2]][1]].choice
  <2>1. CASE a = w
    <3>1. more[PieceAt(q, w)] = p
      BY <1>1 DEF n, FitsPlace
    <3>2. more[q[w[1]].texts[w[2]][1]].choice = p.choice
      BY <1>1 DEF n, FitsPlace
    <3> QED BY <2>1, <3>1, <3>2 DEF FitsPlace
  <2>2. CASE a \in Places(o)
    <3>1. more[PieceAt(q, a)] = pieces[PieceAt(o, a)]
      BY <1>1, <1>2, <2>2 DEF GainsPlace
    <3>2. more[q[a[1]].texts[a[2]][1]] = pieces[o[a[1]].texts[a[2]][1]]
      BY <1>1, <1>3, <2>2 DEF GainsPlace
    <3>3. LET x == pieces[PieceAt(o, a)]
              item == o[a[1]]
          IN x.kind = item.kind /\ x.tool = item.call /\ x.choice = pieces[item.texts[a[2]][1]].choice
      BY <2>2 DEF HoldsAll
    <3> QED BY <2>2, <3>1, <3>2, <3>3 DEF GainsPlace
  <2> QED BY <2>1, <2>2 DEF GainsPlace
<1> QED BY <1>4, <1>5, <1>6 DEF HoldsAll, more

(* An item of an output. *)
Item(kind, tool, texts) == [kind |-> kind, call |-> tool, texts |-> texts]

(* What precedes a place. *)
LEMMA PlacesPrecede ==
  ASSUME NEW i \in Nat, NEW t \in Nat, NEW k \in Nat,
         NEW j \in Nat, NEW u \in Nat, NEW l \in Nat
  PROVE  Precedes(<<i, t, k>>, <<j, u, l>>) <=>
           i < j \/ (i = j /\ t < u) \/ (i = j /\ t = u /\ k < l)
<1> DEFINE a == <<i, t, k>>
           b == <<j, u, l>>
<1>1. a[1] = i /\ a[2] = t /\ a[3] = k /\ b[1] = j /\ b[2] = u /\ b[3] = l
  OBVIOUS
<1> HIDE DEF a, b
<1>2. Precedes(a, b) <=> i < j \/ (i = j /\ t < u) \/ (i = j /\ t = u /\ k < l)
  BY <1>1 DEF Precedes
<1> QED BY <1>2 DEF a, b

(* A new item with the piece. *)
LEMMA ItemAdded ==
  ASSUME NEW o \in Seq(Items), NEW pieces \in Seq(Pieces), NEW p \in Pieces, HoldsAll(o, pieces)
  PROVE  HoldsAll(Append(o, Item(p.kind, p.tool, << <<Len(pieces) + 1>> >>)), Append(pieces, p))
<1> DEFINE n == Len(pieces) + 1
           new == Item(p.kind, p.tool, << <<n>> >>)
           q == Append(o, new)
           last == Len(o) + 1
           w == <<last, 1, 1>>
<1>1. /\ Len(o) \in Nat /\ last \in Nat /\ DOMAIN q = 1..last /\ DOMAIN o = 1..Len(o)
      /\ q[last] = new /\ \A i \in 1..Len(o) : q[i] = o[i] /\ i \in 1..last /\ i \in Nat /\ i < last
  BY AppendProperties, LenProperties
<1>2. /\ new.kind = p.kind /\ new.call = p.tool /\ DOMAIN new.texts = 1..1
      /\ DOMAIN new.texts[1] = 1..1 /\ new.texts[1][1] = n
  BY DEF Item
<1> HIDE DEF n, new, q, last
<1>3. Places(q) = Places(o) \cup {w}
  <2>1. ASSUME NEW a \in Places(q) PROVE a \in Places(o) \cup {w}
    <3>1. PICK i \in DOMAIN q : \E t \in DOMAIN q[i].texts : \E k \in DOMAIN q[i].texts[t] : a = <<i, t, k>>
      BY <2>1, PlaceIs
    <3>2. CASE i = last
      <4>1. PICK t \in 1..1 : \E k \in DOMAIN new.texts[t] : a = <<i, t, k>>
        BY <1>1, <1>2, <3>1, <3>2
      <4>2. t = 1
        BY <4>1
      <4>3. PICK k \in 1..1 : a = <<i, t, k>>
        BY <1>2, <4>1, <4>2
      <4> QED BY <3>2, <4>2, <4>3
    <3>3. CASE i # last
      <4>1. i \in DOMAIN o /\ q[i] = o[i]
        BY <1>1, <3>1, <3>3 DEF last
      <4> QED BY <3>1, <4>1, PlaceIs
    <3> QED BY <3>2, <3>3
  <2>2. ASSUME NEW a \in Places(o) PROVE a \in Places(q)
    <3>1. PICK i \in DOMAIN o : \E t \in DOMAIN o[i].texts : \E k \in DOMAIN o[i].texts[t] : a = <<i, t, k>>
      BY <2>2, PlaceIs
    <3>2. i \in DOMAIN q /\ q[i] = o[i]
      BY <1>1, <3>1
    <3> QED BY <3>1, <3>2, PlaceIs
  <2>3. w \in Places(q)
    <3>1. last \in DOMAIN q
      BY <1>1 DEF last
    <3>2. 1 \in 1..1
      OBVIOUS
    <3>3. 1 \in DOMAIN q[last].texts /\ 1 \in DOMAIN q[last].texts[1]
      BY <1>1, <1>2, <3>2, Zenon
    <3> QED BY <3>1, <3>3, PlaceIs
  <2> QED BY <2>1, <2>2, <2>3
<1>4. ASSUME NEW a \in Places(o)
      PROVE  /\ Precedes(a, w) /\ ~Precedes(w, a) /\ PieceAt(q, a) = PieceAt(o, a)
             /\ q[a[1]].kind = o[a[1]].kind /\ q[a[1]].call = o[a[1]].call
             /\ q[a[1]].texts[a[2]][1] = o[a[1]].texts[a[2]][1]
  <2>1. PICK i, t, k : IsPlace(o, a, i, t, k)
    BY <1>4, PlaceIn
  <2>2. i \in Nat /\ q[i] = o[i] /\ i < last /\ ~(last < i) /\ i # last
    BY <1>1, <2>1 DEF IsPlace
  <2>3. Precedes(a, w) /\ ~Precedes(w, a)
    <3>1. 1 \in Nat
      OBVIOUS
    <3>2. Precedes(<<i, t, k>>, w)
      <4> DEFINE one == 1
      <4> HIDE DEF one
      <4>1. Precedes(<<i, t, k>>, <<last, one, one>>)
        BY <1>1, <2>1, <2>2, <3>1, PlacesPrecede DEF one, IsPlace
      <4> QED BY <4>1 DEF one
    <3>3. ~Precedes(w, <<i, t, k>>)
      BY <1>1, <2>1, <2>2, <3>1, PlacesPrecede DEF IsPlace
    <3> QED BY <2>1, <3>2, <3>3 DEF IsPlace
  <2>4. a[1] = i
    BY <2>1 DEF IsPlace
  <2> QED BY <2>2, <2>3, <2>4 DEF PieceAt
<1>5. ~Precedes(w, w) /\ PieceAt(q, w) = n /\ q[w[1]] = new /\ q[w[1]].texts[w[2]][1] = n
  BY <1>1, <1>2, PlacesPrecede DEF PieceAt
<1>6. GainsPlace(o, q, w)
  <2> HIDE DEF w
  <2> QED BY <1>3, <1>4, <1>5 DEF GainsPlace
<1>7. FitsPlace(q, w, pieces, p)
  <2> HIDE DEF w
  <2> QED BY <1>2, <1>5 DEF FitsPlace, n
<1>8. HoldsAll(q, Append(pieces, p))
  BY <1>6, <1>7, PieceAdded
<1> QED BY <1>8 DEF q, new, n

(* Texts that have one more place, behind those of the others. *)
GainsText(texts, more, t, k) ==
  /\ t \in DOMAIN more /\ k \in DOMAIN more[t]
  /\ \A u \in DOMAIN more : \A l \in DOMAIN more[u] :
       (u = t /\ l = k) \/ (u \in DOMAIN texts /\ l \in DOMAIN texts[u])
  /\ \A u \in DOMAIN texts : \A l \in DOMAIN texts[u] :
       /\ u \in DOMAIN more /\ l \in DOMAIN more[u] /\ more[u][l] = texts[u][l]
       /\ u < t \/ (u = t /\ l < k)

(* The last item gains what its texts gain. *)
LEMMA ItemGains ==
  ASSUME NEW before \in Seq(Items), NEW kind \in Kinds, NEW tool \in 0..1,
         NEW texts \in Seq(Texts), NEW more \in Seq(Texts), NEW t \in Nat, NEW k \in Nat,
         GainsText(texts, more, t, k)
  PROVE  GainsPlace(Append(before, Item(kind, tool, texts)), Append(before, Item(kind, tool, more)),
                    <<Len(before) + 1, t, k>>)
<1> DEFINE old == Item(kind, tool, texts)
           new == Item(kind, tool, more)
           o == Append(before, old)
           q == Append(before, new)
           last == Len(before) + 1
           w == <<last, t, k>>
<1>1. old \in Items /\ new \in Items
  BY DEF Item, Items
<1>2. /\ old.texts = texts /\ new.texts = more /\ old.kind = kind /\ new.kind = kind
      /\ old.call = tool /\ new.call = tool
  BY DEF Item
<1> HIDE DEF old, new
<1>3. /\ o \in Seq(Items) /\ q \in Seq(Items)
      /\ last \in Nat /\ DOMAIN q = 1..last /\ DOMAIN o = 1..last /\ q[last] = new /\ o[last] = old
      /\ Len(o) = last /\ \A i \in 1..last : i # last => q[i] = o[i] /\ i \in Nat /\ i < last
  BY <1>1, AppendProperties, LenProperties
<1> HIDE DEF o, q, last
<1>4. ASSUME NEW a \in Places(q) PROVE a \in Places(o) \cup {w}
  <2>1. PICK i \in DOMAIN q : \E u \in DOMAIN q[i].texts : \E l \in DOMAIN q[i].texts[u] : a = <<i, u, l>>
    BY <1>4, PlaceIs
  <2>2. CASE i = last
    <3>1. PICK u \in DOMAIN more : \E l \in DOMAIN more[u] : a = <<i, u, l>>
      BY <1>2, <1>3, <2>1, <2>2
    <3>2. PICK l \in DOMAIN more[u] : a = <<i, u, l>>
      BY <3>1
    <3>3. CASE u = t /\ l = k
      BY <2>2, <3>2, <3>3
    <3>4. CASE u \in DOMAIN texts /\ l \in DOMAIN texts[u]
      <4>1. last \in DOMAIN o /\ u \in DOMAIN o[last].texts /\ l \in DOMAIN o[last].texts[u]
        BY <1>2, <1>3, <2>1, <2>2, <3>4
      <4> QED BY <2>2, <3>2, <4>1, PlaceIs
    <3> QED BY <3>1, <3>2, <3>3, <3>4 DEF GainsText
  <2>3. CASE i # last
    <3>1. i \in DOMAIN o /\ q[i] = o[i]
      BY <1>3, <2>1, <2>3
    <3> QED BY <2>1, <3>1, PlaceIs
  <2> QED BY <2>2, <2>3
<1>5. w \in Places(q)
  <2>1. last \in DOMAIN q
    BY <1>3 DEF last
  <2>2. t \in DOMAIN q[last].texts /\ k \in DOMAIN q[last].texts[t]
    BY <1>2, <1>3 DEF GainsText
  <2> QED BY <2>1, <2>2, PlaceIs
<1>6. ~Precedes(w, w)
  BY <1>3, PlacesPrecede
<1>7. ASSUME NEW a \in Places(o)
      PROVE  /\ a \in Places(q)
             /\ Precedes(a, w) /\ ~Precedes(w, a) /\ PieceAt(q, a) = PieceAt(o, a)
             /\ q[a[1]].kind = o[a[1]].kind /\ q[a[1]].call = o[a[1]].call
             /\ q[a[1]].texts[a[2]][1] = o[a[1]].texts[a[2]][1]
  <2>1. PICK i, u, l : IsPlace(o, a, i, u, l)
    BY <1>3, <1>7, PlaceIn
  <2>2. i \in 1..last /\ i \in Nat /\ u \in Nat /\ l \in Nat
    BY <1>3, <2>1 DEF IsPlace
  <2>3. CASE i # last
    <3>1. q[i] = o[i] /\ i < last /\ i \in DOMAIN q
      BY <1>3, <2>2, <2>3
    <3>2. Precedes(<<i, u, l>>, w)
      BY <1>3, <2>2, <3>1, PlacesPrecede
    <3>3. a \in Places(q)
      BY <2>1, <3>1, PlaceIs DEF IsPlace
    <3>4. ~Precedes(w, <<i, u, l>>)
      <4>1. ~(last < i) /\ i # last
        BY <1>3, <2>2, <3>1
      <4> QED BY <1>3, <2>2, <4>1, PlacesPrecede
    <3> QED BY <2>1, <3>1, <3>2, <3>3, <3>4 DEF PieceAt, IsPlace
  <2>4. CASE i = last
    <3>1. q[i] = new /\ o[i] = old /\ i \in DOMAIN q
      BY <1>3, <2>2, <2>4
    <3>2. u \in DOMAIN texts /\ l \in DOMAIN texts[u] /\ 1 \in DOMAIN texts[u]
      BY <1>2, <2>1, <3>1 DEF IsPlace
    <3>3. /\ u \in DOMAIN more /\ l \in DOMAIN more[u] /\ more[u][l] = texts[u][l]
          /\ more[u][1] = texts[u][1] /\ (u < t \/ (u = t /\ l < k))
      BY <3>2 DEF GainsText
    <3>4. Precedes(<<i, u, l>>, w) /\ ~Precedes(w, <<i, u, l>>)
      <4>1. (u < t \/ (u = t /\ l < k)) /\ ~(t < u) /\ ~(t = u /\ k < l)
        BY <2>2, <3>3
      <4>2. last \in Nat /\ w = <<last, t, k>> /\ i = last /\ ~(last < i) /\ ~(i < last)
        BY <1>3, <2>4
      <4>3. Precedes(<<i, u, l>>, w)
        BY <2>2, <4>1, <4>2, PlacesPrecede
      <4>4. ~Precedes(w, <<i, u, l>>)
        BY <2>2, <4>1, <4>2, PlacesPrecede
      <4> QED BY <4>3, <4>4
    <3>5. a \in Places(q)
      BY <1>2, <2>1, <3>1, <3>3, PlaceIs DEF IsPlace
    <3>6. a[1] = i /\ a[2] = u /\ a[3] = l /\ a = <<i, u, l>>
      BY <2>1 DEF IsPlace
    <3> QED BY <1>2, <3>1, <3>3, <3>4, <3>5, <3>6 DEF PieceAt
  <2> QED BY <2>3, <2>4
<1>8. GainsPlace(o, q, w)
  <2>1. Places(q) = Places(o) \cup {w}
    BY <1>4, <1>5, <1>7
  <2> HIDE DEF w
  <2> QED BY <1>6, <1>7, <2>1 DEF GainsPlace
<1> QED BY <1>8 DEF o, q, last, old, new

(* Another text in the last item. *)
LEMMA TextAdded ==
  ASSUME NEW before \in Seq(Items), NEW texts \in Seq(Texts),
         NEW pieces \in Seq(Pieces), NEW p \in Pieces,
         HoldsAll(Append(before, Item(p.kind, p.tool, texts)), pieces)
  PROVE  HoldsAll(Append(before, Item(p.kind, p.tool, Append(texts, <<Len(pieces) + 1>>))),
                  Append(pieces, p))
<1> DEFINE n == Len(pieces) + 1
           more == Append(texts, <<n>>)
           t == Len(texts) + 1
           new == Item(p.kind, p.tool, more)
           o == Append(before, Item(p.kind, p.tool, texts))
           q == Append(before, new)
           w == <<Len(before) + 1, t, 1>>
<1>1. p.kind \in Kinds /\ p.tool \in 0..1 /\ n \in Nat /\ <<n>> \in Texts
  BY PieceIs, LenProperties DEF Texts
<1>2. /\ more \in Seq(Texts) /\ t \in Nat /\ DOMAIN more = 1..t /\ DOMAIN texts = 1..(t - 1)
      /\ more[t] = <<n>> /\ \A u \in 1..(t - 1) : more[u] = texts[u]
  BY <1>1, AppendProperties, LenProperties
<1> HIDE DEF n, more, t
<1>3. /\ t \in DOMAIN more /\ DOMAIN more[t] = {1} /\ more[t][1] = n
      /\ \A u \in DOMAIN more : u = t \/ u \in DOMAIN texts
      /\ \A u \in DOMAIN texts : u \in DOMAIN more /\ more[u] = texts[u] /\ u < t
  BY <1>2 DEF t
<1>4. GainsText(texts, more, t, 1)
  BY <1>3 DEF GainsText
<1>5. GainsPlace(o, q, w)
  BY <1>1, <1>2, <1>4, ItemGains
<1>6. o \in Seq(Items)
  <2>1. Item(p.kind, p.tool, texts) \in Items
    BY <1>1 DEF Item, Items
  <2> QED BY <2>1, AppendProperties
<1>7. FitsPlace(q, w, pieces, p)
  <2>1. new.texts = more /\ new.kind = p.kind /\ new.call = p.tool
    BY DEF Item
  <2> HIDE DEF new
  <2>2. q[Len(before) + 1] = new
    BY AppendProperties
  <2>3. w[1] = Len(before) + 1 /\ w[2] = t /\ w[3] = 1
    OBVIOUS
  <2> HIDE DEF w, q
  <2> QED BY <1>3, <2>1, <2>2, <2>3 DEF FitsPlace, PieceAt, n
<1>8. HoldsAll(q, Append(pieces, p))
  <2> HIDE DEF w, q, o
  <2> QED BY <1>5, <1>6, <1>7, PieceAdded DEF o
<1> QED BY <1>8 DEF more, n

(* A piece more in the last text of the last item. *)
LEMMA TextGrows ==
  ASSUME NEW before \in Seq(Items), NEW texts \in Seq(Texts), NEW x \in Texts, Len(x) >= 1,
         NEW pieces \in Seq(Pieces), NEW p \in Pieces,
         HoldsAll(Append(before, Item(p.kind, p.tool, Append(texts, x))), pieces),
         pieces[x[1]].choice = p.choice
  PROVE  HoldsAll(Append(before, Item(p.kind, p.tool, Append(texts, Append(x, Len(pieces) + 1)))),
                  Append(pieces, p))
<1> DEFINE n == Len(pieces) + 1
           y == Append(x, n)
           less == Append(texts, x)
           more == Append(texts, y)
           t == Len(texts) + 1
           k == Len(x) + 1
           old == Item(p.kind, p.tool, less)
           new == Item(p.kind, p.tool, more)
           o == Append(before, old)
           q == Append(before, new)
           last == Len(before) + 1
           w == <<last, t, k>>
<1>1. p.kind \in Kinds /\ p.tool \in 0..1 /\ n \in Nat
  BY PieceIs, LenProperties
<1>2. /\ y \in Texts /\ k \in Nat /\ DOMAIN y = 1..k /\ DOMAIN x = 1..(k - 1) /\ y[k] = n /\ k >= 2
      /\ \A l \in 1..(k - 1) : y[l] = x[l]
  BY <1>1, AppendProperties, LenProperties DEF Texts
<1> HIDE DEF y
<1>3. /\ more \in Seq(Texts) /\ less \in Seq(Texts) /\ t \in Nat
      /\ DOMAIN more = 1..t /\ DOMAIN less = 1..t
      /\ more[t] = y /\ less[t] = x /\ \A u \in 1..t : u # t => more[u] = less[u] /\ u < t
  BY <1>2, AppendProperties, LenProperties
<1> HIDE DEF n, more, less, t, k
<1>4. /\ t \in DOMAIN more /\ k \in DOMAIN more[t] /\ more[t][k] = n
      /\ more[t][1] = x[1] /\ 1 \in DOMAIN x /\ 1 \in DOMAIN less[t] /\ less[t][1] = x[1]
  BY <1>2, <1>3 DEF t
<1>5. GainsText(less, more, t, k)
  <2>1. ASSUME NEW u \in DOMAIN more, NEW l \in DOMAIN more[u]
        PROVE  (u = t /\ l = k) \/ (u \in DOMAIN less /\ l \in DOMAIN less[u])
    <3>1. CASE u = t
      <4>1. l \in 1..k /\ less[u] = x
        BY <1>2, <1>3, <2>1, <3>1
      <4> QED BY <1>2, <1>3, <3>1, <4>1
    <3>2. CASE u # t
      BY <1>3, <2>1, <3>2
    <3> QED BY <3>1, <3>2
  <2>2. ASSUME NEW u \in DOMAIN less, NEW l \in DOMAIN less[u]
        PROVE  /\ u \in DOMAIN more /\ l \in DOMAIN more[u] /\ more[u][l] = less[u][l]
               /\ u < t \/ (u = t /\ l < k)
    BY <1>2, <1>3, <2>2
  <2> QED BY <1>4, <2>1, <2>2 DEF GainsText
<1>6. GainsPlace(o, q, w)
  BY <1>1, <1>2, <1>3, <1>5, ItemGains
<1>7. o \in Seq(Items) /\ last \in Nat /\ o[last] = old /\ last \in DOMAIN o
  <2>1. old \in Items
    BY <1>1, <1>3 DEF Item, Items
  <2> HIDE DEF old
  <2> QED BY <2>1, AppendProperties, LenProperties
<1>8. x[1] \in DOMAIN pieces
  <2>1. old.texts = less
    BY DEF Item
  <2> HIDE DEF old, o, last
  <2>2. 1 \in DOMAIN o[last].texts[t] /\ t \in DOMAIN o[last].texts
    BY <1>3, <1>4, <1>7, <2>1
  <2>3. <<last, t, 1>> \in Places(o)
    BY <1>7, <2>2, PlaceIs
  <2>4. PieceAt(o, <<last, t, 1>>) = x[1]
    BY <1>4, <1>7, <2>1 DEF PieceAt
  <2>5. HoldsAll(o, pieces)
    BY DEF o, old, less
  <2>6. PieceAt(o, <<last, t, 1>>) \in DOMAIN pieces
    BY <2>3, <2>5 DEF HoldsAll
  <2> QED BY <2>4, <2>6
<1>9. FitsPlace(q, w, pieces, p)
  <2>1. new.texts = more /\ new.kind = p.kind /\ new.call = p.tool
    BY DEF Item
  <2> HIDE DEF new
  <2>2. q[Len(before) + 1] = new
    BY AppendProperties
  <2>3. w[1] = Len(before) + 1 /\ w[2] = t /\ w[3] = k
    OBVIOUS
  <2> HIDE DEF w, q
  <2> QED BY <1>4, <1>8, <2>1, <2>2, <2>3 DEF FitsPlace, PieceAt, n
<1>10. HoldsAll(o, pieces)
  BY DEF less
<1>11. HoldsAll(q, Append(pieces, p))
  <2> HIDE DEF w, q, o
  <2> QED BY <1>6, <1>7, <1>9, <1>10, PieceAdded
<1> QED BY <1>11 DEF more, y, n

-----------------------------------------------------------------------------
(* The converter: what a piece makes of its variables. *)

Converters ==
  [choice : 0..2, kind : Kinds \cup {Nothing}, tool : 0..1, at : Nat,
   item : Kinds \cup {Nothing}, call : 0..1, part : Seq(Texts), buffer : Texts,
   content : Seq(Texts), summary : Seq(Texts), output : Seq(Items), first : BOOLEAN]

(* The texts of the item at work, and the output as it would be if the stream
   ended now. *)
TextsOf(r) ==
  CASE r.item = "tool"      -> <<r.buffer>>
    [] r.item = "reasoning" -> r.summary \o r.part
    [] OTHER                -> r.content \o r.part
Finished(r) ==
  IF r.item = Nothing THEN r.output ELSE Append(r.output, Item(r.item, r.call, TextsOf(r)))

(* A text at work: whose pieces are of the choice that the converter is in. *)
Grows(x, r, pieces) ==
  Len(x) >= 1 /\ x[1] \in DOMAIN pieces /\ pieces[x[1]].choice = r.choice

(* The converter's variables between two chunks. *)
Fits(r, pieces) ==
  /\ r \in Converters /\ HoldsAll(Finished(r), pieces) /\ r.item = r.kind
  /\ r.item = Nothing => /\ pieces = <<>> /\ r.part = <<>> /\ r.call = 0
                         /\ r.content = <<>> /\ r.summary = <<>> /\ r.output = <<>>
  /\ r.item # "message" => r.content = <<>>
  /\ r.item # "reasoning" => r.summary = <<>>
  /\ r.item \in {"message", "reasoning"} => Len(r.part) = 1 /\ Grows(r.part[1], r, pieces) /\ r.call = 0
  /\ r.item = "tool" => r.part = <<>> /\ Grows(r.buffer, r, pieces) /\ r.choice = 0 /\ r.tool = r.call

(* A sequence of one text. *)
LEMMA OneText ==
  ASSUME NEW s \in Seq(Texts), Len(s) = 1, NEW n
  PROVE  /\ s[1] \in Texts /\ s = <<s[1]>> /\ [s EXCEPT ![1] = Append(@, n)] = <<Append(s[1], n)>>
         /\ \A c \in Seq(Texts) : c \o s = Append(c, s[1])
<1>1. s[1] \in Texts /\ DOMAIN s = 1..1
  OBVIOUS
<1>2. s = <<s[1]>>
  BY <1>1
<1>3. [s EXCEPT ![1] = Append(@, n)] = <<Append(s[1], n)>>
  BY <1>1
<1>4. ASSUME NEW c \in Seq(Texts) PROVE c \o s = Append(c, s[1])
  <2>1. /\ DOMAIN (c \o s) = 1..(Len(c) + 1) /\ Len(c) \in Nat /\ (c \o s)[Len(c) + 1] = s[1]
        /\ \A i \in 1..Len(c) : (c \o s)[i] = c[i]
    BY ConcatProperties, LenProperties
  <2>2. /\ DOMAIN Append(c, s[1]) = 1..(Len(c) + 1) /\ Append(c, s[1])[Len(c) + 1] = s[1]
        /\ \A i \in 1..Len(c) : Append(c, s[1])[i] = c[i]
    BY <1>1, AppendProperties, LenProperties
  <2>3. c \o s \in Seq(Texts) /\ Append(c, s[1]) \in Seq(Texts)
    BY <1>1
  <2> QED BY <2>1, <2>2, <2>3
<1> QED BY <1>1, <1>2, <1>3, <1>4

(* The output as it would be is one. *)
LEMMA FinishedType ==
  ASSUME NEW r \in Converters
  PROVE  TextsOf(r) \in Seq(Texts) /\ Finished(r) \in Seq(Items)
<1>1. TextsOf(r) \in Seq(Texts)
  BY DEF TextsOf, Converters
<1>2. r.item # Nothing => Item(r.item, r.call, TextsOf(r)) \in Items
  BY <1>1 DEF Item, Items, Converters
<1> QED BY <1>1, <1>2 DEF Finished, Converters

(* What the done of an item leaves. *)
LEMMA ItemDoneIs ==
  ASSUME NEW r, NEW pieces, Fits(r, pieces), r.item # Nothing
  PROVE  ItemDone(r) = [r EXCEPT !.item = Nothing, !.at = @ + 1, !.part = <<>>, !.content = <<>>,
                                 !.summary = <<>>, !.output = Finished(r)]
<1>1. r \in Converters /\ r.item = r.kind /\ r.item \in Kinds
  BY DEF Fits, Converters
<1>2. CASE r.item = "tool"
  <2>1. r.part = <<>> /\ r.content = <<>> /\ r.summary = <<>>
    BY <1>2 DEF Fits
  <2> QED BY <1>1, <1>2, <2>1 DEF ItemDone, Finished, TextsOf, Item, Converters
<1>3. CASE r.item = "reasoning"
  <2>1. r.content = <<>>
    BY <1>3 DEF Fits
  <2> QED BY <1>1, <1>3, <2>1 DEF ItemDone, PartDone, Finished, TextsOf, Item, Converters
<1>4. CASE r.item = "message"
  <2>1. r.summary = <<>>
    BY <1>4 DEF Fits
  <2> QED BY <1>1, <1>4, <2>1 DEF ItemDone, PartDone, Finished, TextsOf, Item, Converters
<1> QED BY <1>1, <1>2, <1>3, <1>4 DEF Kinds

(* The variables behind the done of an item. *)
LEMMA DoneIs ==
  ASSUME NEW r, NEW pieces, Fits(r, pieces)
  PROVE  LET d == Final(r) IN
           /\ d \in Converters /\ d.item = Nothing /\ d.output = Finished(r)
           /\ d.at = (IF r.item = Nothing THEN r.at ELSE r.at + 1)
           /\ d.choice = r.choice /\ d.kind = r.kind /\ d.tool = r.tool /\ d.call = r.call
           /\ d.part = <<>> /\ d.buffer = r.buffer /\ d.content = <<>> /\ d.summary = <<>>
           /\ d.first = r.first
<1> DEFINE f == Finished(r)
           next == r.at + 1
<1>1. r \in Converters /\ f \in Seq(Items)
  BY FinishedType DEF Fits
<1>2. next \in Nat /\ <<>> \in Seq(Texts)
  BY <1>1 DEF Converters
<1>3. CASE r.item = Nothing
  <2>1. Final(r) = r /\ f = r.output /\ r.part = <<>> /\ r.content = <<>> /\ r.summary = <<>>
    BY <1>3 DEF Final, Finished, Fits
  <2> QED BY <1>1, <1>3, <2>1
<1>4. CASE r.item # Nothing
  <2>1. Final(r) = [r EXCEPT !.item = Nothing, !.at = next, !.part = <<>>, !.content = <<>>,
                             !.summary = <<>>, !.output = f]
    BY <1>4, ItemDoneIs DEF Final
  <2> HIDE DEF f, next
  <2>2. /\ Final(r) \in Converters /\ Final(r).item = Nothing /\ Final(r).output = f
        /\ Final(r).at = next
        /\ Final(r).part = <<>> /\ Final(r).content = <<>> /\ Final(r).summary = <<>>
    BY <1>1, <1>2, <2>1 DEF Converters
  <2>3. /\ Final(r).choice = r.choice /\ Final(r).kind = r.kind /\ Final(r).tool = r.tool
        /\ Final(r).call = r.call /\ Final(r).buffer = r.buffer /\ Final(r).first = r.first
    BY <1>1, <2>1 DEF Converters
  <2> QED BY <1>4, <2>2, <2>3 DEF f, next
<1> QED BY <1>3, <1>4

(* Texts of one piece, and a text with a piece more. *)
LEMMA TextOf ==
  ASSUME NEW n \in Nat
  PROVE  /\ <<>> \in Texts /\ <<n>> \in Texts /\ <<>> \in Seq(Texts) /\ << <<>> >> \in Seq(Texts)
         /\ << <<n>> >> \in Seq(Texts) /\ Append(<<>>, n) = <<n>>
         /\ \A x \in Texts : Append(x, n) \in Texts
BY DEF Texts

(* The end of a piece's turn. *)
LEMMA TurnEnds ==
  ASSUME NEW a \in Converters, NEW p \in Pieces
  PROVE  LET x == [a EXCEPT !.choice = p.choice, !.kind = p.kind, !.first = FALSE] IN
           /\ x \in Converters /\ x.choice = p.choice /\ x.kind = p.kind
           /\ x.item = a.item /\ x.call = a.call /\ x.tool = a.tool /\ x.output = a.output /\ x.at = a.at
           /\ x.part = a.part /\ x.buffer = a.buffer /\ x.content = a.content /\ x.summary = a.summary
<1> DEFINE x == [a EXCEPT !.choice = p.choice, !.kind = p.kind, !.first = FALSE]
<1>1. p.choice \in 0..2 /\ p.kind \in Kinds \cup {Nothing}
  BY PieceIs
<1>2. x \in Converters
  BY <1>1 DEF Converters
<1>3. x.choice = p.choice /\ x.kind = p.kind /\ x.item = a.item /\ x.call = a.call /\ x.tool = a.tool
  BY DEF Converters
<1>4. x.output = a.output /\ x.at = a.at /\ x.part = a.part /\ x.buffer = a.buffer
  BY DEF Converters
<1>5. x.content = a.content /\ x.summary = a.summary
  BY DEF Converters
<1> QED BY <1>2, <1>3, <1>4, <1>5, Zenon

(* The new item that a piece takes. *)
LEMMA OpenedAnew ==
  ASSUME NEW r, NEW pieces, Fits(r, pieces), NEW p \in Pieces, NeedsItem(r, p)
  PROVE  LET o == Opened(r, p) IN
           /\ o \in Converters /\ o.item = p.kind /\ o.call = p.tool
           /\ (p.kind = "tool" => o.tool = p.tool /\ o.buffer = <<>>)
           /\ o.part = <<>> /\ o.content = <<>> /\ o.summary = <<>> /\ o.output = Finished(r)
           /\ o.at = (IF r.item = Nothing THEN r.at ELSE r.at + 1)
<1> DEFINE d == Final(r)
           o == Opened(r, p)
<1>1. p.kind \in Kinds /\ p.tool \in 0..1 /\ <<>> \in Texts
  BY PieceIs, TextOf
<1>2. /\ d \in Converters /\ d.item = Nothing /\ d.output = Finished(r)
      /\ d.at = (IF r.item = Nothing THEN r.at ELSE r.at + 1)
      /\ d.part = <<>> /\ d.content = <<>> /\ d.summary = <<>>
  BY DoneIs
<1>3. o = [d EXCEPT !.item = p.kind, !.call = p.tool,
                    !.tool = IF p.kind = "tool" THEN p.tool ELSE @,
                    !.buffer = IF p.kind = "tool" THEN <<>> ELSE @]
  BY DEF Opened, Final
<1> HIDE DEF d, o
<1>4. CASE p.kind = "tool"
  <2>1. o = [d EXCEPT !.item = p.kind, !.call = p.tool, !.tool = p.tool, !.buffer = <<>>]
    BY <1>2, <1>3, <1>4 DEF Converters
  <2>2. /\ o \in Converters /\ o.item = p.kind /\ o.call = p.tool /\ o.tool = p.tool
        /\ o.buffer = <<>> /\ o.output = d.output /\ o.at = d.at
        /\ o.part = <<>> /\ o.content = <<>> /\ o.summary = <<>>
    BY <1>1, <1>2, <2>1 DEF Converters
  <2> QED BY <1>2, <2>2 DEF o
<1>5. CASE p.kind # "tool"
  <2>1. o = [d EXCEPT !.item = p.kind, !.call = p.tool]
    BY <1>2, <1>3, <1>5 DEF Converters
  <2>2. /\ o \in Converters /\ o.item = p.kind /\ o.call = p.tool /\ o.output = d.output /\ o.at = d.at
        /\ o.part = <<>> /\ o.content = <<>> /\ o.summary = <<>>
    BY <1>1, <1>2, <2>1 DEF Converters
  <2> QED BY <1>2, <1>5, <2>2 DEF o
<1> QED BY <1>4, <1>5

(* A piece that takes a new item. *)
LEMMA ProcessedAnew ==
  ASSUME NEW r, NEW pieces, Fits(r, pieces), NEW p \in Pieces, NEW n \in Nat, NeedsItem(r, p)
  PROVE  LET x == Processed(r, p, n) IN
           /\ x \in Converters /\ x.item = p.kind /\ x.kind = p.kind /\ x.call = p.tool
           /\ x.choice = p.choice /\ (p.kind = "tool" => x.tool = p.tool /\ x.buffer = <<n>>)
           /\ x.part = (IF p.kind = "tool" THEN <<>> ELSE << <<n>> >>)
           /\ x.content = <<>> /\ x.summary = <<>> /\ x.output = Finished(r)
           /\ x.at = (IF r.item = Nothing THEN r.at ELSE r.at + 1)
<1> DEFINE o == Opened(r, p)
           a == Added(o, p, n)
           x == Processed(r, p, n)
<1>1. p.kind \in Kinds
  BY PieceIs
<1>2. /\ o \in Converters /\ o.item = p.kind /\ o.call = p.tool /\ o.output = Finished(r)
      /\ (p.kind = "tool" => o.tool = p.tool /\ o.buffer = <<>>)
      /\ o.part = <<>> /\ o.content = <<>> /\ o.summary = <<>>
      /\ o.at = (IF r.item = Nothing THEN r.at ELSE r.at + 1)
  BY OpenedAnew
<1>4. x = [a EXCEPT !.choice = p.choice, !.kind = p.kind, !.first = FALSE]
  BY DEF Processed
<1>5. a = IF p.kind = "tool" THEN [o EXCEPT !.buffer = Append(@, n)]
          ELSE [PartFor(o, p) EXCEPT !.part[1] = Append(@, n)]
  BY DEF Added
<1> HIDE DEF o, a, x
<1>6. CASE p.kind = "tool"
  <2>3. a = [o EXCEPT !.buffer = <<n>>]
    BY <1>2, <1>5, <1>6, TextOf
  <2>4. /\ a \in Converters /\ a.item = p.kind /\ a.call = p.tool /\ a.tool = p.tool
        /\ a.buffer = <<n>> /\ a.output = o.output /\ a.at = o.at
        /\ a.part = <<>> /\ a.content = <<>> /\ a.summary = <<>>
    BY <1>2, <1>6, <2>3, TextOf DEF Converters
  <2>5. /\ x \in Converters /\ x.item = p.kind /\ x.kind = p.kind /\ x.call = p.tool /\ x.choice = p.choice
        /\ x.tool = p.tool /\ x.buffer = <<n>> /\ x.output = o.output /\ x.at = o.at
        /\ x.part = <<>> /\ x.content = <<>> /\ x.summary = <<>>
    BY <1>4, <2>4, TurnEnds
  <2> QED BY <1>2, <1>6, <2>5 DEF x
<1>7. CASE p.kind # "tool"
  <2>3. LET e == PartDone([o EXCEPT !.kind = p.kind]) IN
          /\ e \in Converters /\ e.item = p.kind /\ e.call = p.tool /\ e.output = o.output /\ e.at = o.at
          /\ e.part = <<>> /\ e.content = <<>> /\ e.summary = <<>>
    <3> DEFINE k == [o EXCEPT !.kind = p.kind]
               e == PartDone(k)
    <3>1. /\ k \in Converters /\ k.item = p.kind /\ k.call = p.tool /\ k.output = o.output /\ k.at = o.at
          /\ k.part = <<>> /\ k.content = <<>> /\ k.summary = <<>>
      BY <1>1, <1>2 DEF Converters
    <3> HIDE DEF k
    <3>2. k.content \o k.part = <<>> /\ k.summary \o k.part = <<>>
      BY <3>1
    <3>3. e = k
      BY <3>1, <3>2 DEF PartDone, Converters
    <3> HIDE DEF e
    <3>4. /\ e \in Converters /\ e.item = p.kind /\ e.call = p.tool /\ e.output = o.output /\ e.at = o.at
          /\ e.part = <<>> /\ e.content = <<>> /\ e.summary = <<>>
      BY <3>1, <3>3
    <3> QED BY <3>4 DEF e, k
  <2>4. PICK e : /\ PartFor(o, p) = [e EXCEPT !.part = << <<>> >>]
                 /\ e \in Converters /\ e.item = p.kind /\ e.call = p.tool /\ e.output = o.output
                 /\ e.at = o.at /\ e.content = <<>> /\ e.summary = <<>>
    BY <1>2, <2>3 DEF PartFor
  <2>5. a = [e EXCEPT !.part = << <<n>> >>]
    <3>1. [PartFor(o, p) EXCEPT !.part[1] = Append(@, n)] =
            [e EXCEPT !.part = [<< <<>> >> EXCEPT ![1] = Append(@, n)]]
      BY <2>4 DEF Converters
    <3>2. [<< <<>> >> EXCEPT ![1] = Append(@, n)] = << <<n>> >>
      BY TextOf
    <3> QED BY <1>5, <1>7, <3>1, <3>2
  <2>6. /\ a \in Converters /\ a.item = p.kind /\ a.call = p.tool /\ a.output = o.output /\ a.at = o.at
        /\ a.part = << <<n>> >> /\ a.content = <<>> /\ a.summary = <<>>
    BY <2>4, <2>5, TextOf DEF Converters
  <2>7. /\ x \in Converters /\ x.item = p.kind /\ x.kind = p.kind /\ x.call = p.tool /\ x.choice = p.choice
        /\ x.output = o.output /\ x.at = o.at
        /\ x.part = << <<n>> >> /\ x.content = <<>> /\ x.summary = <<>>
    BY <1>4, <2>6, TurnEnds
  <2> QED BY <1>2, <1>7, <2>7 DEF x
<1> QED BY <1>6, <1>7

(* The piece belongs to the item at work. *)
Continues(r, p, n, x) ==
  /\ x \in Converters /\ x.item = r.item /\ x.kind = r.kind /\ x.call = r.call /\ x.tool = r.tool
  /\ x.output = r.output /\ x.at = r.at /\ x.choice = p.choice

(* A piece of the call at work. *)
LEMMA ProcessedCall ==
  ASSUME NEW r, NEW pieces, Fits(r, pieces), NEW p \in Pieces, NEW n \in Nat,
         ~NeedsItem(r, p), p.kind = "tool"
  PROVE  LET x == Processed(r, p, n) IN
           /\ Continues(r, p, n, x) /\ x.buffer = Append(r.buffer, n)
           /\ x.part = r.part /\ x.content = r.content /\ x.summary = r.summary
<1> DEFINE b == Append(r.buffer, n)
           x == Processed(r, p, n)
<1>1. r \in Converters /\ r.item = "tool" /\ r.kind = "tool" /\ r.choice = 0 /\ p.choice = 0
  BY PieceIs DEF Fits, NeedsItem
<1>2. b \in Texts
  BY <1>1, TextOf DEF Converters
<1>3. x = [[r EXCEPT !.buffer = b] EXCEPT !.choice = p.choice, !.kind = p.kind, !.first = FALSE]
  BY <1>1 DEF Processed, Opened, Added, Converters
<1> HIDE DEF b, x
<1>4. /\ x \in Converters /\ x.item = r.item /\ x.kind = r.kind /\ x.call = r.call /\ x.tool = r.tool
      /\ x.output = r.output /\ x.at = r.at /\ x.choice = p.choice /\ x.buffer = b
      /\ x.part = r.part /\ x.content = r.content /\ x.summary = r.summary
  BY <1>1, <1>2, <1>3 DEF Converters
<1> QED BY <1>4 DEF Continues, b, x

(* A piece of the part at work. *)
LEMMA ProcessedSame ==
  ASSUME NEW r, NEW pieces, Fits(r, pieces), NEW p \in Pieces, NEW n \in Nat, ~NeedsItem(r, p),
         p.kind # "tool", r.choice = p.choice
  PROVE  LET x == Processed(r, p, n) IN
           /\ Continues(r, p, n, x) /\ x.part = <<Append(r.part[1], n)>>
           /\ x.content = r.content /\ x.summary = r.summary
<1> DEFINE t == <<Append(r.part[1], n)>>
           x == Processed(r, p, n)
<1>1. /\ r \in Converters /\ r.kind = p.kind /\ r.part \in Seq(Texts) /\ Len(r.part) = 1
      /\ [r.part EXCEPT ![1] = Append(@, n)] = t /\ t \in Seq(Texts) /\ r.part # <<>>
  <2>1. r \in Converters /\ r.kind = p.kind /\ r.item \in {"message", "reasoning"}
    BY PieceIs DEF Fits, NeedsItem, Kinds
  <2>2. r.part \in Seq(Texts) /\ Len(r.part) = 1
    BY <2>1 DEF Fits, Converters
  <2>3. r.part[1] \in Texts
    BY <2>2
  <2>4. Append(r.part[1], n) \in Texts
    BY <2>3, TextOf
  <2> QED BY <2>1, <2>2, <2>4, OneText
<1>2. Opened(r, p) = r /\ PartFor(r, p) = r
  BY <1>1 DEF Opened, PartFor
<1>3. Added(r, p, n) = [r EXCEPT !.part = t]
  BY <1>1, <1>2 DEF Added, Converters
<1>4. x = [[r EXCEPT !.part = t] EXCEPT !.choice = p.choice, !.kind = p.kind, !.first = FALSE]
  BY <1>2, <1>3 DEF Processed
<1> HIDE DEF t, x
<1>5. /\ x \in Converters /\ x.item = r.item /\ x.kind = r.kind /\ x.call = r.call /\ x.tool = r.tool
      /\ x.output = r.output /\ x.at = r.at /\ x.choice = p.choice /\ x.part = t
      /\ x.content = r.content /\ x.summary = r.summary
  BY <1>1, <1>4 DEF Converters
<1> QED BY <1>5 DEF Continues, t, x

(* A piece of another choice. *)
LEMMA ProcessedOther ==
  ASSUME NEW r, NEW pieces, Fits(r, pieces), NEW p \in Pieces, NEW n \in Nat, ~NeedsItem(r, p),
         p.kind # "tool", r.choice # p.choice
  PROVE  LET x == Processed(r, p, n) IN
           /\ Continues(r, p, n, x) /\ x.part = << <<n>> >>
           /\ x.content = (IF p.kind = "message" THEN r.content \o r.part ELSE r.content)
           /\ x.summary = (IF p.kind = "message" THEN r.summary ELSE r.summary \o r.part)
<1> DEFINE c == IF p.kind = "message" THEN r.content \o r.part ELSE r.content
           s == IF p.kind = "message" THEN r.summary ELSE r.summary \o r.part
           x == Processed(r, p, n)
<1>1. /\ r \in Converters /\ r.kind = p.kind /\ c \in Seq(Texts) /\ s \in Seq(Texts)
      /\ << <<n>> >> \in Seq(Texts) /\ p.choice \in 0..1
  BY PieceIs, TextOf DEF Fits, NeedsItem, Converters
<1>2. Opened(r, p) = r
  BY DEF Opened
<1>3. [r EXCEPT !.kind = p.kind] = r
  BY <1>1 DEF Converters
<1>4. PartDone(r) = [r EXCEPT !.part = <<>>, !.content = c, !.summary = s]
  BY <1>1 DEF PartDone, Converters
<1> HIDE DEF c, s
<1>5. PartFor(r, p) = [r EXCEPT !.part = << <<>> >>, !.content = c, !.summary = s]
  BY <1>1, <1>3, <1>4 DEF PartFor, Converters
<1>6. [<< <<>> >> EXCEPT ![1] = Append(@, n)] = << <<n>> >>
  BY TextOf
<1>7. Added(r, p, n) = [r EXCEPT !.part = << <<n>> >>, !.content = c, !.summary = s]
  <2>1. [PartFor(r, p) EXCEPT !.part[1] = Append(@, n)] =
          [r EXCEPT !.part = [<< <<>> >> EXCEPT ![1] = Append(@, n)], !.content = c, !.summary = s]
    BY <1>1, <1>5 DEF Converters
  <2> QED BY <1>6, <2>1 DEF Added
<1> DEFINE a == [r EXCEPT !.part = << <<n>> >>, !.content = c, !.summary = s]
<1>8. x = [a EXCEPT !.choice = p.choice, !.kind = p.kind, !.first = FALSE]
  BY <1>2, <1>7 DEF Processed
<1>10. /\ a \in Converters /\ a.item = r.item /\ a.kind = r.kind /\ a.call = r.call /\ a.tool = r.tool
       /\ a.output = r.output /\ a.at = r.at /\ a.part = << <<n>> >> /\ a.content = c /\ a.summary = s
  BY <1>1 DEF Converters
<1> HIDE DEF x, a
<1>9. /\ x \in Converters /\ x.item = r.item /\ x.kind = r.kind /\ x.call = r.call /\ x.tool = r.tool
      /\ x.output = r.output /\ x.at = r.at /\ x.choice = p.choice /\ x.part = << <<n>> >>
      /\ x.content = c /\ x.summary = s
  <2> DEFINE y == [a EXCEPT !.choice = p.choice, !.kind = p.kind, !.first = FALSE]
  <2>1. /\ y \in Converters /\ y.choice = p.choice /\ y.kind = p.kind
        /\ y.item = a.item /\ y.call = a.call /\ y.tool = a.tool /\ y.output = a.output
        /\ y.at = a.at /\ y.part = a.part /\ y.content = a.content /\ y.summary = a.summary
    BY <1>10, TurnEnds
  <2>2. x = y
    BY <1>8
  <2> HIDE DEF y
  <2> QED BY <1>1, <1>10, <2>1, <2>2
<1> QED BY <1>9 DEF Continues, c, s, x

(* The text at work behind a piece more. *)
LEMMA GrowsMore ==
  ASSUME NEW pieces \in Seq(Pieces), NEW p \in Pieces
  PROVE  LET n == Len(pieces) + 1
             more == Append(pieces, p)
         IN /\ n \in Nat
            /\ \A x : x.choice = p.choice => Grows(<<n>>, x, more)
            /\ \A r, x : \A t \in Texts :
                 Grows(t, r, pieces) /\ x.choice = r.choice => Grows(Append(t, n), x, more)
<1> DEFINE n == Len(pieces) + 1
           more == Append(pieces, p)
<1>1. /\ n \in Nat /\ n >= 1 /\ DOMAIN pieces = 1..(n - 1) /\ DOMAIN more = 1..n
      /\ more[n] = p /\ \A m \in DOMAIN pieces : more[m] = pieces[m] /\ m \in DOMAIN more
  BY AppendProperties, LenProperties
<1> HIDE DEF n, more
<1>2. ASSUME NEW x, x.choice = p.choice PROVE Grows(<<n>>, x, more)
  <2>1. Len(<<n>>) = 1 /\ <<n>>[1] = n
    OBVIOUS
  <2> QED BY <1>1, <1>2, <2>1 DEF Grows
<1>3. ASSUME NEW r, NEW x, NEW t \in Texts, Grows(t, r, pieces), x.choice = r.choice
      PROVE  Grows(Append(t, n), x, more)
  <2>1. Len(Append(t, n)) >= 1 /\ Append(t, n)[1] = t[1]
    BY <1>1, <1>3 DEF Grows, Texts
  <2> QED BY <1>1, <1>3, <2>1 DEF Grows
<1> QED BY <1>1, <1>2, <1>3 DEF n, more

(* The variables in an item with a part, and in one of a call. *)
LEMMA FitsInPart ==
  ASSUME NEW x \in Converters, NEW pieces, HoldsAll(Finished(x), pieces), x.item = x.kind,
         x.item \in {"message", "reasoning"}, x.call = 0,
         x.item # "message" => x.content = <<>>, x.item # "reasoning" => x.summary = <<>>,
         Len(x.part) = 1, Grows(x.part[1], x, pieces)
  PROVE  Fits(x, pieces)
BY DEF Fits, Nothing

LEMMA FitsInCall ==
  ASSUME NEW x \in Converters, NEW pieces, HoldsAll(Finished(x), pieces), x.item = x.kind,
         x.item = "tool", x.content = <<>>, x.summary = <<>>, x.part = <<>>,
         Grows(x.buffer, x, pieces), x.choice = 0, x.tool = x.call
  PROVE  Fits(x, pieces)
BY DEF Fits, Nothing

(* A piece leaves the variables fit. *)
LEMMA PieceFits ==
  ASSUME NEW r, NEW pieces \in Seq(Pieces), NEW p \in Pieces, Fits(r, pieces)
  PROVE  Fits(Processed(r, p, Len(pieces) + 1), Append(pieces, p))
<1> DEFINE n == Len(pieces) + 1
           more == Append(pieces, p)
           x == Processed(r, p, n)
<1>1. /\ n \in Nat /\ p.kind \in Kinds /\ p.tool \in 0..1 /\ p.kind # Nothing
      /\ p.kind = "tool" => p.choice = 0
      /\ p.kind # "tool" => p.tool = 0 /\ p.kind \in {"message", "reasoning"}
  BY PieceIs, LenProperties DEF Kinds, Nothing
<1>2. /\ r \in Converters /\ Finished(r) \in Seq(Items) /\ HoldsAll(Finished(r), pieces)
      /\ TextsOf(r) \in Seq(Texts) /\ r.item = r.kind
  BY FinishedType DEF Fits
<1>3. /\ \A a : a.choice = p.choice => Grows(<<n>>, a, more)
      /\ \A a : \A t \in Texts : Grows(t, r, pieces) /\ a.choice = r.choice => Grows(Append(t, n), a, more)
  BY GrowsMore
<1>4. CASE NeedsItem(r, p)
  <2>1. /\ x \in Converters /\ x.item = p.kind /\ x.kind = p.kind /\ x.call = p.tool
        /\ x.choice = p.choice /\ (p.kind = "tool" => x.tool = p.tool /\ x.buffer = <<n>>)
        /\ x.part = (IF p.kind = "tool" THEN <<>> ELSE << <<n>> >>)
        /\ x.content = <<>> /\ x.summary = <<>> /\ x.output = Finished(r)
    BY <1>1, <1>4, ProcessedAnew
  <2>2. HoldsAll(Append(Finished(r), Item(p.kind, p.tool, << <<n>> >>)), more)
    BY <1>2, ItemAdded
  <2> HIDE DEF n, x, more
  <2>3. TextsOf(x) = << <<n>> >>
    BY <2>1 DEF TextsOf
  <2>4. HoldsAll(Finished(x), more)
    BY <1>1, <2>1, <2>2, <2>3 DEF Finished
  <2>5. p.kind # "tool" => Len(x.part) = 1 /\ x.part[1] = <<n>>
    BY <2>1
  <2>6. CASE p.kind = "tool"
    <3>1. x.part = <<>> /\ Grows(x.buffer, x, more) /\ x.tool = x.call /\ x.choice = 0 /\ x.item = "tool"
      BY <1>1, <1>3, <2>1, <2>6
    <3> QED BY <2>1, <2>4, <3>1, FitsInCall DEF x, more, n
  <2>7. CASE p.kind # "tool"
    <3>1. Len(x.part) = 1 /\ Grows(x.part[1], x, more) /\ x.call = 0 /\ x.item \in {"message", "reasoning"}
      BY <1>1, <1>3, <2>1, <2>5, <2>7
    <3> QED BY <2>1, <2>4, <3>1, FitsInPart DEF x, more, n
  <2> QED BY <2>6, <2>7
<1>5. CASE ~NeedsItem(r, p) /\ p.kind = "tool"
  <2>1. Continues(r, p, n, x) /\ x.buffer = Append(r.buffer, n)
        /\ x.part = r.part /\ x.content = r.content /\ x.summary = r.summary
    BY <1>1, <1>5, ProcessedCall
  <2>2. /\ r.item = "tool" /\ r.tool = p.tool /\ r.call = p.tool /\ r.choice = p.choice
        /\ r.part = <<>> /\ Grows(r.buffer, r, pieces) /\ r.content = <<>> /\ r.summary = <<>>
        /\ r.buffer \in Texts /\ r.output \in Seq(Items)
    BY <1>1, <1>5 DEF Fits, NeedsItem, Converters
  <2>3. Finished(r) = Append(r.output, Item(p.kind, p.tool, Append(<<>>, r.buffer)))
    BY <1>1, <1>5, <2>2 DEF Finished, TextsOf
  <2>4. HoldsAll(Append(r.output, Item(p.kind, p.tool, Append(<<>>, Append(r.buffer, n)))), more)
    <3>1. <<>> \in Seq(Texts) /\ Len(r.buffer) >= 1 /\ pieces[r.buffer[1]].choice = p.choice
      BY <2>2, TextOf DEF Grows
    <3>2. HoldsAll(Append(r.output, Item(p.kind, p.tool, Append(<<>>, r.buffer))), pieces)
      BY <1>2, <2>3
    <3> QED BY <2>2, <3>1, <3>2, TextGrows
  <2> HIDE DEF n, x, more
  <2>5. x.item = "tool" /\ x.call = p.tool /\ x.output = r.output /\ TextsOf(x) = <<x.buffer>>
    BY <2>1, <2>2 DEF TextsOf, Continues
  <2>6. HoldsAll(Finished(x), more)
    BY <1>1, <1>5, <2>1, <2>4, <2>5 DEF Finished
  <2>7. Grows(x.buffer, x, more)
    BY <1>3, <2>1, <2>2 DEF Continues
  <2>8. /\ x \in Converters /\ x.item = x.kind /\ x.content = <<>> /\ x.summary = <<>> /\ x.part = <<>>
        /\ x.choice = 0 /\ x.tool = x.call
    BY <1>1, <1>2, <1>5, <2>1, <2>2, <2>5 DEF Continues
  <2> QED BY <2>5, <2>6, <2>7, <2>8, FitsInCall DEF x, more, n
<1>6. CASE ~NeedsItem(r, p) /\ p.kind # "tool"
  <2>1. /\ r.item = p.kind /\ r.call = p.tool /\ r.part \in Seq(Texts) /\ Len(r.part) = 1
        /\ Grows(r.part[1], r, pieces) /\ r.output \in Seq(Items)
        /\ r.content \in Seq(Texts) /\ r.summary \in Seq(Texts)
        /\ r.item # "message" => r.content = <<>>
        /\ r.item # "reasoning" => r.summary = <<>>
    BY <1>1, <1>6 DEF Fits, NeedsItem, Converters
  <2>2. /\ r.part[1] \in Texts /\ r.part = <<r.part[1]>>
        /\ \A c \in Seq(Texts) : c \o r.part = Append(c, r.part[1])
    BY <2>1, OneText
  <2> DEFINE closed == IF p.kind = "message" THEN r.content ELSE r.summary
  <2>3. closed \in Seq(Texts) /\ TextsOf(r) = Append(closed, r.part[1])
    BY <1>1, <1>6, <2>1, <2>2 DEF TextsOf
  <2>4. Finished(r) = Append(r.output, Item(p.kind, p.tool, Append(closed, r.part[1])))
    BY <1>1, <2>1, <2>3 DEF Finished
  <2>5. CASE r.choice = p.choice
    <3>1. Continues(r, p, n, x) /\ x.part = <<Append(r.part[1], n)>>
          /\ x.content = r.content /\ x.summary = r.summary
      BY <1>1, <1>6, <2>5, ProcessedSame
    <3>2. HoldsAll(Append(r.output, Item(p.kind, p.tool, Append(closed, Append(r.part[1], n)))), more)
      <4>1. Len(r.part[1]) >= 1 /\ pieces[r.part[1][1]].choice = p.choice
        BY <2>1, <2>5 DEF Grows
      <4>2. HoldsAll(Append(r.output, Item(p.kind, p.tool, Append(closed, r.part[1]))), pieces)
        BY <1>2, <2>4
      <4> HIDE DEF closed
      <4> QED BY <2>1, <2>2, <2>3, <4>1, <4>2, TextGrows
    <3>3. Append(r.part[1], n) \in Texts
      BY <1>1, <2>2, TextOf
    <3> HIDE DEF n, x, more
    <3>4. x.part \in Seq(Texts) /\ Len(x.part) = 1 /\ x.part[1] = Append(r.part[1], n)
      BY <3>1, <3>3
    <3>5. TextsOf(x) = Append(closed, Append(r.part[1], n))
      <4>1. closed \o x.part = Append(closed, x.part[1])
        BY <2>3, <3>4, OneText
      <4> QED BY <1>1, <1>6, <2>1, <3>1, <3>4, <4>1 DEF TextsOf, Continues
    <3>6. HoldsAll(Finished(x), more)
      BY <1>1, <2>1, <3>1, <3>2, <3>5 DEF Finished, Continues
    <3>7. Grows(x.part[1], x, more)
      BY <1>3, <2>1, <2>2, <2>5, <3>1, <3>4 DEF Continues
    <3>8. /\ x \in Converters /\ x.item = x.kind /\ x.item \in {"message", "reasoning"} /\ x.call = 0
          /\ (x.item # "message" => x.content = <<>>) /\ (x.item # "reasoning" => x.summary = <<>>)
      BY <1>1, <1>2, <1>6, <2>1, <3>1 DEF Continues
    <3> QED BY <3>4, <3>6, <3>7, <3>8, FitsInPart DEF x, more, n
  <2>6. CASE r.choice # p.choice
    <3>1. Continues(r, p, n, x) /\ x.part = << <<n>> >>
          /\ x.content = (IF p.kind = "message" THEN r.content \o r.part ELSE r.content)
          /\ x.summary = (IF p.kind = "message" THEN r.summary ELSE r.summary \o r.part)
      BY <1>1, <1>6, <2>6, ProcessedOther
    <3> DEFINE closedNow == Append(closed, r.part[1])
    <3>2. closedNow \in Seq(Texts)
      BY <2>2, <2>3
    <3>3. HoldsAll(Append(r.output, Item(p.kind, p.tool, Append(closedNow, <<n>>))), more)
      <4>1. HoldsAll(Append(r.output, Item(p.kind, p.tool, closedNow)), pieces)
        BY <1>2, <2>4
      <4> HIDE DEF closedNow
      <4> QED BY <2>1, <3>2, <4>1, TextAdded
    <3>4. << <<n>> >> \in Seq(Texts)
      BY <1>1, TextOf
    <3> HIDE DEF n, x, more
    <3>5. x.part \in Seq(Texts) /\ Len(x.part) = 1 /\ x.part[1] = <<n>>
      BY <3>1, <3>4
    <3>6. TextsOf(x) = Append(closedNow, <<n>>)
      <4>1. closedNow \o x.part = Append(closedNow, x.part[1])
        BY <3>2, <3>5, OneText
      <4>2. (IF p.kind = "message" THEN x.content ELSE x.summary) = closedNow
        BY <2>1, <2>2, <3>1
      <4> HIDE DEF closedNow
      <4> QED BY <1>1, <1>6, <2>1, <3>1, <3>5, <4>1, <4>2 DEF TextsOf, Continues
    <3>7. HoldsAll(Finished(x), more)
      <4> HIDE DEF closedNow
      <4> QED BY <1>1, <2>1, <3>1, <3>3, <3>6 DEF Finished, Continues
    <3>8. Grows(x.part[1], x, more)
      BY <1>3, <3>1, <3>5 DEF Continues
    <3>9. /\ x \in Converters /\ x.item = x.kind /\ x.item \in {"message", "reasoning"} /\ x.call = 0
          /\ (x.item # "message" => x.content = <<>>) /\ (x.item # "reasoning" => x.summary = <<>>)
      BY <1>1, <1>2, <1>6, <2>1, <3>1 DEF Continues
    <3> QED BY <3>5, <3>7, <3>8, <3>9, FitsInPart DEF x, more, n
  <2> QED BY <2>5, <2>6
<1> QED BY <1>4, <1>5, <1>6

-----------------------------------------------------------------------------
(* The events, as a reader counts them. *)

EventNames ==
  {"created", "in_progress", "item_added", "part_added", "delta", "part_done",
   "arguments_done", "item_done", "error", "response_ends"}
ResponseEvents == [ev : EventNames, at : Nat, piece : Nat]

(* HowMany of a sequence of events. *)
Many(s, ev, n) == Cardinality({k \in 1..n : s[k].ev = ev})

(* What EventsNest says of the events before the end. *)
NestsAt(s, n, pieces) ==
  LET e == s[n] IN
  /\ e.ev \in {"delta", "part_added", "part_done", "arguments_done", "item_done"} =>
       Many(s, "item_added", n - 1) = e.at + 1 /\ Many(s, "item_done", n - 1) = e.at
  /\ e.ev = "item_added" => Many(s, "item_added", n - 1) = Many(s, "item_done", n - 1)
  /\ e.ev = "delta" =>
       /\ e.piece \in DOMAIN pieces /\ Many(s, "delta", n) = e.piece
       /\ pieces[e.piece].kind = "tool"
          \/ Many(s, "part_added", n) = Many(s, "part_done", n) + 1
  /\ e.ev = "item_done" => Many(s, "part_added", n) = Many(s, "part_done", n)
  /\ e.ev # "response_ends"

(* A reader of the events s has seen items added and done, so many parts that
   are open and so many pieces told. *)
Reads(s, pieces, added, done, open, told) ==
  /\ s \in Seq(ResponseEvents) /\ \A n \in DOMAIN s : NestsAt(s, n, pieces)
  /\ Many(s, "item_added", Len(s)) = added /\ Many(s, "item_done", Len(s)) = done
  /\ Many(s, "delta", Len(s)) = told
  /\ Many(s, "part_added", Len(s)) = Many(s, "part_done", Len(s)) + open

(* Counting an event more. *)
LEMMA ManyAppend ==
  ASSUME NEW s \in Seq(ResponseEvents), NEW e \in ResponseEvents, NEW ev
  PROVE  /\ \A n \in 0..Len(s) : Many(Append(s, e), ev, n) = Many(s, ev, n) /\ Many(s, ev, n) \in Nat
         /\ Many(Append(s, e), ev, Len(s) + 1) = Many(s, ev, Len(s)) + (IF e.ev = ev THEN 1 ELSE 0)
<1> DEFINE x == Append(s, e)
           all == {k \in 1..Len(s) : s[k].ev = ev}
<1>1. /\ Len(s) \in Nat /\ DOMAIN s = 1..Len(s) /\ x[Len(s) + 1] = e
      /\ \A k \in 1..Len(s) : x[k] = s[k]
  BY AppendProperties, LenProperties
<1> HIDE DEF x
<1>2. ASSUME NEW n \in 0..Len(s)
      PROVE  Many(x, ev, n) = Many(s, ev, n) /\ Many(s, ev, n) \in Nat /\ IsFiniteSet({k \in 1..n : s[k].ev = ev})
  <2>1. n \in Nat /\ \A k \in 1..n : x[k] = s[k]
    BY <1>1
  <2>2. {k \in 1..n : x[k].ev = ev} = {k \in 1..n : s[k].ev = ev}
    BY <2>1
  <2>3. IsFiniteSet(1..n)
    BY <2>1, FS_Interval
  <2>4. IsFiniteSet({k \in 1..n : s[k].ev = ev})
    BY <2>3, FS_Subset
  <2> QED BY <2>2, <2>4, FS_CardinalityType DEF Many
<1>3. Many(x, ev, Len(s) + 1) = Many(s, ev, Len(s)) + (IF e.ev = ev THEN 1 ELSE 0)
  <2> DEFINE now == {k \in 1..(Len(s) + 1) : x[k].ev = ev}
  <2>1. IsFiniteSet(all)
    BY <1>1, <1>2
  <2>2. CASE e.ev = ev
    <3>1. now = all \cup {Len(s) + 1} /\ Len(s) + 1 \notin all
      BY <1>1, <2>2
    <3> HIDE DEF now, all
    <3>2. Cardinality(now) = Cardinality(all) + 1
      BY <2>1, <3>1, FS_AddElement
    <3> QED BY <2>2, <3>2 DEF Many, now, all
  <2>3. CASE e.ev # ev
    <3>1. now = all
      BY <1>1, <2>3
    <3>2. Cardinality(all) \in Nat
      BY <2>1, FS_CardinalityType
    <3> HIDE DEF now, all
    <3>3. Cardinality(now) = Cardinality(all) + (IF e.ev = ev THEN 1 ELSE 0)
      BY <2>3, <3>1, <3>2
    <3> QED BY <3>3 DEF Many, now, all
  <2> QED BY <2>2, <2>3
<1> QED BY <1>2, <1>3 DEF x

(* An event that fits what has been read. *)
FitsNext(e, pieces, added, done, open, told) ==
  /\ e \in ResponseEvents /\ e.ev # "response_ends"
  /\ e.ev \in {"delta", "part_added", "part_done", "arguments_done", "item_done"} =>
       added = e.at + 1 /\ done = e.at
  /\ e.ev = "item_added" => added = done
  /\ e.ev = "delta" => /\ e.piece \in DOMAIN pieces /\ e.piece = told + 1
                       /\ pieces[e.piece].kind = "tool" \/ open = 1
  /\ e.ev = "item_done" => open = 0

(* An event more has been read. *)
LEMMA ReadsNext ==
  ASSUME NEW s, NEW pieces, NEW added \in Nat, NEW done \in Nat, NEW open \in Nat, NEW told \in Nat,
         NEW e, Reads(s, pieces, added, done, open, told), FitsNext(e, pieces, added, done, open, told)
  PROVE  /\ e.ev \in {"created", "in_progress", "error", "arguments_done"} =>
              Reads(Append(s, e), pieces, added, done, open, told)
         /\ e.ev = "item_added" => Reads(Append(s, e), pieces, added + 1, done, open, told)
         /\ e.ev = "item_done" => Reads(Append(s, e), pieces, added, done + 1, open, told)
         /\ e.ev = "part_added" => Reads(Append(s, e), pieces, added, done, open + 1, told)
         /\ e.ev = "part_done" => Reads(Append(s, e), pieces, added, done, open - 1, told)
         /\ e.ev = "delta" => Reads(Append(s, e), pieces, added, done, open, told + 1)
<1> DEFINE x == Append(s, e)
           n == Len(s) + 1
           One(ev) == IF e.ev = ev THEN 1 ELSE 0
<1>1. /\ s \in Seq(ResponseEvents) /\ e \in ResponseEvents /\ x \in Seq(ResponseEvents)
      /\ Len(s) \in Nat /\ Len(x) = n /\ n \in Nat /\ n - 1 = Len(s) /\ Len(s) \in 0..Len(s)
      /\ DOMAIN s = 1..Len(s) /\ DOMAIN x = 1..n /\ x[n] = e
      /\ \A m \in DOMAIN s : x[m] = s[m] /\ m \in 0..Len(s) /\ m - 1 \in 0..Len(s)
      /\ \A m \in 1..n : m = n \/ m \in DOMAIN s
  BY AppendProperties, LenProperties DEF Reads, FitsNext
<1>2. \A ev : \A m \in 0..Len(s) : Many(x, ev, m) = Many(s, ev, m) /\ Many(s, ev, m) \in Nat
  BY <1>1, ManyAppend
<1>3. \A ev : Many(x, ev, n) = Many(s, ev, Len(s)) + One(ev)
  BY <1>1, ManyAppend
<1> HIDE DEF x, n
<1>4. ASSUME NEW m \in DOMAIN s PROVE NestsAt(x, m, pieces)
  <2>1. NestsAt(s, m, pieces) /\ x[m] = s[m]
    BY <1>1, <1>4 DEF Reads
  <2>2. \A ev : Many(x, ev, m) = Many(s, ev, m) /\ Many(x, ev, m - 1) = Many(s, ev, m - 1)
    BY <1>1, <1>2, <1>4
  <2> QED BY <2>1, <2>2 DEF NestsAt
<1>5. /\ Many(s, "item_added", Len(s)) = added /\ Many(s, "item_done", Len(s)) = done
      /\ Many(s, "delta", Len(s)) = told
      /\ Many(s, "part_added", Len(s)) = Many(s, "part_done", Len(s)) + open
      /\ Many(s, "part_done", Len(s)) \in Nat
  BY <1>1, <1>2 DEF Reads
<1>6. \A ev : Many(x, ev, n - 1) = Many(s, ev, Len(s))
  BY <1>1, <1>2
<1>7. NestsAt(x, n, pieces)
  <2>1. e.ev = "delta" => /\ Many(x, "delta", n) = told + 1
                          /\ Many(x, "part_added", n) = Many(x, "part_done", n) + open
    BY <1>3, <1>5
  <2>2. e.ev = "item_done" => Many(x, "part_added", n) = Many(x, "part_done", n) + open
    BY <1>3, <1>5
  <2>3. Many(x, "item_added", n - 1) = added /\ Many(x, "item_done", n - 1) = done
    BY <1>5, <1>6
  <2>4. e.ev = "item_done" => Many(x, "part_added", n) = Many(x, "part_done", n)
    <3>1. e.ev = "item_done" => Many(x, "part_done", n) = Many(s, "part_done", Len(s))
      BY <1>3, <1>5
    <3> QED BY <1>5, <2>2, <3>1 DEF FitsNext
  <2> HIDE DEF One
  <2> QED BY <1>1, <2>1, <2>3, <2>4 DEF NestsAt, FitsNext
<1>8. \A m \in DOMAIN x : NestsAt(x, m, pieces)
  BY <1>1, <1>4, <1>7
<1>9. /\ Many(x, "item_added", Len(x)) = added + One("item_added")
      /\ Many(x, "item_done", Len(x)) = done + One("item_done")
      /\ Many(x, "delta", Len(x)) = told + One("delta")
      /\ Many(x, "part_done", Len(x)) = Many(s, "part_done", Len(s)) + One("part_done")
      /\ Many(x, "part_added", Len(x)) = Many(s, "part_done", Len(s)) + open + One("part_added")
  BY <1>1, <1>3, <1>5
<1>10. ASSUME e.ev \in {"created", "in_progress", "error", "arguments_done"}
       PROVE  Reads(x, pieces, added, done, open, told)
  BY <1>1, <1>5, <1>8, <1>9, <1>10 DEF Reads
<1>11. ASSUME e.ev = "item_added" PROVE Reads(x, pieces, added + 1, done, open, told)
  BY <1>1, <1>5, <1>8, <1>9, <1>11 DEF Reads
<1>12. ASSUME e.ev = "item_done" PROVE Reads(x, pieces, added, done + 1, open, told)
  BY <1>1, <1>5, <1>8, <1>9, <1>12 DEF Reads
<1>13. ASSUME e.ev = "part_added" PROVE Reads(x, pieces, added, done, open + 1, told)
  BY <1>1, <1>5, <1>8, <1>9, <1>13 DEF Reads
<1>14. ASSUME e.ev = "part_done" PROVE Reads(x, pieces, added, done, open - 1, told)
  BY <1>1, <1>5, <1>8, <1>9, <1>14 DEF Reads
<1>15. ASSUME e.ev = "delta" PROVE Reads(x, pieces, added, done, open, told + 1)
  BY <1>1, <1>5, <1>8, <1>9, <1>15 DEF Reads
<1> QED BY <1>10, <1>11, <1>12, <1>13, <1>14, <1>15 DEF x

(* A piece more to come changes nothing of what has been read. *)
LEMMA ReadsMore ==
  ASSUME NEW s, NEW pieces \in Seq(Pieces), NEW p \in Pieces,
         NEW added, NEW done, NEW open, NEW told, Reads(s, pieces, added, done, open, told)
  PROVE  Reads(s, Append(pieces, p), added, done, open, told)
<1>1. \A m \in DOMAIN pieces : m \in DOMAIN Append(pieces, p) /\ Append(pieces, p)[m] = pieces[m]
  BY AppendProperties, LenProperties
<1>2. ASSUME NEW n \in DOMAIN s PROVE NestsAt(s, n, Append(pieces, p))
  <2>1. NestsAt(s, n, pieces)
    BY DEF Reads
  <2> QED BY <1>1, <2>1 DEF NestsAt
<1> QED BY <1>2 DEF Reads

(* Events that follow one another. *)
LEMMA Following ==
  ASSUME NEW s \in Seq(ResponseEvents)
  PROVE  /\ s \o <<>> = s
         /\ \A e \in ResponseEvents : s \o <<e>> = Append(s, e)
         /\ \A e, f \in ResponseEvents : s \o <<e, f>> = Append(Append(s, e), f)
         /\ \A t, u \in Seq(ResponseEvents) : s \o (t \o u) = (s \o t) \o u
<1>1. \A e \in ResponseEvents : s \o <<e>> = Append(s, e)
  BY AppendIsConcat
<1>2. ASSUME NEW t \in Seq(ResponseEvents), NEW u \in Seq(ResponseEvents)
      PROVE  s \o (t \o u) = (s \o t) \o u
  BY SMTT(30), ConcatAssociative
<1>3. ASSUME NEW e \in ResponseEvents, NEW f \in ResponseEvents
      PROVE  s \o <<e, f>> = Append(Append(s, e), f)
  <2>1. <<e>> \in Seq(ResponseEvents) /\ <<f>> \in Seq(ResponseEvents) /\ <<e>> \o <<f>> = <<e, f>>
    <3>1. <<e>> \in Seq(ResponseEvents) /\ <<f>> \in Seq(ResponseEvents)
      OBVIOUS
    <3>2. Append(<<e>>, f) = <<e>> \o <<f>>
      BY <3>1, AppendIsConcat
    <3>3. Append(<<e>>, f) = <<e, f>>
      <4>1. <<e, f>> \in Seq(ResponseEvents) /\ Append(<<e>>, f) \in Seq(ResponseEvents)
        OBVIOUS
      <4>2. Len(<<e, f>>) = 2 /\ <<e, f>>[1] = e /\ <<e, f>>[2] = f /\ Len(<<e>>) = 1 /\ <<e>>[1] = e
        OBVIOUS
      <4>3. /\ Len(Append(<<e>>, f)) = 2 /\ Append(<<e>>, f)[1] = e /\ Append(<<e>>, f)[2] = f
        BY <3>1, <4>2, AppendProperties
      <4>4. \A i \in 1..2 : Append(<<e>>, f)[i] = <<e, f>>[i]
        BY <4>2, <4>3
      <4> QED BY <4>1, <4>2, <4>3, <4>4, SeqEqual
    <3> QED BY <3>1, <3>2, <3>3
  <2>2. s \o <<e, f>> = (s \o <<e>>) \o <<f>>
    BY <1>2, <2>1
  <2>3. Append(s, e) \in Seq(ResponseEvents)
    OBVIOUS
  <2>4. Append(s, e) \o <<f>> = Append(Append(s, e), f)
    BY <2>3, AppendIsConcat
  <2> QED BY <1>1, <2>2, <2>4
<1> QED BY <1>1, <1>2, <1>3, ConcatEmptySeq

(* The events that the converter makes. *)
LEMMA ToldIs ==
  ASSUME NEW r \in Converters, NEW ev \in EventNames, NEW n \in Nat
  PROVE  /\ Unplaced(ev) \in ResponseEvents /\ Unplaced(ev).ev = ev
         /\ Told(ev, r) \in ResponseEvents /\ Told(ev, r).ev = ev /\ Told(ev, r).at = r.at
         /\ ToldPiece(ev, r, n) \in ResponseEvents /\ ToldPiece(ev, r, n).ev = ev
         /\ ToldPiece(ev, r, n).at = r.at /\ ToldPiece(ev, r, n).piece = n
         /\ r.at \in Nat
BY DEF Unplaced, Told, ToldPiece, ResponseEvents, Converters

(* The items that have been added: of them resp.at are done. *)
ItemsAdded(r) == r.at + (IF r.item = Nothing THEN 0 ELSE 1)

(* What a reader of the events has seen of the converter's variables. *)
ReadsOf(s, r, pieces, told) == Reads(s, pieces, ItemsAdded(r), r.at, Len(r.part), told)

(* What is told before anything else. *)
LEMMA CreatedReads ==
  ASSUME NEW r \in Converters, NEW s, NEW pieces, NEW added \in Nat, NEW done \in Nat, NEW open \in Nat,
         NEW told \in Nat, Reads(s, pieces, added, done, open, told)
  PROVE  /\ CreatedEvents(r) \in Seq(ResponseEvents)
         /\ Reads(s \o CreatedEvents(r), pieces, added, done, open, told)
<1> DEFINE c == Unplaced("created")
           g == Unplaced("in_progress")
<1>1. c \in ResponseEvents /\ c.ev = "created" /\ g \in ResponseEvents /\ g.ev = "in_progress"
  BY ToldIs DEF EventNames
<1>2. s \in Seq(ResponseEvents)
  BY DEF Reads
<1>3. CreatedEvents(r) = IF r.first THEN <<c, g>> ELSE <<>>
  BY DEF CreatedEvents
<1> HIDE DEF c, g
<1>4. Reads(Append(s, c), pieces, added, done, open, told)
  <2>1. FitsNext(c, pieces, added, done, open, told)
    BY <1>1 DEF FitsNext
  <2> QED BY <1>1, <2>1, ReadsNext
<1>5. Reads(Append(Append(s, c), g), pieces, added, done, open, told)
  <2>1. FitsNext(g, pieces, added, done, open, told)
    BY <1>1 DEF FitsNext
  <2> QED BY <1>1, <1>4, <2>1, ReadsNext
<1>6. s \o <<c, g>> = Append(Append(s, c), g) /\ s \o <<>> = s
  BY <1>1, <1>2, Following
<1>7. <<c, g>> \in Seq(ResponseEvents) /\ <<>> \in Seq(ResponseEvents)
  BY <1>1
<1>8. CASE r.first
  BY <1>3, <1>5, <1>6, <1>7, <1>8
<1>9. CASE ~r.first
  BY <1>3, <1>6, <1>7, <1>9
<1> QED BY <1>8, <1>9

(* The part at work is done. *)
LEMMA PartDoneReads ==
  ASSUME NEW r \in Converters, NEW s, NEW pieces, NEW told \in Nat, Len(r.part) <= 1,
         Reads(s, pieces, r.at + 1, r.at, Len(r.part), told)
  PROVE  /\ PartDoneEvents(r) \in Seq(ResponseEvents)
         /\ Reads(s \o PartDoneEvents(r), pieces, r.at + 1, r.at, 0, told)
<1> DEFINE d == Told("part_done", r)
<1>1. d \in ResponseEvents /\ d.ev = "part_done" /\ d.at = r.at /\ r.at \in Nat
  BY ToldIs DEF EventNames
<1>2. s \in Seq(ResponseEvents)
  BY DEF Reads
<1>3. PartDoneEvents(r) = IF r.part = <<>> THEN <<>> ELSE <<d>>
  BY DEF PartDoneEvents
<1> HIDE DEF d
<1>4. s \o <<d>> = Append(s, d) /\ s \o <<>> = s
  BY <1>1, <1>2, Following
<1>5. CASE r.part = <<>>
  BY <1>3, <1>4, <1>5
<1>6. CASE r.part # <<>>
  <2>1. Len(r.part) = 1
    <3>1. r.part \in Seq(Texts)
      BY DEF Converters
    <3>2. Len(r.part) \in Nat /\ Len(r.part) # 0
      BY <1>6, <3>1, EmptySeq, LenProperties
    <3>3. \A n \in Nat : n # 0 /\ n <= 1 => n = 1
      OBVIOUS
    <3> QED BY <3>2, <3>3, Zenon
  <2>2. FitsNext(d, pieces, r.at + 1, r.at, 1, told)
    BY <1>1 DEF FitsNext
  <2>3. Reads(s, pieces, r.at + 1, r.at, 1, told)
    BY <2>1
  <2>4. Reads(Append(s, d), pieces, r.at + 1, r.at, 1 - 1, told)
    <3>1. r.at + 1 \in Nat /\ r.at \in Nat /\ 1 \in Nat
      BY <1>1
    <3> QED BY <1>1, <2>2, <2>3, <3>1, ReadsNext
  <2>5. 1 - 1 = 0
    OBVIOUS
  <2>6. <<d>> \in Seq(ResponseEvents)
    BY <1>1
  <2> QED BY <1>3, <1>4, <1>6, <2>4, <2>5, <2>6
<1> QED BY <1>5, <1>6

(* The item at work is done. *)
LEMMA ItemDoneReads ==
  ASSUME NEW r, NEW pieces, Fits(r, pieces), r.item # Nothing,
         NEW more, NEW s, NEW told \in Nat, Reads(s, more, r.at + 1, r.at, Len(r.part), told)
  PROVE  /\ ItemDoneEvents(r) \in Seq(ResponseEvents)
         /\ Reads(s \o ItemDoneEvents(r), more, r.at + 1, r.at + 1, 0, told)
<1> DEFINE d == Told("item_done", r)
           g == Told("arguments_done", r)
           before == IF r.kind = "tool" THEN <<g>> ELSE PartDoneEvents(r)
<1>1. /\ r \in Converters /\ s \in Seq(ResponseEvents) /\ r.item = r.kind /\ r.item \in Kinds
      /\ r.kind = "tool" => Len(r.part) = 0
      /\ r.kind # "tool" => Len(r.part) <= 1
  <2>1. r \in Converters /\ s \in Seq(ResponseEvents) /\ r.item = r.kind
    BY DEF Fits, Reads
  <2>2. r.item \in Kinds
    BY <2>1 DEF Converters
  <2>3. r.kind = "tool" => Len(r.part) = 0
    <3>1. r.kind = "tool" => r.part = <<>>
      BY <2>1 DEF Fits
    <3>2. Len(<<>>) = 0
      OBVIOUS
    <3> QED BY <3>1, <3>2, Zenon
  <2>4. r.kind # "tool" => Len(r.part) <= 1
    <3>1. r.kind # "tool" => Len(r.part) = 1
      BY <2>1, <2>2 DEF Fits, Kinds
    <3>2. \A n : n = 1 => n <= 1
      OBVIOUS
    <3> QED BY <3>1, <3>2, Zenon
  <2> QED BY <2>1, <2>2, <2>3, <2>4, Zenon
<1>2. /\ d \in ResponseEvents /\ d.ev = "item_done" /\ d.at = r.at
      /\ g \in ResponseEvents /\ g.ev = "arguments_done" /\ g.at = r.at
      /\ r.at \in Nat /\ r.at + 1 \in Nat /\ 0 \in Nat
  BY <1>1, ToldIs DEF EventNames
<1>3. ItemDoneEvents(r) = before \o <<d>>
  BY DEF ItemDoneEvents
<1> HIDE DEF d, g
<1>4. before \in Seq(ResponseEvents) /\ Reads(s \o before, more, r.at + 1, r.at, 0, told)
  <2>1. CASE r.kind = "tool"
    <3>1. FitsNext(g, more, r.at + 1, r.at, 0, told)
      BY <1>2 DEF FitsNext
    <3>2. Reads(s, more, r.at + 1, r.at, 0, told)
      BY <1>1, <2>1
    <3>3. Reads(Append(s, g), more, r.at + 1, r.at, 0, told)
      BY <1>2, <3>1, <3>2, ReadsNext
    <3>4. <<g>> \in Seq(ResponseEvents) /\ s \o <<g>> = Append(s, g)
      BY <1>1, <1>2, Following
    <3> QED BY <2>1, <3>3, <3>4
  <2>2. CASE r.kind # "tool"
    BY <1>1, <2>2, PartDoneReads
  <2> QED BY <2>1, <2>2
<1> HIDE DEF before
<1>5. s \o before \in Seq(ResponseEvents)
  BY <1>4 DEF Reads
<1>6. Reads(Append(s \o before, d), more, r.at + 1, r.at + 1, 0, told)
  <2>1. FitsNext(d, more, r.at + 1, r.at, 0, told)
    BY <1>2 DEF FitsNext
  <2> QED BY <1>2, <1>4, <2>1, ReadsNext
<1>7. <<d>> \in Seq(ResponseEvents) /\ before \o <<d>> \in Seq(ResponseEvents)
  BY <1>2, <1>4
<1>8. s \o (before \o <<d>>) = (s \o before) \o <<d>> /\ (s \o before) \o <<d>> = Append(s \o before, d)
  BY <1>1, <1>2, <1>4, <1>5, <1>7, Following
<1> QED BY <1>3, <1>6, <1>7, <1>8

(* A piece is told in an item and, unless it is of a call, in a part. *)
LEMMA DeltaReads ==
  ASSUME NEW r \in Converters, NEW pieces \in Seq(Pieces), NEW p \in Pieces, NEW s, NEW open \in Nat,
         Reads(s, Append(pieces, p), r.at + 1, r.at, open, Len(pieces)), p.kind = "tool" \/ open = 1
  PROVE  LET n == Len(pieces) + 1
             t == <<ToldPiece("delta", r, n)>>
         IN /\ t \in Seq(ResponseEvents)
            /\ Reads(s \o t, Append(pieces, p), r.at + 1, r.at, open, n)
<1> DEFINE n == Len(pieces) + 1
           e == ToldPiece("delta", r, n)
           more == Append(pieces, p)
<1>1. Len(pieces) \in Nat /\ n \in Nat /\ n \in DOMAIN more /\ more[n] = p
  BY AppendProperties, LenProperties
<1>2. /\ e \in ResponseEvents /\ e.ev = "delta" /\ e.at = r.at /\ e.piece = n
      /\ r.at \in Nat /\ r.at + 1 \in Nat
  BY <1>1, ToldIs DEF EventNames
<1>3. s \in Seq(ResponseEvents)
  BY DEF Reads
<1> HIDE DEF e, more
<1>4. FitsNext(e, more, r.at + 1, r.at, open, Len(pieces))
  BY <1>1, <1>2 DEF FitsNext
<1>5. Reads(Append(s, e), more, r.at + 1, r.at, open, n)
  <2>1. Reads(s, more, r.at + 1, r.at, open, Len(pieces))
    BY DEF more
  <2> QED BY <1>1, <1>2, <1>4, <2>1, ReadsNext
<1>6. <<e>> \in Seq(ResponseEvents) /\ s \o <<e>> = Append(s, e)
  BY <1>2, <1>3, Following
<1> QED BY <1>5, <1>6 DEF e, more

(* A part for the piece. *)
LEMMA PartForReads ==
  ASSUME NEW r \in Converters, NEW p \in Pieces, NEW s, NEW pieces, NEW told \in Nat, Len(r.part) <= 1,
         Reads(s, pieces, r.at + 1, r.at, Len(r.part), told)
  PROVE  /\ PartForEvents(r, p) \in Seq(ResponseEvents)
         /\ Reads(s \o PartForEvents(r, p), pieces, r.at + 1, r.at, 1, told)
<1> DEFINE e == Told("part_added", r)
           other == r.choice # p.choice
           ends == IF other THEN PartDoneEvents(r) ELSE <<>>
           starts == IF other \/ r.part = <<>> THEN <<e>> ELSE <<>>
<1>1. /\ e \in ResponseEvents /\ e.ev = "part_added" /\ e.at = r.at
      /\ r.at \in Nat /\ r.at + 1 \in Nat /\ 0 \in Nat
  BY ToldIs DEF EventNames
<1>2. s \in Seq(ResponseEvents) /\ s \o <<>> = s
  BY Following DEF Reads
<1>3. PartForEvents(r, p) = ends \o starts
  BY DEF PartForEvents
<1>4. r.part = <<>> \/ Len(r.part) = 1
  <2>1. r.part \in Seq(Texts)
    BY DEF Converters
  <2>2. r.part # <<>> => Len(r.part) \in Nat /\ Len(r.part) # 0
    BY <2>1, EmptySeq
  <2>3. \A n \in Nat : n # 0 /\ n <= 1 => n = 1
    OBVIOUS
  <2> QED BY <2>2, <2>3, Zenon
<1>5. Len(<<>>) = 0 /\ 0 + 1 = 1
  OBVIOUS
<1> HIDE DEF e
<1>6. ends \in Seq(ResponseEvents) /\ starts \in Seq(ResponseEvents)
  <2>1. PartDoneEvents(r) \in Seq(ResponseEvents)
    BY PartDoneReads
  <2> QED BY <1>1, <2>1
<1>7. CASE other \/ r.part = <<>>
  <2>1. Reads(s \o ends, pieces, r.at + 1, r.at, 0, told)
    <3>1. CASE other
      BY <3>1, PartDoneReads
    <3>2. CASE ~other
      <4>1. r.part = <<>>
        BY <1>7, <3>2
      <4>2. Reads(s, pieces, r.at + 1, r.at, 0, told)
        BY <1>5, <4>1
      <4> QED BY <1>2, <3>2, <4>2
    <3> QED BY <3>1, <3>2
  <2>2. FitsNext(e, pieces, r.at + 1, r.at, 0, told)
    BY <1>1 DEF FitsNext
  <2>3. Reads(Append(s \o ends, e), pieces, r.at + 1, r.at, 0 + 1, told)
    <3> HIDE DEF ends
    <3> QED BY <1>1, <2>1, <2>2, ReadsNext
  <2>4. s \o (ends \o <<e>>) = Append(s \o ends, e)
    <3>1. s \o ends \in Seq(ResponseEvents) /\ <<e>> \in Seq(ResponseEvents)
      BY <1>1, <2>1 DEF Reads
    <3> HIDE DEF ends, starts
    <3>2. s \o (ends \o <<e>>) = (s \o ends) \o <<e>>
      BY <1>2, <1>6, <3>1, Following
    <3>3. (s \o ends) \o <<e>> = Append(s \o ends, e)
      BY <1>1, <3>1, Following
    <3> QED BY <3>2, <3>3
  <2>5. starts = <<e>>
    BY <1>7
  <2> HIDE DEF ends, starts
  <2>6. ends \o starts \in Seq(ResponseEvents)
    BY <1>6
  <2> QED BY <1>3, <1>5, <2>3, <2>4, <2>5, <2>6
<1>8. CASE ~other /\ r.part # <<>>
  <2>1. PartForEvents(r, p) = <<>>
    BY <1>3, <1>8
  <2>2. Len(r.part) = 1
    BY <1>4, <1>8
  <2> QED BY <1>2, <2>1, <2>2
<1> QED BY <1>7, <1>8

(* What is told of a piece in an item that is open. *)
LEMMA AddedReads ==
  ASSUME NEW r \in Converters, NEW pieces \in Seq(Pieces), NEW p \in Pieces, NEW s, Len(r.part) <= 1,
         p.kind = "tool" => Len(r.part) = 0,
         Reads(s, Append(pieces, p), r.at + 1, r.at, Len(r.part), Len(pieces))
  PROVE  LET n == Len(pieces) + 1 IN
           /\ AddedEvents(r, p, n) \in Seq(ResponseEvents)
           /\ Reads(s \o AddedEvents(r, p, n), Append(pieces, p), r.at + 1, r.at,
                    IF p.kind = "tool" THEN 0 ELSE 1, n)
<1> DEFINE n == Len(pieces) + 1
           parts == IF p.kind = "tool" THEN <<>> ELSE PartForEvents(r, p)
           t == <<ToldPiece("delta", r, n)>>
           open == IF p.kind = "tool" THEN 0 ELSE 1
           more == Append(pieces, p)
<1>1. s \in Seq(ResponseEvents) /\ s \o <<>> = s /\ Len(pieces) \in Nat /\ open \in Nat
  BY Following, LenProperties DEF Reads
<1>2. AddedEvents(r, p, n) = parts \o t
  BY DEF AddedEvents
<1>3. parts \in Seq(ResponseEvents) /\ Reads(s \o parts, more, r.at + 1, r.at, open, Len(pieces))
  <2>1. CASE p.kind = "tool"
    <3>1. Reads(s, more, r.at + 1, r.at, 0, Len(pieces))
      BY <2>1
    <3> QED BY <1>1, <2>1, <3>1
  <2>2. CASE p.kind # "tool"
    BY <1>1, <2>2, PartForReads
  <2> QED BY <2>1, <2>2
<1>4. p.kind = "tool" \/ open = 1
  OBVIOUS
<1> HIDE DEF parts, open
<1>5. t \in Seq(ResponseEvents) /\ Reads((s \o parts) \o t, more, r.at + 1, r.at, open, n)
  BY <1>1, <1>3, <1>4, DeltaReads
<1> HIDE DEF t
<1>6. s \o (parts \o t) = (s \o parts) \o t /\ parts \o t \in Seq(ResponseEvents)
  <2>1. /\ s \in Seq(ResponseEvents) /\ parts \in Seq(ResponseEvents)
        /\ t \in Seq(ResponseEvents)
    BY <1>1, <1>3, <1>5
  <2>2. parts \o t \in Seq(ResponseEvents)
    BY <2>1
  <2>3. s \o (parts \o t) = (s \o parts) \o t
    BY SMTT(30), <2>1, Following
  <2> QED BY <2>2, <2>3
<1> QED BY <1>2, <1>5, <1>6 DEF open

(* What is told of a piece. *)
LEMMA PieceReads ==
  ASSUME NEW r, NEW pieces \in Seq(Pieces), NEW p \in Pieces, Fits(r, pieces),
         NEW s, ReadsOf(s, r, pieces, Len(pieces))
  PROVE  LET n == Len(pieces) + 1 IN
           /\ ProcessedEvents(r, p, n) \in Seq(ResponseEvents)
           /\ ReadsOf(s \o ProcessedEvents(r, p, n), Processed(r, p, n), Append(pieces, p), n)
<1> DEFINE n == Len(pieces) + 1
           o == Opened(r, p)
           x == Processed(r, p, n)
           more == Append(pieces, p)
           opening == OpenedEvents(r, p)
           adding == AddedEvents(o, p, n)
<1>1. /\ r \in Converters /\ s \in Seq(ResponseEvents) /\ s \o <<>> = s /\ Len(pieces) \in Nat /\ n \in Nat
      /\ r.at \in Nat /\ r.at + 1 \in Nat /\ p.kind # Nothing /\ 0 \in Nat
  BY Following, LenProperties, PieceIs DEF Fits, ReadsOf, Reads, Converters, Kinds, Nothing
<1>2. Reads(s, more, ItemsAdded(r), r.at, Len(r.part), Len(pieces))
  BY ReadsMore DEF ReadsOf
<1>3. ProcessedEvents(r, p, n) = opening \o adding
  BY DEF ProcessedEvents
<1>4. /\ o \in Converters /\ o.item = p.kind /\ Len(o.part) <= 1 /\ (p.kind = "tool" => Len(o.part) = 0)
      /\ opening \in Seq(ResponseEvents) /\ Reads(s \o opening, more, o.at + 1, o.at, Len(o.part), Len(pieces))
  <2>1. CASE NeedsItem(r, p)
    <3> DEFINE e == Unplaced("item_added")
               ends == IF r.item = Nothing THEN <<>> ELSE ItemDoneEvents(r)
    <3>1. /\ o \in Converters /\ o.item = p.kind /\ o.part = <<>>
          /\ o.at = (IF r.item = Nothing THEN r.at ELSE r.at + 1)
      BY <2>1, OpenedAnew
    <3>2. Len(o.part) = 0 /\ 0 <= 1
      BY <3>1
    <3>3. opening = ends \o <<e>>
      BY <2>1 DEF OpenedEvents
    <3> HIDE DEF o
    <3>4. e \in ResponseEvents /\ e.ev = "item_added" /\ o.at \in Nat
      BY <1>1, <3>1, ToldIs DEF EventNames
    <3>5. ends \in Seq(ResponseEvents) /\ Reads(s \o ends, more, o.at, o.at, 0, Len(pieces))
      <4>1. CASE r.item = Nothing
        <5>1. r.at + 0 = r.at /\ Len(r.part) = 0 /\ <<>> \in Seq(ResponseEvents)
          BY <1>1, <4>1 DEF Fits
        <5>2. ItemsAdded(r) = r.at /\ o.at = r.at
          BY <3>1, <4>1, <5>1 DEF ItemsAdded
        <5> QED BY <1>1, <1>2, <4>1, <5>1, <5>2
      <4>2. CASE r.item # Nothing
        <5>1. ItemsAdded(r) = r.at + 1 /\ o.at = r.at + 1
          BY <3>1, <4>2 DEF ItemsAdded
        <5>2. Reads(s, more, r.at + 1, r.at, Len(r.part), Len(pieces))
          BY <1>2, <5>1
        <5>3. ItemDoneEvents(r) \in Seq(ResponseEvents)
              /\ Reads(s \o ItemDoneEvents(r), more, r.at + 1, r.at + 1, 0, Len(pieces))
          BY <1>1, <4>2, <5>2, ItemDoneReads
        <5> QED BY <4>2, <5>1, <5>3
      <4> QED BY <4>1, <4>2
    <3> HIDE DEF e, ends
    <3>6. Reads(Append(s \o ends, e), more, o.at + 1, o.at, 0, Len(pieces))
      <4>1. FitsNext(e, more, o.at, o.at, 0, Len(pieces))
        BY <3>4 DEF FitsNext
      <4> QED BY <1>1, <3>4, <3>5, <4>1, ReadsNext
    <3>7. s \o ends \in Seq(ResponseEvents) /\ <<e>> \in Seq(ResponseEvents)
      BY <3>4, <3>5 DEF Reads
    <3>8. s \o (ends \o <<e>>) = (s \o ends) \o <<e>>
      BY <1>1, <3>5, <3>7, Following
    <3>9. (s \o ends) \o <<e>> = Append(s \o ends, e)
      BY <3>4, <3>7, Following
    <3>10. ends \o <<e>> \in Seq(ResponseEvents)
      BY <3>5, <3>7
    <3> QED BY <3>1, <3>2, <3>3, <3>6, <3>8, <3>9, <3>10
  <2>2. CASE ~NeedsItem(r, p)
    <3>1. o = r /\ opening = <<>> /\ r.item = p.kind
      BY <2>2 DEF Opened, OpenedEvents, NeedsItem, Fits
    <3>2. ItemsAdded(r) = r.at + 1
      BY <1>1, <3>1 DEF ItemsAdded
    <3>3. p.kind = "tool" => Len(r.part) = 0
      <4>1. p.kind = "tool" => r.part = <<>>
        BY <3>1 DEF Fits
      <4>2. Len(<<>>) = 0
        OBVIOUS
      <4> QED BY <4>1, <4>2, Zenon
    <3>4. p.kind # "tool" => Len(r.part) = 1
      BY <3>1, PieceIs DEF Fits, Kinds
    <3>5. \A k : k = 0 \/ k = 1 => k <= 1
      OBVIOUS
    <3>6. Len(r.part) <= 1
      BY <3>3, <3>4, <3>5, Zenon
    <3>7. <<>> \in Seq(ResponseEvents)
      OBVIOUS
    <3> QED BY <1>1, <1>2, <3>1, <3>2, <3>3, <3>6, <3>7
  <2> QED BY <2>1, <2>2
<1>5. x.item = p.kind /\ x.at = o.at /\ Len(x.part) = (IF p.kind = "tool" THEN 0 ELSE 1) /\ x.at \in Nat
  <2>1. CASE NeedsItem(r, p)
    <3>1. x.item = p.kind /\ x.part = (IF p.kind = "tool" THEN <<>> ELSE << <<n>> >>)
          /\ x.at = (IF r.item = Nothing THEN r.at ELSE r.at + 1)
      BY <1>1, <2>1, ProcessedAnew
    <3>2. o.at = (IF r.item = Nothing THEN r.at ELSE r.at + 1)
      BY <2>1, OpenedAnew
    <3> HIDE DEF x, o
    <3> QED BY <1>1, <3>1, <3>2
  <2>2. CASE ~NeedsItem(r, p)
    <3>1. o = r /\ r.item = p.kind
      BY <2>2 DEF Opened, NeedsItem, Fits
    <3>2. CASE p.kind = "tool"
      <4>1. Continues(r, p, n, x) /\ x.part = r.part
        BY <1>1, <2>2, <3>2, ProcessedCall
      <4>2. r.part = <<>>
        BY <3>1, <3>2 DEF Fits
      <4> HIDE DEF x, o
      <4> QED BY <1>1, <3>1, <3>2, <4>1, <4>2 DEF Continues
    <3>3. CASE p.kind # "tool" /\ r.choice = p.choice
      <4>1. Continues(r, p, n, x) /\ x.part = <<Append(r.part[1], n)>>
        BY <1>1, <2>2, <3>3, ProcessedSame
      <4> HIDE DEF x, o
      <4> QED BY <1>1, <3>1, <3>3, <4>1 DEF Continues
    <3>4. CASE p.kind # "tool" /\ r.choice # p.choice
      <4>1. Continues(r, p, n, x) /\ x.part = << <<n>> >>
        BY <1>1, <2>2, <3>4, ProcessedOther
      <4> HIDE DEF x, o
      <4> QED BY <1>1, <3>1, <3>4, <4>1 DEF Continues
    <3> QED BY <3>2, <3>3, <3>4
  <2> QED BY <2>1, <2>2
<1>6. ItemsAdded(x) = o.at + 1
  <2> HIDE DEF x, o
  <2> QED BY <1>1, <1>5 DEF ItemsAdded
<1>7. adding \in Seq(ResponseEvents)
      /\ Reads((s \o opening) \o adding, more, o.at + 1, o.at, IF p.kind = "tool" THEN 0 ELSE 1, n)
  <2> HIDE DEF o, opening
  <2> QED BY <1>4, AddedReads
<1> HIDE DEF x, o, opening, adding
<1>8. s \o (opening \o adding) = (s \o opening) \o adding /\ opening \o adding \in Seq(ResponseEvents)
  <2>1. opening \in Seq(ResponseEvents) /\ adding \in Seq(ResponseEvents) /\ s \in Seq(ResponseEvents)
    BY <1>1, <1>4, <1>7
  <2>2. opening \o adding \in Seq(ResponseEvents)
    BY <2>1
  <2> QED BY <2>1, <2>2, Following
<1>9. ReadsOf((s \o opening) \o adding, x, more, n)
  BY <1>5, <1>6, <1>7 DEF ReadsOf
<1> QED BY <1>3, <1>8, <1>9 DEF x

(* EventsNest of a sequence of events. *)
Nests(s, pieces) ==
  \A n \in DOMAIN s : LET e == s[n] IN
    /\ e.ev \in {"delta", "part_added", "part_done", "arguments_done", "item_done"} =>
         Many(s, "item_added", n - 1) = e.at + 1 /\ Many(s, "item_done", n - 1) = e.at
    /\ e.ev = "item_added" => Many(s, "item_added", n - 1) = Many(s, "item_done", n - 1)
    /\ e.ev = "delta" =>
         /\ Many(s, "delta", n) = e.piece
         /\ pieces[e.piece].kind = "tool"
            \/ Many(s, "part_added", n) = Many(s, "part_done", n) + 1
    /\ e.ev = "item_done" => Many(s, "part_added", n) = Many(s, "part_done", n)
    /\ e.ev = "response_ends" =>
         n = Len(s) /\ Many(s, "item_done", n) = Many(s, "item_added", n)

(* It is EventsNest of the events written. *)
LEMMA NestsIsEventsNest == Nests(events, Taken) <=> EventsNest
BY DEF Nests, EventsNest, HowMany, Many

(* What has been read nests. *)
LEMMA ReadsNests ==
  ASSUME NEW s, NEW pieces, NEW added, NEW done, NEW open, NEW told,
         Reads(s, pieces, added, done, open, told)
  PROVE  Nests(s, pieces)
BY DEF Reads, Nests, NestsAt

(* The end: every item is done and nothing follows. *)
LEMMA EndReads ==
  ASSUME NEW r, NEW pieces, Fits(r, pieces), NEW s, NEW told \in Nat, ReadsOf(s, r, pieces, told)
  PROVE  Nests(s \o FinalEvents(r), pieces)
<1> DEFINE e == Unplaced("response_ends")
           ends == IF r.item = Nothing THEN <<>> ELSE ItemDoneEvents(r)
           at == IF r.item = Nothing THEN r.at ELSE r.at + 1
           q == s \o ends
           x == Append(q, e)
<1>1. /\ r \in Converters /\ s \in Seq(ResponseEvents) /\ s \o <<>> = s
      /\ r.at \in Nat /\ r.at + 1 \in Nat /\ 0 \in Nat /\ r.at + 0 = r.at
  BY Following DEF Fits, ReadsOf, Reads, Converters
<1>2. e \in ResponseEvents /\ e.ev = "response_ends"
  BY <1>1, ToldIs DEF EventNames
<1>3. ends \in Seq(ResponseEvents) /\ Reads(q, pieces, at, at, 0, told)
  <2>1. CASE r.item = Nothing
    <3>1. Len(r.part) = 0 /\ ItemsAdded(r) = r.at /\ <<>> \in Seq(ResponseEvents)
      BY <1>1, <2>1 DEF Fits, ItemsAdded
    <3>2. Reads(s, pieces, r.at, r.at, 0, told)
      BY <3>1 DEF ReadsOf
    <3> QED BY <1>1, <2>1, <3>1, <3>2
  <2>2. CASE r.item # Nothing
    <3>1. ItemsAdded(r) = r.at + 1
      BY <2>2 DEF ItemsAdded
    <3>2. Reads(s, pieces, r.at + 1, r.at, Len(r.part), told)
      BY <3>1 DEF ReadsOf
    <3> QED BY <2>2, <3>2, ItemDoneReads
  <2> QED BY <2>1, <2>2
<1>4. FinalEvents(r) = ends \o <<e>>
  BY DEF FinalEvents
<1> HIDE DEF e, ends, at
<1>5. q \in Seq(ResponseEvents) /\ <<e>> \in Seq(ResponseEvents)
  BY <1>2, <1>3 DEF Reads
<1>6. s \o (ends \o <<e>>) = x
  <2>1. s \o (ends \o <<e>>) = q \o <<e>>
    BY <1>1, <1>3, <1>5, Following
  <2> HIDE DEF q
  <2>2. q \o <<e>> = x
    BY <1>2, <1>5, Following
  <2> QED BY <2>1, <2>2
<1> HIDE DEF q
<1>7. /\ Len(q) \in Nat /\ DOMAIN q = 1..Len(q) /\ DOMAIN x = 1..(Len(q) + 1) /\ Len(x) = Len(q) + 1
      /\ x[Len(q) + 1] = e /\ \A m \in DOMAIN q : x[m] = q[m] /\ m \in 0..Len(q) /\ m - 1 \in 0..Len(q)
      /\ Len(q) \in 0..Len(q) /\ \A m \in 1..(Len(q) + 1) : m = Len(q) + 1 \/ m \in DOMAIN q
  BY <1>2, <1>5, AppendProperties, LenProperties
<1>8. /\ \A ev : \A m \in 0..Len(q) : Many(x, ev, m) = Many(q, ev, m) /\ Many(q, ev, m) \in Nat
      /\ \A ev : Many(x, ev, Len(q) + 1) = Many(q, ev, Len(q)) + (IF e.ev = ev THEN 1 ELSE 0)
  BY <1>2, <1>5, ManyAppend
<1> HIDE DEF x
<1>9. \A m \in DOMAIN q : NestsAt(x, m, pieces)
  <2> SUFFICES ASSUME NEW m \in DOMAIN q PROVE NestsAt(x, m, pieces)
    OBVIOUS
  <2>1. NestsAt(q, m, pieces) /\ x[m] = q[m]
    BY <1>3, <1>7 DEF Reads
  <2>2. \A ev : Many(x, ev, m) = Many(q, ev, m) /\ Many(x, ev, m - 1) = Many(q, ev, m - 1)
    BY <1>7, <1>8
  <2> QED BY <2>1, <2>2 DEF NestsAt
<1>10. Many(x, "item_done", Len(x)) = Many(x, "item_added", Len(x))
  <2>1. Many(q, "item_done", Len(q)) = at /\ Many(q, "item_added", Len(q)) = at
    BY <1>3 DEF Reads
  <2>2. Many(q, "item_done", Len(q)) \in Nat /\ Many(q, "item_added", Len(q)) \in Nat
    BY <1>7, <1>8
  <2>3. Many(x, "item_done", Len(q) + 1) = Many(q, "item_done", Len(q)) + 0
        /\ Many(x, "item_added", Len(q) + 1) = Many(q, "item_added", Len(q)) + 0
    BY <1>2, <1>8
  <2> QED BY <1>7, <2>1, <2>2, <2>3
<1>11. Nests(x, pieces)
  BY <1>2, <1>7, <1>9, <1>10 DEF Nests, NestsAt
<1> QED BY <1>4, <1>6, <1>11

-----------------------------------------------------------------------------
(* Between two deltas the output, closed at once, would hold all that has been
   converted, and the events have told it; at the end both do. *)
ResponsesInv ==
  /\ received \in Seq(UpstreamDeltas) /\ source \in {"sends", "ended", "failed"}
  /\ source # "ended" => Fits(resp, Taken) /\ ReadsOf(events, resp, Taken, Len(Taken))
  /\ source = "ended" => HoldsAll(resp.output, Taken) /\ Nests(events, Taken)

(* What is converted of a delta is a piece. *)
LEMMA FirstPiece == \A d \in UpstreamDeltas : Head(d) \in Pieces
<1> SUFFICES ASSUME NEW d \in UpstreamDeltas PROVE Head(d) \in Pieces
  OBVIOUS
<1>1. CASE d \in {<<p>> : p \in Pieces}
  BY <1>1
<1>2. CASE d = <<Piece("tool", 0, 0), Piece("tool", 0, 1)>>
  BY <1>2 DEF Pieces
<1>3. CASE d = <<Piece("tool", 0, 1), Piece("message", 0, 0)>>
  BY <1>3 DEF Pieces
<1>4. CASE d = <<Piece("reasoning", 0, 0), Piece("message", 0, 0)>>
  BY <1>4 DEF Pieces
<1> QED BY <1>1, <1>2, <1>3, <1>4 DEF UpstreamDeltas

(* What is converted of a stream of deltas are as many pieces, *)
LEMMA TakenType ==
  ASSUME received \in Seq(UpstreamDeltas)
  PROVE  Taken \in Seq(Pieces) /\ Len(Taken) = Len(received)
<1>1. Len(received) \in Nat /\ DOMAIN received = 1..Len(received)
      /\ \A n \in 1..Len(received) : received[n] \in UpstreamDeltas
  BY LenProperties
<1>2. Taken = [n \in 1..Len(received) |-> Head(received[n])]
  BY <1>1 DEF Taken
<1>3. \A n \in 1..Len(received) : Head(received[n]) \in Pieces
  BY <1>1, FirstPiece
<1> QED BY <1>1, <1>2, <1>3

(* and one more when a delta comes. *)
LEMMA TakenMore ==
  ASSUME received \in Seq(UpstreamDeltas), NEW d \in UpstreamDeltas, received' = Append(received, d)
  PROVE  Taken' = Append(Taken, Head(d))
<1> DEFINE p == Head(d)
<1>1. /\ Len(received) \in Nat /\ DOMAIN received = 1..Len(received)
      /\ received' \in Seq(UpstreamDeltas) /\ Len(received') = Len(received) + 1
      /\ DOMAIN (received') = 1..(Len(received) + 1)
      /\ received'[Len(received) + 1] = d
      /\ \A n \in 1..Len(received) : received'[n] = received[n]
  BY AppendProperties, LenProperties
<1>2. Taken \in Seq(Pieces) /\ Len(Taken) = Len(received) /\ p \in Pieces
  BY TakenType, FirstPiece
<1>3. Taken' = [n \in 1..(Len(received) + 1) |-> Head(received'[n])]
  BY <1>1 DEF Taken
<1>4. \A n \in 1..Len(received) : Taken[n] = Head(received[n])
  BY <1>1 DEF Taken
<1> HIDE DEF p
<1>5. /\ Append(Taken, p) \in Seq(Pieces) /\ Len(Append(Taken, p)) = Len(received) + 1
      /\ Append(Taken, p)[Len(received) + 1] = p
      /\ \A n \in 1..Len(received) : Append(Taken, p)[n] = Taken[n]
  BY <1>1, <1>2, AppendProperties
<1>6. \A n \in 1..(Len(received) + 1) : Append(Taken, p)[n] = Head(received'[n])
  BY <1>1, <1>4, <1>5 DEF p
<1>7. Append(Taken, p) = [n \in 1..(Len(received) + 1) |-> Append(Taken, p)[n]]
  <2> DEFINE ap == Append(Taken, p)
  <2>1. ap \in Seq(Pieces) /\ Len(ap) = Len(received) + 1
    BY <1>5
  <2> HIDE DEF ap
  <2>2. ap \in [1..Len(ap) -> Pieces]
    BY <2>1, LenProperties
  <2>3. ap = [n \in 1..Len(ap) |-> ap[n]]
    BY <2>2
  <2> QED BY <2>1, <2>3 DEF ap
<1> DEFINE heads == [n \in 1..(Len(received) + 1) |-> Head(received'[n])]
<1>8. heads = [n \in 1..(Len(received) + 1) |-> Append(Taken, p)[n]]
  BY <1>6
<1> HIDE DEF heads
<1>9. Taken' = heads
  BY <1>3 DEF heads
<1> QED BY <1>7, <1>8, <1>9 DEF p

(* A converter that has seen nothing. *)
LEMMA ResponsesStarts == ResponsesInit => ResponsesInv
<1> SUFFICES ASSUME ResponsesInit PROVE ResponsesInv
  OBVIOUS
<1> DEFINE r == FreshConverter
<1>1. /\ received = <<>> /\ resp = r /\ events = <<>> /\ source = "sends"
      /\ Len(<<>>) = 0 /\ <<>> \in Seq(Pieces) /\ <<>> \in Seq(ResponseEvents)
  BY DEF ResponsesInit
<1>2. /\ r \in Converters
      /\ r.item = Nothing /\ r.kind = Nothing /\ r.part = <<>> /\ r.call = 0 /\ r.at = 0
      /\ r.content = <<>> /\ r.summary = <<>> /\ r.output = <<>>
  <2>1. <<>> \in Seq(Texts) /\ <<>> \in Texts /\ <<>> \in Seq(Items)
    BY DEF Texts
  <2>2. /\ r = [choice |-> 2, kind |-> Nothing, tool |-> 0, at |-> 0,
                item |-> Nothing, call |-> 0, part |-> <<>>, buffer |-> <<>>,
                content |-> <<>>, summary |-> <<>>, output |-> <<>>, first |-> TRUE]
    BY DEF FreshConverter
  <2> HIDE DEF r
  <2>3. r \in Converters
    BY <2>1, <2>2 DEF Converters
  <2> QED BY <2>2, <2>3
<1> HIDE DEF r
<1>3. HoldsAll(<<>>, <<>>)
  <2>1. Places(<<>>) = {}
    BY PlaceIs
  <2>2. DOMAIN <<>> = {}
    OBVIOUS
  <2> QED BY <2>1, <2>2, Zenon DEF HoldsAll
<1>4. Fits(r, <<>>)
  <2>1. Finished(r) = <<>>
    BY <1>2 DEF Finished
  <2>2. Nothing \notin {"message", "reasoning", "tool"}
    BY DEF Nothing
  <2> QED BY <1>2, <1>3, <2>1, <2>2 DEF Fits
<1>5. ReadsOf(<<>>, r, <<>>, 0)
  <2>1. \A ev : Many(<<>>, ev, 0) = 0
    <3> SUFFICES ASSUME NEW ev PROVE Many(<<>>, ev, 0) = 0
      OBVIOUS
    <3>1. {k \in 1..0 : <<>>[k].ev = ev} = {}
      OBVIOUS
    <3> QED BY <3>1, FS_EmptySet DEF Many
  <2>2. ItemsAdded(r) = 0 /\ Len(r.part) = 0 /\ 0 + 0 = 0
    BY <1>2 DEF ItemsAdded
  <2>3. DOMAIN <<>> = {}
    OBVIOUS
  <2>4. Reads(<<>>, <<>>, 0, 0, 0, 0)
    BY <1>1, <2>1, <2>2, <2>3 DEF Reads
  <2> QED BY <1>2, <2>2, <2>4 DEF ReadsOf
<1>6. Taken = <<>> /\ received \in Seq(UpstreamDeltas)
  BY <1>1 DEF Taken
<1> QED BY <1>1, <1>4, <1>5, <1>6 DEF ResponsesInv

(* CreatedReads, of what the variables say. *)
LEMMA CreatedReadsOf ==
  ASSUME NEW r, NEW pieces \in Seq(Pieces), Fits(r, pieces), NEW s, ReadsOf(s, r, pieces, Len(pieces))
  PROVE  /\ CreatedEvents(r) \in Seq(ResponseEvents)
         /\ ReadsOf(s \o CreatedEvents(r), r, pieces, Len(pieces))
<1>1. /\ r \in Converters /\ ItemsAdded(r) \in Nat /\ r.at \in Nat /\ Len(r.part) \in Nat /\ Len(pieces) \in Nat
  <2>1. r \in Converters
    BY DEF Fits
  <2>2. r.at \in Nat /\ r.part \in Seq(Texts)
    BY <2>1 DEF Converters
  <2> QED BY <2>1, <2>2, LenProperties DEF ItemsAdded
<1> QED BY <1>1, CreatedReads DEF ReadsOf

(* A delta with a piece. *)
LEMMA PieceKeeps ==
  ASSUME ResponsesInv, ReceiveDelta PROVE ResponsesInv'
<1>1. /\ received \in Seq(UpstreamDeltas) /\ source = "sends" /\ source' = "sends"
      /\ Fits(resp, Taken) /\ ReadsOf(events, resp, Taken, Len(Taken))
      /\ Taken \in Seq(Pieces) /\ Len(Taken) = Len(received)
  BY TakenType DEF ResponsesInv, ReceiveDelta
<1>2. CASE ~listening
  <2>1. received' = received /\ resp' = resp /\ events' = events
    BY <1>2 DEF ReceiveDelta
  <2>2. Taken' = Taken
    BY <2>1 DEF Taken
  <2> QED BY <1>1, <2>1, <2>2 DEF ResponsesInv
<1>3. CASE listening
  <2> DEFINE n == Len(Taken) + 1
  <2>1. PICK d \in UpstreamDeltas :
          /\ received' = Append(received, d) /\ resp' = Processed(resp, Head(d), n)
          /\ events' = events \o CreatedEvents(resp) \o ProcessedEvents(resp, Head(d), n)
    BY <1>1, <1>3 DEF ReceiveDelta
  <2>2. PICK p \in Pieces : p = Head(d)
    BY FirstPiece
  <2>3. ReadsOf(events \o CreatedEvents(resp), resp, Taken, Len(Taken))
    BY <1>1, CreatedReadsOf
  <2>4. ReadsOf((events \o CreatedEvents(resp)) \o ProcessedEvents(resp, p, n),
                Processed(resp, p, n), Append(Taken, p), n)
    BY <1>1, <2>3, PieceReads
  <2>5. Fits(Processed(resp, p, n), Append(Taken, p))
    BY <1>1, PieceFits
  <2>6. received' \in Seq(UpstreamDeltas)
    BY <1>1, <2>1, AppendProperties
  <2>7. Taken' = Append(Taken, p) /\ Len(Taken') = n
    <3>1. Taken' = Append(Taken, p)
      BY <1>1, <2>1, <2>2, TakenMore
    <3> QED BY <1>1, <3>1, AppendProperties
  <2>8. Len(Taken)' = n
    BY <2>7
  <2> HIDE DEF n
  <2> QED BY <1>1, <2>1, <2>2, <2>4, <2>5, <2>6, <2>7, <2>8 DEF ResponsesInv
<1> QED BY <1>2, <1>3

(* A delta without a piece. *)
LEMMA NoPieceKeeps ==
  ASSUME ResponsesInv, ReceiveNoPiece PROVE ResponsesInv'
<1>1. /\ received \in Seq(UpstreamDeltas) /\ source = "sends" /\ source' = "sends" /\ received' = received
      /\ Fits(resp, Taken) /\ ReadsOf(events, resp, Taken, Len(Taken))
      /\ Taken' = Taken /\ Taken \in Seq(Pieces)
  BY TakenType DEF ResponsesInv, ReceiveNoPiece, Taken
<1>2. CASE ~listening
  BY <1>1, <1>2 DEF ReceiveNoPiece, ResponsesInv
<1>3. CASE listening
  <2>1. resp' = [resp EXCEPT !.first = FALSE] /\ events' = events \o CreatedEvents(resp)
    BY <1>3 DEF ReceiveNoPiece
  <2>2. ReadsOf(events', resp, Taken, Len(Taken))
    BY <1>1, <2>1, CreatedReadsOf
  <2>3. resp \in Converters
    BY <1>1 DEF Fits
  <2>4. /\ resp' \in Converters /\ resp'.item = resp.item /\ resp'.kind = resp.kind /\ resp'.call = resp.call
        /\ resp'.tool = resp.tool /\ resp'.at = resp.at /\ resp'.choice = resp.choice
    BY <2>1, <2>3 DEF Converters
  <2>5. /\ resp'.part = resp.part /\ resp'.buffer = resp.buffer /\ resp'.content = resp.content
        /\ resp'.summary = resp.summary /\ resp'.output = resp.output
    BY <2>1, <2>3 DEF Converters
  <2>6. Finished(resp') = Finished(resp)
    BY <2>4, <2>5 DEF Finished, TextsOf
  <2>7. Fits(resp', Taken)
    BY <1>1, <2>4, <2>5, <2>6 DEF Fits, Grows
  <2>8. ReadsOf(events', resp', Taken, Len(Taken))
    BY <2>2, <2>4, <2>5 DEF ReadsOf, ItemsAdded
  <2> QED BY <1>1, <2>7, <2>8 DEF ResponsesInv
<1> QED BY <1>2, <1>3

(* The end: what the output would have been is what it is. *)
LEMMA EOFKeeps ==
  ASSUME ResponsesInv, ReceiveEOF PROVE ResponsesInv'
<1>1. /\ received \in Seq(UpstreamDeltas) /\ source' = "ended" /\ received' = received
      /\ Fits(resp, Taken) /\ ReadsOf(events, resp, Taken, Len(Taken))
      /\ resp' = Final(resp) /\ events' = events \o FinalEvents(resp)
      /\ Taken' = Taken /\ Taken \in Seq(Pieces)
  BY TakenType DEF ResponsesInv, ReceiveEOF, Taken
<1>2. resp'.output = Finished(resp)
  BY <1>1, DoneIs
<1>3. HoldsAll(resp'.output, Taken)
  BY <1>1, <1>2 DEF Fits
<1>4. Nests(events', Taken)
  BY <1>1, EndReads, LenProperties
<1> QED BY <1>1, <1>3, <1>4 DEF ResponsesInv

(* An error is told, and nothing else happens. *)
LEMMA ErrorKeeps ==
  ASSUME ResponsesInv, ReceiveError PROVE ResponsesInv'
<1>1. /\ received \in Seq(UpstreamDeltas) /\ source' = "failed" /\ received' = received /\ resp' = resp
      /\ Fits(resp, Taken) /\ ReadsOf(events, resp, Taken, Len(Taken))
      /\ events' = IF listening THEN Append(events, Unplaced("error")) ELSE events
      /\ Taken' = Taken /\ Taken \in Seq(Pieces)
  BY TakenType DEF ResponsesInv, ReceiveError, Taken
<1> DEFINE e == Unplaced("error")
<1>2. ReadsOf(Append(events, e), resp, Taken, Len(Taken))
  <2>1. resp \in Converters /\ resp.at \in Nat /\ resp.part \in Seq(Texts)
    BY <1>1 DEF Fits, Converters
  <2>2. /\ ItemsAdded(resp) \in Nat /\ Len(resp.part) \in Nat /\ Len(Taken) \in Nat
    BY <1>1, <2>1, LenProperties DEF ItemsAdded
  <2>3. e \in ResponseEvents /\ e.ev = "error"
    BY <2>1, ToldIs DEF EventNames
  <2> HIDE DEF e
  <2>4. FitsNext(e, Taken, ItemsAdded(resp), resp.at, Len(resp.part), Len(Taken))
    BY <2>3 DEF FitsNext
  <2> QED BY <1>1, <2>1, <2>2, <2>3, <2>4, ReadsNext DEF ReadsOf
<1>3. ReadsOf(events', resp, Taken, Len(Taken))
  BY <1>1, <1>2
<1> QED BY <1>1, <1>3 DEF ResponsesInv

(* The inductive invariant of the converter in relay_util/responses_stream.go. *)
THEOREM ResponsesInvariant == ResponsesSpec => []ResponsesInv
<1>1. ResponsesInv /\ [ResponsesNext]_responsesVars => ResponsesInv'
  <2> SUFFICES ASSUME ResponsesInv, [ResponsesNext]_responsesVars PROVE ResponsesInv'
    OBVIOUS
  <2>1. CASE ListenerLeaves
    BY <2>1 DEF ListenerLeaves, ResponsesInv, Taken
  <2>2. CASE UNCHANGED responsesVars
    BY <2>2 DEF responsesVars, ResponsesInv, Taken
  <2> QED BY <2>1, <2>2, PieceKeeps, NoPieceKeeps, EOFKeeps, ErrorKeeps DEF ResponsesNext
<1> QED BY <1>1, ResponsesStarts, PTL DEF ResponsesSpec

(* The response that ends a stream holds, of every delta that came, the piece
   that the converter takes, once and in its order, and the events on the way to
   it nest (chatToResponseStreamClient). *)
THEOREM ConvertedIsInOrder == ResponsesSpec => []ConvertedInOrder
<1>1. ResponsesInv => ConvertedInOrder
  BY ReadsNests, NestsIsEventsNest DEF ResponsesInv, ConvertedInOrder, OutputHoldsConverted, ReadsOf
<1> QED BY <1>1, ResponsesInvariant, PTL
=============================================================================
