---------------------------- MODULE UpkeepProofs ----------------------------
(***************************************************************************)
(* What the daemon does beside the messages, for every value of the        *)
(* constants: the cleanup of a site's archive keeps its buffer and forgets *)
(* only what it may (ArchiveUpkeep), the hourly watch passes nothing       *)
(* unsaid (Watcher). The two share no state.                               *)
(***************************************************************************)
EXTENDS ArchiveUpkeep, Watcher, FiniteSetTheorems, WellFoundedInduction, TLAPS

-----------------------------------------------------------------------------
(* The archive.                                                            *)

Row       == [status : Statuses, day : Nat, nth : Nat]
JobStages == {"free", "row", "status", "ack"}
Jobs      == [id : Ids \cup {0}, at : JobStages, outcome : Outcomes, claimed : BOOLEAN]
Ends      == {"age", "spam", "count", "size", "vacuum", "off"}

(* Rows are as old as they say, in an order of their own.                  *)
RowsOK ==
  /\ rows \in [Live -> Row] /\ Live \subseteq Ids
  /\ \A i \in Live : rows[i].day <= today /\ received[i] <= rows[i].day
  /\ \A i, j \in Live : rows[i].nth = rows[j].nth => i = j
  /\ \E n \in Nat : \A i \in Live : rows[i].nth <= n

Base ==
  /\ policy \in Policies /\ today \in Nat /\ events \in Nat /\ today + events <= MaxEvents
  /\ arrived \in Nat /\ arrived <= MaxRows /\ unsettled \subseteq 1 .. arrived
  /\ seenTo \in Nat /\ seenTo <= arrived /\ file \in Nat /\ checked \in Ids \cup {0}
  /\ job \in Jobs
  /\ job.id = 0 <=> job.at = "free"
  /\ cleaner \in [Cleaners -> [at : StageNames, take : Nat, deleted : BOOLEAN]]
  /\ sends \in [Ids -> Nat] /\ received \in [Ids -> Nat]
  /\ \A i \in Ids : received[i] = NotYetMade \/ received[i] <= today

-----------------------------------------------------------------------------
(* Lemmas about the operators.                                             *)

LEMMA LeastMatch ==
  ASSUME NEW S, S \subseteq Nat, S # {}
  PROVE  \E n \in S : \A m \in S : n <= m
  <1> DEFINE R == {ss \in Nat \X Nat : ss[1] < ss[2]}
  <1>1. IsWellFoundedOn(R, Nat)
    <2>1. OpToRel(<, Nat) = R  BY DEF OpToRel
    <2> QED BY <2>1, NatLessThanWellFounded
  <1>2. \A x, y \in Nat : y < x => <<y, x>> \in R
    OBVIOUS
  <1> HIDE DEF R
  <1>3. PICK x \in S : \A y \in S : ~ (<<y, x>> \in R)  BY <1>1, WFMin
  <1>4. ASSUME NEW y \in S PROVE x <= y
    <2>1. x \in Nat /\ y \in Nat  OBVIOUS
    <2>2. ~(y < x)  BY <1>2, <1>3, <2>1
    <2> QED BY <2>1, <2>2
  <1> QED BY <1>4

LEMMA GreatestOf ==
  ASSUME NEW S \in SUBSET Nat, NEW n \in Nat, \A m \in S : m <= n, S # {}
  PROVE  Max(S) \in S /\ \A m \in S : m <= Max(S)
  <1> DEFINE bounds == {b \in Nat : \A m \in S : m <= b}
  <1>1. bounds \subseteq Nat /\ bounds # {}  OBVIOUS
  <1>2. PICK b \in bounds : \A d \in bounds : b <= d  BY <1>1, LeastMatch
  <1>3. b \in S
    <2> SUFFICES ASSUME b \notin S PROVE FALSE
      OBVIOUS
    <2>1. \A m \in S : m < b  BY <1>2
    <2>2. b - 1 \in Nat
      <3>1. PICK m \in S : m \in Nat /\ m < b  BY <2>1
      <3> QED BY <1>2, <3>1
    <2>3. b - 1 \in bounds  BY <1>2, <2>1, <2>2
    <2> QED BY <1>2, <2>3
  <1>4. \E x \in S : \A y \in S : x >= y  BY <1>2, <1>3
  <1>5. Max(S) \in S /\ \A y \in S : Max(S) >= y  BY <1>4 DEF Max
  <1> QED BY <1>5

LEMMA LeastOf ==
  ASSUME NEW S \in SUBSET Nat, S # {}
  PROVE  Min(S) \in S /\ \A m \in S : Min(S) <= m
  <1>1. \E n \in S : \A m \in S : n <= m  BY LeastMatch
  <1> QED BY <1>1 DEF Min

(* Where a cleanup goes on is a stage of its retention that applies.       *)
LEMMA NextStage ==
  ASSUME NEW retention, NEW n \in 1 .. 6, NEW deleted
  PROVE  /\ StageFrom(retention, n, deleted) \in Ends
         /\ Applies(retention, StageFrom(retention, n, deleted), deleted)
  <1> DEFINE S == {i \in n .. 6 : Applies(retention, Stages[i], deleted)}
  <1>1. Stages[6] = "off" /\ \A i \in 1 .. 6 : Stages[i] \in Ends  BY DEF Stages, Ends
  <1>2. Applies(retention, "off", deleted)  BY DEF Applies
  <1>3. 6 \in S /\ S \in SUBSET Nat  BY <1>1, <1>2
  <1> HIDE DEF S
  <1>4. Min(S) \in S  BY <1>3, LeastOf
  <1> USE DEF S
  <1> QED BY <1>1, <1>4 DEF StageFrom

(* A set of rows counted, and how many of them are the oldest.             *)
LEMMA LiveFinite ==
  ASSUME UpkeepAssumption, Live \subseteq Ids, NEW S, S \subseteq Live
  PROVE  /\ IsFiniteSet(S) /\ Cardinality(S) \in Nat
         /\ Cardinality(Live \ S) \in Nat
         /\ Cardinality(Live \ S) = Cardinality(Live) - Cardinality(S)
         /\ Cardinality(S) <= Cardinality(Live)
  <1>1. IsFiniteSet(Ids)  BY FS_Interval DEF Ids, UpkeepAssumption
  <1>2. IsFiniteSet(Live)  BY <1>1, FS_Subset
  <1>3. IsFiniteSet(S) /\ IsFiniteSet(Live \ S)  BY <1>2, FS_Subset
  <1>4. Live \cap S = S  OBVIOUS
  <1>5. Cardinality(Live \ S) = Cardinality(Live) - Cardinality(S)
    <2>1. Cardinality(Live \ S) = Cardinality(Live) - Cardinality(Live \cap S)
      BY <1>2, FS_Difference
    <2> QED BY <1>4, <2>1
  <1>6. /\ Cardinality(S) \in Nat /\ Cardinality(Live) \in Nat
        /\ Cardinality(Live \ S) \in Nat
    BY <1>2, <1>3, FS_CardinalityType
  <1>7. Cardinality(S) <= Cardinality(Live)  BY <1>2, FS_Subset
  <1> QED BY <1>3, <1>5, <1>6, <1>7

LEMMA OldestAreFew ==
  ASSUME UpkeepAssumption, RowsOK, NEW n \in Nat
  PROVE  /\ OldestFinished(n) \subseteq Live /\ Cardinality(OldestFinished(n)) \in Nat
         /\ Cardinality(OldestFinished(n)) <= n
  <1> DEFINE before(i) == {j \in Finished : rows[j].nth < rows[i].nth}
             rank == [i \in OldestFinished(n) |-> Cardinality(before(i))]
  <1>1. Finished \subseteq Live /\ OldestFinished(n) \subseteq Finished
    BY DEF Finished, OldestFinished
  <1>2. Live \subseteq Ids /\ \A i \in Live : rows[i].nth \in Nat  BY DEF RowsOK, Row
  <1>3. ASSUME NEW i \in Finished
        PROVE  /\ IsFiniteSet(before(i)) /\ Cardinality(before(i)) \in Nat
    BY <1>1, <1>2, LiveFinite
  <1>4. ASSUME NEW i \in Finished, NEW j \in Finished, rows[i].nth < rows[j].nth
        PROVE  Cardinality(before(i)) < Cardinality(before(j))
    <2>1. before(i) \cup {i} \in SUBSET before(j)  BY <1>1, <1>2, <1>4
    <2>2. i \notin before(i)  BY <1>1, <1>2
    <2>3. /\ IsFiniteSet(before(i) \cup {i})
          /\ Cardinality(before(i) \cup {i}) = Cardinality(before(i)) + 1
      BY <1>3, <2>2, FS_AddElement
    <2>4. Cardinality(before(i) \cup {i}) <= Cardinality(before(j))
      BY <1>3, <2>1, FS_Subset
    <2>5. Cardinality(before(i)) \in Nat /\ Cardinality(before(j)) \in Nat  BY <1>3
    <2> QED BY <2>3, <2>4, <2>5
  <1>5. ASSUME NEW i \in OldestFinished(n) PROVE rank[i] \in 0 .. (n - 1)
    <2>1. Cardinality(before(i)) < n  BY DEF OldestFinished
    <2>2. Cardinality(before(i)) \in Nat  BY <1>1, <1>3
    <2>3. rank[i] = Cardinality(before(i))  OBVIOUS
    <2> HIDE DEF before, rank
    <2> QED BY <2>1, <2>2, <2>3
  <1>6. ASSUME NEW i \in OldestFinished(n), NEW j \in OldestFinished(n), rank[i] = rank[j]
        PROVE  i = j
    <2>1. Cardinality(before(i)) = Cardinality(before(j))  BY <1>6
    <2>2. Cardinality(before(i)) \in Nat /\ Cardinality(before(j)) \in Nat  BY <1>1, <1>3
    <2>3. ~ (rows[i].nth < rows[j].nth) /\ ~ (rows[j].nth < rows[i].nth)
      <3>1. ~ (Cardinality(before(i)) < Cardinality(before(j)))  BY <2>1, <2>2
      <3>2. ~ (Cardinality(before(j)) < Cardinality(before(i)))  BY <2>1, <2>2
      <3> QED BY <1>1, <1>4, <3>1, <3>2
    <2>4. rows[i].nth = rows[j].nth  BY <1>1, <1>2, <2>3
    <2> QED BY <1>1, <2>4 DEF RowsOK
  <1>7. rank \in Injection(OldestFinished(n), 0 .. (n - 1))
    <2>1. DOMAIN rank = OldestFinished(n) /\ rank \in [OldestFinished(n) -> 0 .. (n - 1)]
      BY <1>5
    <2> HIDE DEF rank
    <2> QED BY <1>6, <2>1 DEF Injection, IsInjective
  <1>8. IsFiniteSet(0 .. (n - 1)) /\ Cardinality(0 .. (n - 1)) = n
    <2>1. 0 \in Int /\ n - 1 \in Int  OBVIOUS
    <2>2. /\ IsFiniteSet(0 .. (n - 1))
          /\ Cardinality(0 .. (n - 1)) = IF 0 > n - 1 THEN 0 ELSE (n - 1) - 0 + 1
      BY <2>1, FS_Interval
    <2>3. (IF 0 > n - 1 THEN 0 ELSE (n - 1) - 0 + 1) = n  OBVIOUS
    <2> QED BY <2>2, <2>3
  <1>9. Cardinality(OldestFinished(n)) <= n  BY <1>7, <1>8, FS_Injection
  <1>10. OldestFinished(n) \subseteq Live  BY <1>1
  <1> HIDE DEF before, rank
  <1>11. Cardinality(OldestFinished(n)) \in Nat  BY <1>2, <1>10, LiveFinite
  <1> QED BY <1>9, <1>10, <1>11

-----------------------------------------------------------------------------
(* Rows and types.                                                         *)

LEMMA RowsKept ==
  ASSUME RowsOK, UNCHANGED <<rows, received>>, today \in Nat, today' \in Nat, today <= today',
         received \in [Ids -> Nat]
  PROVE  RowsOK' /\ Live' = Live
  <1>1. Live' = Live /\ Ids' = Ids  BY DEF Live
  <1>2. ASSUME NEW i \in Live PROVE rows[i].day <= today'
    <2>1. rows[i].day \in Nat /\ rows[i].day <= today  BY DEF RowsOK, Row
    <2> QED BY <2>1
  <1> QED BY <1>1, <1>2 DEF RowsOK

LEMMA RowsFewer ==
  ASSUME RowsOK, NEW S, rows' = [i \in Live \ S |-> rows[i]], UNCHANGED <<today, received>>
  PROVE  RowsOK' /\ Live' = Live \ S
  <1>1. Live' = Live \ S /\ \A i \in Live \ S : rows'[i] = rows[i]  BY DEF Live
  <1>2. rows' \in [Live \ S -> Row]  BY <1>1 DEF RowsOK
  <1> QED BY <1>1, <1>2 DEF RowsOK

LEMMA RowStatus ==
  ASSUME RowsOK, NEW id \in Live, NEW s \in Statuses,
         rows' = [rows EXCEPT ![id].status = s], UNCHANGED <<today, received>>
  PROVE  /\ RowsOK' /\ Live' = Live
         /\ \A i \in Live : rows'[i].status = IF i = id THEN s ELSE rows[i].status
  <1>1. rows \in [Live -> Row] /\ Live' = Live  BY DEF RowsOK, Live
  <1>2. \A i \in Live : /\ rows'[i] \in Row /\ rows'[i].day = rows[i].day
                        /\ rows'[i].nth = rows[i].nth
                        /\ rows'[i].status = IF i = id THEN s ELSE rows[i].status
    BY <1>1 DEF Row
  <1>3. rows' \in [Live -> Row]  BY <1>1, <1>2
  <1>4. RowsOK'  BY <1>1, <1>2, <1>3 DEF RowsOK
  <1> QED BY <1>1, <1>2, <1>4

LEMMA LastIsLast ==
  ASSUME RowsOK
  PROVE  Last \in Nat /\ \A i \in Live : rows[i].nth <= Last
  <1> DEFINE S == {0} \cup {rows[i].nth : i \in Live}
  <1>1. PICK n \in Nat : \A i \in Live : rows[i].nth <= n  BY DEF RowsOK
  <1>2. \A i \in Live : rows[i].nth \in Nat  BY DEF RowsOK, Row
  <1>3. S \in SUBSET Nat /\ S # {} /\ \A m \in S : m <= n  BY <1>1, <1>2
  <1> HIDE DEF S
  <1>4. Max(S) \in S /\ \A m \in S : m <= Max(S)  BY <1>1, <1>3, GreatestOf
  <1>5. Last = Max(S)  BY DEF Last, S
  <1>6. Last \in Nat  BY <1>3, <1>4, <1>5
  <1>7. \A i \in Live : rows[i].nth \in S  BY DEF S
  <1> QED BY <1>4, <1>5, <1>6, <1>7

LEMMA RowMade ==
  ASSUME UpkeepAssumption, Base, RowsOK, ArchiveReceived
  PROVE  /\ RowsOK' /\ Live' = Live \cup {job.id}
         /\ \A i \in Live : rows'[i] = rows[i]
         /\ job.id \notin Live => rows'[job.id].status = "pending"
  <1> DEFINE new == [status |-> "pending", day |-> today, nth |-> Last + 1]
  <1>1. /\ rows' = [i \in Live \cup {job.id} |-> IF i \in Live THEN rows[i] ELSE new]
        /\ received' = [received EXCEPT ![job.id] = IF @ = NotYetMade THEN today ELSE @]
        /\ today' = today
    BY DEF ArchiveReceived
  <1>2. job.id \in Ids /\ today \in Nat /\ received \in [Ids -> Nat]
    BY DEF Base, Jobs, ArchiveReceived
  <1>3. Last \in Nat /\ \A i \in Live : rows[i].nth <= Last  BY LastIsLast
  <1>4. new \in Row /\ new.status = "pending" /\ new.day = today /\ new.nth = Last + 1
    BY <1>2, <1>3 DEF Row, Statuses
  <1> HIDE DEF new
  <1>5. /\ Live' = Live \cup {job.id} /\ \A i \in Live : rows'[i] = rows[i]
        /\ job.id \notin Live => rows'[job.id] = new
    BY <1>1 DEF Live
  <1>6. rows \in [Live -> Row] /\ Live \subseteq Ids  BY DEF RowsOK
  <1>7. \A i \in Live : rows[i].nth \in Nat /\ rows[i].day \in Nat  BY <1>6 DEF Row
  <1>8. rows' \in [Live' -> Row]  BY <1>1, <1>4, <1>5, <1>6
  <1>9. Live' \subseteq Ids'  BY <1>2, <1>5, <1>6
  <1>10. \A i \in Live' : rows'[i].day <= today' /\ received'[i] <= rows'[i].day
    <2>1. \A i \in Live : rows[i].day <= today /\ received[i] <= rows[i].day  BY DEF RowsOK
    <2>2. \A i \in Ids : received'[i] = IF i = job.id /\ received[i] = NotYetMade
                                        THEN today ELSE received[i]
      BY <1>1, <1>2
    <2>3. ASSUME NEW i \in Live PROVE received'[i] <= rows[i].day
      <3>1. received[i] # NotYetMade
        <4>1. received[i] \in Nat /\ received[i] <= today /\ today <= MaxEvents /\ MaxEvents \in Nat
          BY <1>2, <1>6, <1>7, <2>1 DEF Base, UpkeepAssumption
        <4> QED BY <1>2, <4>1 DEF NotYetMade
      <3> QED BY <1>6, <2>1, <2>2, <3>1
    <2>4. ASSUME job.id \notin Live PROVE received'[job.id] <= today
      <3>1. received[job.id] = NotYetMade \/ received[job.id] <= today  BY <1>2 DEF Base
      <3> QED BY <1>2, <2>2, <3>1
    <2> QED BY <1>1, <1>2, <1>4, <1>5, <2>1, <2>3, <2>4
  <1>11. \A i, j \in Live' : rows'[i].nth = rows'[j].nth => i = j
    <2>1. \A i, j \in Live : rows[i].nth = rows[j].nth => i = j  BY DEF RowsOK
    <2>2. \A i \in Live : rows[i].nth # Last + 1  BY <1>3, <1>7
    <2> QED BY <1>4, <1>5, <2>1, <2>2
  <1>12. Last + 1 \in Nat /\ \A i \in Live' : rows'[i].nth <= Last + 1
    BY <1>3, <1>4, <1>5, <1>7
  <1>13. RowsOK'  BY <1>8, <1>9, <1>10, <1>11, <1>12 DEF RowsOK
  <1> QED BY <1>4, <1>5, <1>13

(* Where a cleanup goes on: its process at the start of a stage.           *)
LEMMA GoesOn ==
  ASSUME Base, NEW p \in Cleaners, NEW n \in 1 .. 6, NEW d \in BOOLEAN, GoOn(p, n, d)
  PROVE  /\ cleaner' \in [Cleaners -> [at : StageNames, take : Nat, deleted : BOOLEAN]]
         /\ cleaner'[p].at \in Ends /\ cleaner'[p].take = 0
         /\ Applies(policy[p], cleaner'[p].at, d)
         /\ cleaner'[p].at = "off" => cleaner'[p] = Off
         /\ \A q \in Cleaners \ {p} : cleaner'[q] = cleaner[q]
  <1> DEFINE stage == StageFrom(policy[p], n, d)
             rec == [at |-> stage, take |-> 0, deleted |-> d /\ stage # "off"]
  <1>1. cleaner' = [cleaner EXCEPT ![p] = rec]  BY DEF GoOn
  <1>2. stage \in Ends /\ Applies(policy[p], stage, d)  BY NextStage
  <1> HIDE DEF stage
  <1>3. /\ rec \in [at : StageNames, take : Nat, deleted : BOOLEAN]
        /\ rec.at = stage /\ rec.take = 0
        /\ stage = "off" => rec = Off
    BY <1>2 DEF Ends, StageNames, Off
  <1> HIDE DEF rec
  <1>4. cleaner \in [Cleaners -> [at : StageNames, take : Nat, deleted : BOOLEAN]]  BY DEF Base
  <1>5. cleaner'[p] = rec  BY <1>1, <1>4
  <1> QED BY <1>1, <1>2, <1>3, <1>4, <1>5

(* What a cleanup never changes keeps its type with it.                    *)
LEMMA BaseCleans ==
  ASSUME Base,
         UNCHANGED <<policy, today, arrived, unsettled, seenTo, job, checked, sends, received>>,
         events' \in Nat, events' <= events, file' \in Nat,
         cleaner' \in [Cleaners -> [at : StageNames, take : Nat, deleted : BOOLEAN]],
         UpkeepAssumption
  PROVE  Base'
  <1>1. /\ today \in Nat /\ events \in Nat /\ MaxEvents \in Nat
        /\ today + events <= MaxEvents /\ today' = today
    BY DEF Base, UpkeepAssumption
  <1>2. \A t, e, f, m \in Nat : t + e <= m /\ f <= e => t + f <= m  OBVIOUS
  <1>3. today' + events' <= MaxEvents'  BY <1>1, <1>2
  <1> QED BY <1>3 DEF Base

LEMMA Counted ==
  ASSUME UpkeepAssumption, Base, RowsOK, NEW p \in Cleaners
  PROVE  /\ policy[p].maxCount \in Nat /\ policy[p].minKeep \in Nat /\ policy[p].maxSize \in Nat
         /\ Cardinality(Live) \in Nat
  <1>1. /\ policy[p].maxCount \in Nat /\ policy[p].minKeep \in Nat /\ policy[p].maxSize \in Nat
    BY DEF Base, UpkeepAssumption, Cleaners
  <1>2. Cardinality(Live) \in Nat  BY LiveFinite DEF RowsOK
  <1> QED BY <1>1, <1>2

(* How many rows a cleanup takes leaves what is to be kept.                *)
LEMMA CountKeeps ==
  ASSUME UpkeepAssumption, Base, RowsOK, NEW p \in Cleaners
  PROVE  LET n == OverCount(Cardinality(Live), policy[p].maxCount, policy[p].minKeep)
         IN  n \in Nat /\ (n # 0 => n + policy[p].minKeep <= Cardinality(Live))
  <1>1. /\ policy[p].maxCount \in Nat /\ policy[p].minKeep \in Nat
        /\ Cardinality(Live) \in Nat
    BY Counted
  <1> QED BY <1>1 DEF OverCount

LEMMA SizeKeeps ==
  ASSUME UpkeepAssumption, Base, RowsOK, NEW p \in Cleaners
  PROVE  LET n == Cardinality(Live)
             keep == policy[p].minKeep
             deletable == IF n > keep THEN n - keep ELSE 0
             excess == IF file > policy[p].maxSize THEN file - policy[p].maxSize ELSE 0
             least == Min({excess, deletable})
         IN  least \in Nat /\ (least # 0 => least + keep <= n)
  <1> DEFINE n == Cardinality(Live)
             keep == policy[p].minKeep
             deletable == IF n > keep THEN n - keep ELSE 0
             excess == IF file > policy[p].maxSize THEN file - policy[p].maxSize ELSE 0
  <1>1. n \in Nat /\ keep \in Nat /\ policy[p].maxSize \in Nat /\ file \in Nat
    BY Counted DEF Base
  <1>2. deletable \in Nat /\ excess \in Nat  BY <1>1
  <1>3. deletable # 0 => deletable + keep <= n  BY <1>1
  <1> HIDE DEF n, keep, deletable, excess
  <1>4. {excess, deletable} \in SUBSET Nat  BY <1>2
  <1>5. /\ Min({excess, deletable}) \in {excess, deletable}
        /\ \A m \in {excess, deletable} : Min({excess, deletable}) <= m
    BY <1>4, LeastOf
  <1>6. Min({excess, deletable}) \in Nat /\ Min({excess, deletable}) <= deletable  BY <1>2, <1>5
  <1>7. Min({excess, deletable}) # 0 => Min({excess, deletable}) + keep <= n
    BY <1>1, <1>2, <1>3, <1>6
  <1> QED BY <1>6, <1>7 DEF n, keep, deletable, excess

-----------------------------------------------------------------------------
(* A step of a cleanup: how its process and the rows may change.           *)
WentOn(p) ==
  /\ cleaner'[p].at \in Ends /\ cleaner'[p].take = 0
  /\ \E d \in BOOLEAN : Applies(policy[p], cleaner'[p].at, d)
  /\ cleaner'[p].at = "off" => cleaner'[p] = Off

Measured(p, from, to) ==
  /\ cleaner[p].at = from /\ cleaner'[p].at = to
  /\ cleaner'[p].take + policy[p].minKeep <= Cardinality(Live)

Gone(p, S) ==
  \/ cleaner[p].at = "age"  /\ S = AgedOut(policy[p])
  \/ cleaner[p].at = "spam" /\ \A i \in S : rows[i].status = "spam"
  \/ cleaner[p].at \in {"count.delete", "size.delete"} /\ S = OldestFinished(cleaner[p].take)

Cleaned(p) ==
  \/ /\ rows' = rows
     /\ \/ WentOn(p) \/ cleaner'[p] = Off
        \/ Measured(p, "count", "count.delete") \/ Measured(p, "size", "size.delete")
  \/ WentOn(p) /\ \E S \in SUBSET Live : rows' = [i \in Live \ S |-> rows[i]] /\ Gone(p, S)

CleanTyped(p) ==
  /\ UNCHANGED <<policy, events, today, arrived, unsettled, seenTo, job, checked, upkeepGhosts>>
  /\ cleaner[p].at # "off" /\ file' \in Nat
  /\ cleaner' \in [Cleaners -> [at : StageNames, take : Nat, deleted : BOOLEAN]]
  /\ \A q \in Cleaners \ {p} : cleaner'[q] = cleaner[q]

LEMMA Deleted ==
  ASSUME UpkeepAssumption, Base, NEW p \in Cleaners, NEW S \in SUBSET Live, NEW n \in 1 .. 6,
         Deletes(p, S, n), cleaner[p].at # "off", Gone(p, S)
  PROVE  CleanTyped(p) /\ Cleaned(p)
  <1> DEFINE d == cleaner[p].deleted \/ S \cap Live # {}
  <1>1. d \in BOOLEAN  BY DEF Base
  <1>2. GoOn(p, n, d)  BY DEF Deletes
  <1> HIDE DEF d
  <1>3. WentOn(p)  BY <1>1, <1>2, GoesOn DEF WentOn
  <1>4. CleanTyped(p)  BY <1>1, <1>2, GoesOn DEF CleanTyped, Deletes, CleanupFrame, Base
  <1>5. rows' = [i \in Live \ S |-> rows[i]]  BY DEF Deletes
  <1> QED BY <1>3, <1>4, <1>5 DEF Cleaned

LEMMA Selected ==
  ASSUME UpkeepAssumption, Base, RowsOK, NEW p \in Cleaners, NEW count \in Nat, NEW n \in 1 .. 6,
         NEW from, NEW to \in StageNames, Wants(p, count, to, n), cleaner[p].at = from,
         from # "off", count # 0 => count + policy[p].minKeep <= Cardinality(Live)
  PROVE  CleanTyped(p) /\ rows' = rows /\ (WentOn(p) \/ Measured(p, from, to))
  <1>1. CASE count = 0
    <2>1. cleaner[p].deleted \in BOOLEAN /\ GoOn(p, n, cleaner[p].deleted)
      BY <1>1 DEF Base, Wants
    <2>2. WentOn(p)  BY <2>1, GoesOn DEF WentOn
    <2>3. CleanTyped(p)  BY <2>1, GoesOn DEF CleanTyped, Wants, CleanupFrame, Base
    <2> QED BY <2>2, <2>3 DEF Wants
  <1>2. CASE count # 0
    <2>1. cleaner' = [cleaner EXCEPT ![p] = [@ EXCEPT !.at = to, !.take = count]]
      BY <1>2 DEF Wants
    <2>2. /\ cleaner' \in [Cleaners -> [at : StageNames, take : Nat, deleted : BOOLEAN]]
          /\ cleaner'[p].at = to /\ cleaner'[p].take = count
          /\ \A q \in Cleaners \ {p} : cleaner'[q] = cleaner[q]
      BY <2>1 DEF Base
    <2>3. CleanTyped(p)  BY <2>2 DEF CleanTyped, Wants, CleanupFrame, Base
    <2> QED BY <1>2, <2>2, <2>3 DEF Measured, Wants
  <1> QED BY <1>1, <1>2

LEMMA CleanupDoes ==
  ASSUME UpkeepAssumption, Base, RowsOK, NEW p \in Cleaners, CleanupStep(p)
  PROVE  CleanTyped(p) /\ Cleaned(p)
  <1>0. cleaner[p].take \in Nat /\ Cardinality(Live) \in Nat  BY Counted DEF Base
  <1>1. CASE CleanupFails(p)
    <2>1. /\ cleaner' = [cleaner EXCEPT ![p] = Off] /\ rows' = rows /\ cleaner[p].at # "off"
          /\ file' = file /\ CleanupFrame
      BY <1>1 DEF CleanupFails
    <2>2. Off \in [at : StageNames, take : Nat, deleted : BOOLEAN]  BY DEF Off, StageNames
    <2>3. /\ cleaner' \in [Cleaners -> [at : StageNames, take : Nat, deleted : BOOLEAN]]
          /\ cleaner'[p] = Off
          /\ \A q \in Cleaners \ {p} : cleaner'[q] = cleaner[q]
      BY <2>1, <2>2 DEF Base
    <2> QED BY <2>1, <2>3 DEF CleanTyped, Cleaned, CleanupFrame, Base
  <1>2. CASE DeleteByAge(p)
    <2>1. AgedOut(policy[p]) \in SUBSET Live  BY DEF AgedOut
    <2> QED BY <1>2, <2>1, Deleted DEF DeleteByAge, Going, Gone
  <1>3. CASE DeleteSpam(p)
    <2> DEFINE S == {i \in Live : rows[i].status = "spam"
                       /\ (policy[p].spam = "afterDays" => Older(i, policy[p].spamDays))}
    <2>1. S \in SUBSET Live /\ \A i \in S : rows[i].status = "spam"  OBVIOUS
    <2>2. Deletes(p, S, 3) /\ cleaner[p].at = "spam"  BY <1>3 DEF DeleteSpam, Going
    <2> HIDE DEF S
    <2> QED BY <2>1, <2>2, Deleted DEF Gone
  <1>4. CASE CountRows(p)
    <2> DEFINE n == OverCount(Cardinality(Live), policy[p].maxCount, policy[p].minKeep)
    <2>1. n \in Nat /\ (n # 0 => n + policy[p].minKeep <= Cardinality(Live))  BY CountKeeps
    <2>2. cleaner[p].at = "count" /\ Wants(p, n, "count.delete", 4)
      BY <1>4 DEF CountRows, Going
    <2> HIDE DEF n
    <2>3. "count.delete" \in StageNames  BY DEF StageNames
    <2> QED BY <2>1, <2>2, <2>3, Selected DEF Cleaned
  <1>5. CASE DeleteCounted(p)
    <2>1. OldestFinished(cleaner[p].take) \in SUBSET Live  BY <1>0, OldestAreFew
    <2> QED BY <1>5, <2>1, Deleted DEF DeleteCounted, Going, Gone
  <1>6. CASE MeasureFile(p)
    <2> DEFINE n == Cardinality(Live)
               keep == policy[p].minKeep
               deletable == IF n > keep THEN n - keep ELSE 0
               excess == IF file > policy[p].maxSize THEN file - policy[p].maxSize ELSE 0
               least == Min({excess, deletable})
    <2>1. least \in Nat /\ (least # 0 => least + policy[p].minKeep <= Cardinality(Live))
      BY SizeKeeps
    <2>2. cleaner[p].at = "size" /\ Wants(p, least, "size.delete", 5)
      BY <1>6 DEF MeasureFile, Going
    <2> HIDE DEF least
    <2>3. "size.delete" \in StageNames  BY DEF StageNames
    <2> QED BY <2>1, <2>2, <2>3, Selected DEF Cleaned
  <1>7. CASE DeleteMeasured(p)
    <2>1. OldestFinished(cleaner[p].take) \in SUBSET Live  BY <1>0, OldestAreFew
    <2> QED BY <1>7, <2>1, Deleted DEF DeleteMeasured, Going, Gone
  <1>8. CASE Vacuum(p)
    <2>1. GoOn(p, 6, FALSE) /\ rows' = rows /\ cleaner[p].at = "vacuum" /\ CleanupFrame
          /\ (file' = Cardinality(Live) \/ file' = file)
      BY <1>8 DEF Vacuum, Going
    <2>2. 6 \in 1 .. 6 /\ FALSE \in BOOLEAN  OBVIOUS
    <2>3. WentOn(p)  BY <2>1, <2>2, GoesOn DEF WentOn
    <2>4. CleanTyped(p)  BY <1>0, <2>1, <2>2, GoesOn DEF CleanTyped, CleanupFrame, Base
    <2> QED BY <2>1, <2>3, <2>4 DEF Cleaned
  <1> QED BY <1>1, <1>2, <1>3, <1>4, <1>5, <1>6, <1>7, <1>8 DEF CleanupStep

-----------------------------------------------------------------------------
(* The archive of the daemon and of the commands, step by step.            *)

LEMMA UpkeepBegins ==
  ASSUME UpkeepAssumption, UpkeepInit
  PROVE  Base /\ RowsOK /\ Live = {}
  <1>1. DOMAIN << >> = {}  OBVIOUS
  <1>2. Live = {}  BY <1>1 DEF UpkeepInit, Live
  <1>3. rows \in [Live -> Row]
    <2>1. rows = [i \in {} |-> 0]  BY <1>1 DEF UpkeepInit
    <2> QED BY <1>2, <2>1
  <1>4. RowsOK
    <2>1. 0 \in Nat  OBVIOUS
    <2> QED BY <1>2, <1>3, <2>1 DEF RowsOK
  <1>5. Base
    BY DEF UpkeepInit, UpkeepAssumption, Base, Free, Jobs, JobStages, Off, StageNames, Ids, NotYetMade
  <1> QED BY <1>2, <1>4, <1>5

(* A cleanup begins: its process at a stage, and the mark of an overlap.   *)
LEMMA Started ==
  ASSUME UpkeepAssumption, Base, RowsOK, NEW p \in Cleaners, StartCleanup(p)
  PROVE  /\ cleaner[p] = Off /\ WentOn(p)
         /\ cleaner' \in [Cleaners -> [at : StageNames, take : Nat, deleted : BOOLEAN]]
         /\ \A q \in Cleaners \ {p} : cleaner'[q] = cleaner[q]
         /\ ~ overlapped' => ~ overlapped /\ \A q \in Cleaners \ {p} : cleaner[q] = Off
         /\ Base' /\ RowsOK' /\ Live' = Live
  <1>1. GoOn(p, 1, FALSE)  BY DEF StartCleanup
  <1>2. 1 \in 1 .. 6 /\ FALSE \in BOOLEAN  OBVIOUS
  <1>3. WentOn(p)  BY <1>1, <1>2, GoesOn DEF WentOn
  <1>4. /\ cleaner' \in [Cleaners -> [at : StageNames, take : Nat, deleted : BOOLEAN]]
        /\ \A q \in Cleaners \ {p} : cleaner'[q] = cleaner[q]
    BY <1>1, <1>2, GoesOn
  <1>5. events' \in Nat /\ events' <= events /\ file' \in Nat
    BY DEF StartCleanup, Event, Base
  <1>6. Base'  BY <1>4, <1>5, BaseCleans DEF StartCleanup
  <1>7. today \in Nat /\ received \in [Ids -> Nat]  BY DEF Base
  <1>8. RowsOK' /\ Live' = Live  BY <1>7, RowsKept DEF StartCleanup
  <1>9. ~ overlapped' => ~ overlapped /\ \A q \in Cleaners \ {p} : cleaner[q] = Off
    BY DEF StartCleanup
  <1>10. cleaner[p] = Off  BY DEF StartCleanup
  <1> QED BY <1>3, <1>4, <1>6, <1>8, <1>9, <1>10

(* The two ways an entry is taken: it is only acknowledged, or handled.    *)
SaidSent(i) == i \in Live /\ rows[i].status = "sent"
SaidSpam(i) == i \in Live /\ rows[i].status = "spam"

TakesUp(i, outcome) ==
  /\ job' = [id |-> i, at |-> "row", outcome |-> outcome, claimed |-> i <= seenTo]
  /\ sends' = [sends EXCEPT ![i] = IF outcome = "sent" THEN @ + 1 ELSE @]
  /\ SaidSent(i) => Upset
  /\ disturbed' = IF SaidSent(i) \/ (SaidSpam(i) /\ outcome # "spam")
                  THEN disturbed \cup {i} ELSE disturbed

LEMMA Taken ==
  ASSUME NEW i \in Ids, TakeEntry(i)
  PROVE  /\ job = Free /\ i \in unsettled /\ i <= seenTo + 1
         /\ \/ job' = Handled(i) /\ SaidSent(i) /\ UNCHANGED <<sends, disturbed>>
            \/ \E outcome \in Outcomes : TakesUp(i, outcome)
         /\ Upset \/ NoUpset
         /\ UNCHANGED <<policy, rows, today, received>>
  BY DEF TakeEntry, LoopFree, TakesUp, SaidSent, SaidSpam

LEMMA BaseStep ==
  ASSUME UpkeepAssumption, Base, RowsOK, UpkeepNext
  PROVE  Base' /\ RowsOK'
  <1>0. /\ today \in Nat /\ received \in [Ids -> Nat] /\ events \in Nat /\ MaxRows \in Nat
        /\ "sent" \in Outcomes /\ MaxEvents \in Nat
    BY DEF Base, UpkeepAssumption
  <1>a. ASSUME NEW i \in Ids
        PROVE  /\ Handled(i) \in Jobs /\ Handled(i).id = i /\ Handled(i).at = "ack" /\ i # 0
    BY <1>0 DEF Handled, Jobs, JobStages, Ids
  <1>b. Free \in Jobs /\ Free.id = 0 /\ Free.at = "free"  BY <1>0 DEF Free, Jobs, JobStages
  <1>1. CASE Arrive
    <2>1. RowsOK'  BY <1>0, <1>1, RowsKept DEF Arrive, upkeepGhosts
    <2>2. /\ arrived' = arrived + 1 /\ arrived < MaxRows /\ events > 0 /\ events' = events - 1
          /\ unsettled' = unsettled \cup {arrived + 1}
          /\ UNCHANGED <<policy, today, seenTo, file, checked, job, cleaner, sends, received>>
      BY <1>1 DEF Arrive, Event, upkeepGhosts
    <2>3. /\ arrived' \in Nat /\ arrived' <= MaxRows /\ seenTo' <= arrived'
          /\ events' \in Nat /\ today' + events' <= MaxEvents
      BY <1>0, <2>2 DEF Base
    <2>4. unsettled' \subseteq 1 .. arrived'
      <3>1. arrived \in Nat /\ unsettled \subseteq 1 .. arrived  BY DEF Base
      <3>2. \A i \in 1 .. arrived : i \in 1 .. arrived + 1  BY <3>1
      <3>3. arrived + 1 \in 1 .. arrived + 1  BY <3>1
      <3> QED BY <2>2, <3>1, <3>2, <3>3
    <2>5. Base'  BY <2>2, <2>3, <2>4 DEF Base
    <2> QED BY <2>1, <2>5
  <1>2. CASE NextDay
    <2>1. today' = today + 1 /\ UNCHANGED <<rows, received>>
      BY <1>2 DEF NextDay, upkeepGhosts
    <2>2. RowsOK'  BY <1>0, <2>1, RowsKept
    <2>3. \A i \in Ids : received[i] = NotYetMade \/ received[i] <= today + 1
      BY <1>0 DEF Base
    <2>4. Base'  BY <1>0, <1>2, <2>3 DEF NextDay, upkeepGhosts, Base, Event, NotYetMade
    <2> QED BY <2>2, <2>4
  <1>3. CASE ArchiveReceived
    <2>1. RowsOK'  BY <1>3, RowMade
    <2>2. job.id \in Ids /\ Live \subseteq Ids  BY <1>3 DEF Base, Jobs, ArchiveReceived, RowsOK
    <2>3. /\ job' = [job EXCEPT !.at = "status"] /\ job.at = "row"
          /\ received' = [received EXCEPT ![job.id] = IF @ = NotYetMade THEN today ELSE @]
          /\ UNCHANGED <<policy, events, today, arrived, unsettled, seenTo, cleaner, checked, sends>>
      BY <1>3 DEF ArchiveReceived
    <2>4. /\ received' \in [Ids -> Nat]
          /\ \A i \in Ids : received'[i] = NotYetMade \/ received'[i] <= today
      BY <1>0, <2>2, <2>3 DEF Base
    <2>5. /\ job' \in Jobs
          /\ job'.id = 0 <=> job'.at = "free"
      BY <2>2, <2>3 DEF Base, Jobs, JobStages
    <2>6. file' \in Nat
      <3>1. Live' \subseteq Ids  BY <2>2, <2>1 DEF RowsOK, Ids
      <3>2. IsFiniteSet(Ids)  BY <1>0, FS_Interval DEF Ids
      <3>3. Cardinality(Live') \in Nat  BY <3>1, <3>2, FS_Subset, FS_CardinalityType
      <3> QED BY <1>3, <3>3 DEF ArchiveReceived, Base, Live
    <2>7. Base'  BY <2>3, <2>4, <2>5, <2>6 DEF Base, NotYetMade
    <2> QED BY <2>1, <2>7
  <1>4. CASE UpdateStatus
    <2>1. /\ job' = Handled(job.id) /\ job.at = "status" /\ job.outcome \in Statuses
          /\ rows' = IF job.id \in Live THEN [rows EXCEPT ![job.id].status = job.outcome] ELSE rows
          /\ UNCHANGED <<policy, events, file, today, arrived, unsettled, seenTo, cleaner, checked,
                         sends, received>>
      BY <1>4 DEF UpdateStatus, upkeepGhosts, Base, Jobs, Statuses
    <2>2. RowsOK'
      <3>1. CASE job.id \in Live  BY <2>1, <3>1, RowStatus
      <3>2. CASE job.id \notin Live  BY <1>0, <2>1, <3>2, RowsKept
      <3> QED BY <3>1, <3>2
    <2>3. job' \in Jobs /\ (job'.id = 0 <=> job'.at = "free")
      BY <1>a, <2>1 DEF Base, Jobs, JobStages
    <2>4. Base'  BY <2>1, <2>3 DEF Base, NotYetMade
    <2> QED BY <2>2, <2>4
  <1>5. CASE Settle
    <2>1. RowsOK'  BY <1>0, <1>5, RowsKept DEF Settle, upkeepGhosts
    <2>2. unsettled' \subseteq unsettled  BY <1>5 DEF Settle
    <2>3. /\ job' = Free /\ UNCHANGED <<policy, events, file, today, arrived, seenTo, cleaner,
                                        checked, sends, received>>
      BY <1>5 DEF Settle, upkeepGhosts
    <2>4. Base'  BY <1>b, <2>2, <2>3 DEF Base, NotYetMade
    <2> QED BY <2>1, <2>4
  <1>6. CASE Die
    <2>1. RowsOK'  BY <1>0, <1>6, RowsKept DEF Die
    <2>2. cleaner' \in [Cleaners -> [at : StageNames, take : Nat, deleted : BOOLEAN]]
      BY <1>6 DEF Die, Base, Off, StageNames
    <2>3. Base'  BY <1>6, <1>b, <2>2 DEF Die, Base, NotYetMade
    <2> QED BY <2>1, <2>3
  <1>7. CASE RetryMarks
    <2>1. RowsOK'
      <3>1. CASE rows' = rows  BY <1>0, <1>7, <3>1, RowsKept DEF RetryMarks
      <3>2. CASE checked \in Live /\ rows' = [rows EXCEPT ![checked].status = "pending"]
        <4>1. "pending" \in Statuses /\ UNCHANGED <<today, received>>
          BY <1>7 DEF Statuses, RetryMarks
        <4> QED BY <3>2, <4>1, RowStatus
      <3> QED BY <1>7, <3>1, <3>2 DEF RetryMarks
    <2>2. Base'  BY <1>7 DEF RetryMarks, Base, NotYetMade
    <2> QED BY <2>1, <2>2
  <1>8. CASE DaemonCleans
    BY <1>8, Started DEF DaemonCleans, Cleaners
  <1>9. CASE CommandCleans
    BY <1>9, Started DEF CommandCleans, Cleaners
  <1>10. ASSUME NEW i \in Ids, TakeEntry(i) PROVE Base' /\ RowsOK'
    <2>1. RowsOK'  BY <1>0, <1>10, RowsKept DEF TakeEntry
    <2>2. /\ seenTo' \in Nat /\ seenTo' <= arrived
          /\ UNCHANGED <<policy, events, file, today, arrived, unsettled, cleaner, checked,
                         received>>
      BY <1>10 DEF TakeEntry, Base
    <2>3. /\ job' \in Jobs /\ (job'.id = 0 <=> job'.at = "free")
          /\ sends' \in [Ids -> Nat]
      <3>1. CASE job' = Handled(i) /\ sends' = sends  BY <1>a, <3>1 DEF Base
      <3>2. ASSUME NEW outcome \in Outcomes, TakesUp(i, outcome)
            PROVE  /\ job' \in Jobs /\ (job'.id = 0 <=> job'.at = "free")
                   /\ sends' \in [Ids -> Nat]
        <4>1. job' \in Jobs /\ job'.id = i /\ job'.at = "row"
          BY <3>2 DEF TakesUp, Jobs, JobStages
        <4>2. sends' \in [Ids -> Nat]  BY <3>2 DEF TakesUp, Base
        <4> QED BY <1>a, <4>1, <4>2
      <3> QED BY <1>10, <3>1, <3>2, Taken
    <2>4. Base'  BY <2>2, <2>3 DEF Base, NotYetMade
    <2> QED BY <2>1, <2>4
  <1>11. ASSUME NEW i \in Ids, RetryChecks(i) PROVE Base' /\ RowsOK'
    <2>1. RowsOK'  BY <1>0, <1>11, RowsKept DEF RetryChecks, upkeepGhosts
    <2>2. /\ events' \in Nat /\ events' <= events /\ checked' = i
          /\ UNCHANGED <<policy, file, today, arrived, unsettled, seenTo, job, cleaner, sends,
                         received>>
      BY <1>0, <1>11 DEF RetryChecks, upkeepGhosts, Event
    <2>3. today + events' <= MaxEvents
      <3>1. \A t, e, f, m \in Nat : t + e <= m /\ f <= e => t + f <= m  OBVIOUS
      <3> QED BY <1>0, <2>2, <3>1 DEF Base
    <2>4. Base'  BY <2>2, <2>3 DEF Base, NotYetMade
    <2> QED BY <2>1, <2>4
  <1>12. ASSUME NEW p \in Cleaners, CleanupStep(p) PROVE Base' /\ RowsOK'
    <2>1. CleanTyped(p) /\ Cleaned(p)  BY <1>12, CleanupDoes
    <2>2. Base'  BY <1>0, <2>1, BaseCleans DEF CleanTyped, upkeepGhosts
    <2>3. RowsOK'
      <3>1. UNCHANGED <<today, received>>  BY <2>1 DEF CleanTyped, upkeepGhosts
      <3>2. CASE rows' = rows  BY <1>0, <3>1, <3>2, RowsKept
      <3>3. ASSUME NEW S, rows' = [i \in Live \ S |-> rows[i]] PROVE RowsOK'
        BY <3>1, <3>3, RowsFewer
      <3> QED BY <2>1, <3>2, <3>3 DEF Cleaned
    <2> QED BY <2>2, <2>3
  <1>13. CASE PassOver
    <2>1. RowsOK'  BY <1>0, <1>13, RowsKept DEF PassOver, upkeepGhosts
    <2>2. Base'  BY <1>13 DEF PassOver, upkeepGhosts, Base, NotYetMade
    <2> QED BY <2>1, <2>2
  <1>14. CASE ArchiveFails
    <2>1. RowsOK'  BY <1>0, <1>14, RowsKept DEF ArchiveFails
    <2>2. job.id \in Ids  BY <1>14 DEF ArchiveFails, Base, Jobs
    <2>3. job' \in Jobs /\ (job'.id = 0 <=> job'.at = "free")
      BY <1>14, <1>a, <1>b, <2>2 DEF ArchiveFails
    <2>4. Base'  BY <1>14, <2>3 DEF ArchiveFails, Base, NotYetMade
    <2> QED BY <2>1, <2>4
  <1> QED BY <1>1, <1>2, <1>3, <1>4, <1>5, <1>6, <1>7, <1>8, <1>9, <1>10, <1>11, <1>12, <1>13,
             <1>14
          DEF UpkeepNext

-----------------------------------------------------------------------------
(* The buffer: while no two cleanups ran at once, one is alone with the    *)
(* rows it counted.                                                        *)

Alone == \A p, q \in Cleaners : p = q \/ cleaner[p] = Off \/ cleaner[q] = Off

Room ==
  \A p \in Cleaners : cleaner[p].at \in {"count.delete", "size.delete"} =>
    cleaner[p].take + policy[p].minKeep <= Cardinality(Live)

(* A cleanup is at a stage only if its retention has it.                   *)
ByRule ==
  \A p \in Cleaners :
    /\ cleaner[p].at = "age" => policy[p].maxAge > 0
    /\ cleaner[p].at \in {"count", "count.delete"} => policy[p].maxCount > 0
    /\ cleaner[p].at \in {"size", "size.delete"} => policy[p].maxSize > 0

CleanInv == ByRule /\ (~ overlapped => Alone /\ Room)
UpkeepInv == Base /\ RowsOK /\ CleanInv

LEMMA RuleWent ==
  ASSUME NEW p \in Cleaners, WentOn(p) \/ cleaner'[p] = Off
  PROVE  /\ cleaner'[p].at = "age" => policy[p].maxAge > 0
         /\ cleaner'[p].at = "count" => policy[p].maxCount > 0
         /\ cleaner'[p].at = "size" => policy[p].maxSize > 0
         /\ cleaner'[p].at \notin {"count.delete", "size.delete"}
  <1>1. CASE cleaner'[p] = Off  BY <1>1 DEF Off
  <1>2. CASE WentOn(p)  BY <1>2 DEF WentOn, Applies, Ends
  <1> QED BY <1>1, <1>2

(* A step that lets the cleanups be, and no row go.                        *)
LEMMA CleanFrame ==
  ASSUME UpkeepAssumption, RowsOK', CleanInv, UNCHANGED <<policy, cleaner, overlapped>>,
         Live \subseteq Live', Base
  PROVE  CleanInv'
  <1>1. Cardinality(Live) \in Nat /\ Cardinality(Live') \in Nat
        /\ Cardinality(Live) <= Cardinality(Live')
    <2>1. Live' \subseteq Ids  BY DEF RowsOK, Ids
    <2>2. IsFiniteSet(Ids)  BY FS_Interval DEF Ids, UpkeepAssumption
    <2>3. IsFiniteSet(Live')  BY <2>1, <2>2, FS_Subset
    <2> QED BY <2>3, FS_Subset, FS_CardinalityType
  <1>2. \A p \in Cleaners : cleaner[p].take \in Nat /\ policy[p].minKeep \in Nat
    BY DEF Base, UpkeepAssumption, Cleaners
  <1>3. ByRule' /\ (Alone => Alone')  BY DEF CleanInv, ByRule, Alone
  <1>4. Room => Room'
    <2> SUFFICES ASSUME Room, NEW p \in Cleaners, cleaner[p].at \in {"count.delete", "size.delete"}
                 PROVE  cleaner[p].take + policy[p].minKeep <= Cardinality(Live')
      BY DEF Room
    <2>1. cleaner[p].take + policy[p].minKeep <= Cardinality(Live)  BY DEF Room
    <2> QED BY <1>1, <1>2, <2>1
  <1> QED BY <1>3, <1>4 DEF CleanInv

(* The same of a step of one cleanup, seen from the other.                 *)
LEMMA CleanMoves ==
  ASSUME CleanInv, NEW p \in Cleaners,
         UNCHANGED policy, \A q \in Cleaners \ {p} : cleaner'[q] = cleaner[q],
         \/ WentOn(p) \/ cleaner'[p] = Off
         \/ rows' = rows /\ Measured(p, "count", "count.delete")
         \/ rows' = rows /\ Measured(p, "size", "size.delete"),
         ~ overlapped' => ~ overlapped /\ \A q \in Cleaners \ {p} : cleaner[q] = Off
  PROVE  CleanInv'
  <1>1. ASSUME NEW q \in Cleaners \ {p}
        PROVE  /\ cleaner'[q].at = "age" => policy'[q].maxAge > 0
               /\ cleaner'[q].at \in {"count", "count.delete"} => policy'[q].maxCount > 0
               /\ cleaner'[q].at \in {"size", "size.delete"} => policy'[q].maxSize > 0
    BY DEF CleanInv, ByRule
  <1>2. /\ cleaner'[p].at = "age" => policy'[p].maxAge > 0
        /\ cleaner'[p].at \in {"count", "count.delete"} => policy'[p].maxCount > 0
        /\ cleaner'[p].at \in {"size", "size.delete"} => policy'[p].maxSize > 0
    <2>1. CASE WentOn(p) \/ cleaner'[p] = Off  BY <2>1, RuleWent
    <2>2. CASE Measured(p, "count", "count.delete")  BY <2>2 DEF CleanInv, ByRule, Measured
    <2>3. CASE Measured(p, "size", "size.delete")  BY <2>3 DEF CleanInv, ByRule, Measured
    <2> QED BY <2>1, <2>2, <2>3
  <1>3. ByRule'  BY <1>1, <1>2 DEF ByRule
  <1>4. ASSUME ~ overlapped' PROVE Alone' /\ Room'
    <2>1. \A q \in Cleaners \ {p} : cleaner'[q] = Off  BY <1>4
    <2>2. Alone'  BY <2>1 DEF Alone
    <2>3. \A q \in Cleaners \ {p} : cleaner'[q].at = "off"  BY <2>1 DEF Off
    <2>4. cleaner'[p].at \in {"count.delete", "size.delete"} =>
            cleaner'[p].take + policy'[p].minKeep <= Cardinality(Live')
      <3>1. CASE WentOn(p) \/ cleaner'[p] = Off  BY <3>1, RuleWent
      <3>2. CASE rows' = rows /\ \E from, to : Measured(p, from, to)
        BY <3>2 DEF Measured, Live
      <3> QED BY <3>1, <3>2
    <2>5. Room'  BY <2>3, <2>4 DEF Room
    <2> QED BY <2>2, <2>5
  <1> QED BY <1>3, <1>4 DEF CleanInv

LEMMA CleanStep ==
  ASSUME UpkeepAssumption, UpkeepInv, UpkeepNext
  PROVE  CleanInv'
  <1>0. Base /\ RowsOK /\ CleanInv /\ RowsOK' /\ Base'  BY BaseStep DEF UpkeepInv
  <1>1. CASE UNCHANGED <<policy, cleaner, overlapped>> /\ Live \subseteq Live'
    BY <1>0, <1>1, CleanFrame
  <1>2. CASE Arrive  BY <1>1, <1>2 DEF Arrive, upkeepGhosts, Live
  <1>3. CASE NextDay  BY <1>1, <1>3 DEF NextDay, upkeepGhosts, Live
  <1>4. CASE ArchiveReceived
    <2>1. Live \subseteq Live'  BY <1>0, <1>4, RowMade
    <2> QED BY <1>1, <1>4, <2>1 DEF ArchiveReceived
  <1>5. CASE UpdateStatus
    <2>1. Live' = Live  BY <1>5 DEF UpdateStatus, Live
    <2> QED BY <1>1, <1>5, <2>1 DEF UpdateStatus, upkeepGhosts
  <1>6. CASE Settle \/ PassOver  BY <1>1, <1>6 DEF Settle, PassOver, upkeepGhosts, Live
  <1>7. CASE Die
    <2>1. "daemon" \in Cleaners /\ cleaner'["daemon"] = Off
          /\ UNCHANGED <<policy, overlapped, rows>>
          /\ \A q \in Cleaners \ {"daemon"} : cleaner'[q] = cleaner[q]
      BY <1>0, <1>7 DEF Die, Base, Cleaners
    <2>2. ~ overlapped' => Alone' /\ Room'
      <3>1. Live' = Live  BY <2>1 DEF Live
      <3>2. Off.at = "off"  BY DEF Off
      <3>3. Alone => Alone'  BY <2>1 DEF Alone
      <3>4. Room => Room'  BY <2>1, <3>1, <3>2 DEF Room
      <3> QED BY <1>0, <2>1, <3>3, <3>4 DEF CleanInv
    <2>3. ByRule'  BY <1>0, <2>1 DEF ByRule, CleanInv, Off
    <2> QED BY <2>2, <2>3 DEF CleanInv
  <1>8. CASE RetryMarks
    <2>1. Live' = Live  BY <1>8 DEF RetryMarks, Live
    <2> QED BY <1>1, <1>8, <2>1 DEF RetryMarks
  <1>13. CASE ArchiveFails  BY <1>1, <1>13 DEF ArchiveFails, Live
  <1>9. ASSUME NEW p \in Cleaners, StartCleanup(p) PROVE CleanInv'
    <2>1. policy' = policy  BY <1>9 DEF StartCleanup
    <2> QED BY <1>0, <1>9, <2>1, Started, CleanMoves
  <1>10. ASSUME NEW i \in Ids, TakeEntry(i) PROVE CleanInv'
    BY <1>1, <1>10 DEF TakeEntry, Live
  <1>11. ASSUME NEW i \in Ids, RetryChecks(i) PROVE CleanInv'
    BY <1>1, <1>11 DEF RetryChecks, upkeepGhosts, Live
  <1>12. ASSUME NEW p \in Cleaners, CleanupStep(p) PROVE CleanInv'
    <2>1. CleanTyped(p) /\ Cleaned(p)  BY <1>0, <1>12, CleanupDoes
    <2>2. /\ UNCHANGED <<policy, overlapped>>
          /\ \A q \in Cleaners \ {p} : cleaner'[q] = cleaner[q]
      BY <2>1 DEF CleanTyped, upkeepGhosts
    <2>3. ASSUME ~ overlapped' PROVE ~ overlapped /\ \A q \in Cleaners \ {p} : cleaner[q] = Off
      <3>1. Alone  BY <1>0, <2>2, <2>3 DEF CleanInv
      <3>2. cleaner[p] # Off  BY <2>1 DEF CleanTyped, Off
      <3> QED BY <2>2, <2>3, <3>1, <3>2 DEF Alone
    <2> QED BY <1>0, <2>1, <2>2, <2>3, CleanMoves DEF Cleaned
  <1> QED BY <1>2, <1>3, <1>4, <1>5, <1>6, <1>7, <1>8, <1>9, <1>10, <1>11, <1>12, <1>13
          DEF UpkeepNext, DaemonCleans, CommandCleans, Cleaners

(* The types, the rows and the cleanups of every state.                    *)
LEMMA UpkeepHolds ==
  ASSUME UpkeepAssumption
  PROVE  UpkeepSpec => []UpkeepInv
  <1>1. UpkeepInit => UpkeepInv
    <2> SUFFICES ASSUME UpkeepInit PROVE UpkeepInv
      OBVIOUS
    <2>1. Base /\ RowsOK  BY UpkeepBegins
    <2>2. CleanInv  BY DEF UpkeepInit, CleanInv, ByRule, Alone, Room, Off
    <2> QED BY <2>1, <2>2 DEF UpkeepInv
  <1>2. UpkeepInv /\ [UpkeepNext]_upkeepVars => UpkeepInv'
    <2> SUFFICES ASSUME UpkeepInv, [UpkeepNext]_upkeepVars PROVE UpkeepInv'
      OBVIOUS
    <2>1. CASE UpkeepNext  BY <2>1, BaseStep, CleanStep DEF UpkeepInv
    <2>2. CASE UNCHANGED upkeepVars
      BY <2>2 DEF UpkeepInv, Base, RowsOK, CleanInv, ByRule, Alone, Room, Live, upkeepVars,
                  upkeepGhosts
    <2> QED BY <2>1, <2>2
  <1> QED BY <1>1, <1>2, PTL DEF UpkeepSpec


(* min_messages_keep: as long as no second cleanup runs beside it, neither *)
(* delete_by_count nor delete_by_size takes the archive below the buffer.  *)
THEOREM BufferKept ==
  ASSUME UpkeepAssumption
  PROVE  UpkeepSpec => LimitsKeepBuffer
  <1> DEFINE Keeps(p) ==
        (/\ cleaner[p].at \in {"count.delete", "size.delete"} /\ ~ overlapped
         /\ rows' # rows /\ cleaner'[p].at # cleaner[p].at)
        => Cardinality(DOMAIN rows') >= policy[p].minKeep
  <1>1. ASSUME UpkeepInv, UpkeepNext, NEW p \in Cleaners PROVE Keeps(p)
    <2>0. Base /\ RowsOK /\ CleanInv  BY <1>1 DEF UpkeepInv
    <2> SUFFICES ASSUME cleaner[p].at \in {"count.delete", "size.delete"}, ~ overlapped,
                        rows' # rows, cleaner'[p].at # cleaner[p].at
                 PROVE  Cardinality(DOMAIN rows') >= policy[p].minKeep
      OBVIOUS
    <2>1. PICK q \in Cleaners : CleanupStep(q)
      BY <1>1 DEF UpkeepNext, Arrive, NextDay, PassOver, ArchiveReceived, UpdateStatus,
         ArchiveFails, Settle, Die, RetryMarks, DaemonCleans, CommandCleans, StartCleanup, TakeEntry, RetryChecks,
         upkeepGhosts
    <2>2. CleanTyped(q) /\ Cleaned(q)  BY <2>0, <2>1, CleanupDoes
    <2>3. q = p  BY <2>2 DEF CleanTyped
    <2>4. PICK S \in SUBSET Live : rows' = [i \in Live \ S |-> rows[i]] /\ Gone(p, S)
      BY <2>2, <2>3 DEF Cleaned
    <2>5. S = OldestFinished(cleaner[p].take) /\ cleaner[p].take \in Nat
      BY <2>0, <2>4 DEF Gone, Base
    <2>6. Cardinality(S) \in Nat /\ Cardinality(S) <= cleaner[p].take
      BY <2>0, <2>5, OldestAreFew
    <2>7. cleaner[p].take + policy[p].minKeep <= Cardinality(Live)
      BY <2>0 DEF CleanInv, Room
    <2>8. /\ Cardinality(Live \ S) \in Nat
          /\ Cardinality(Live \ S) = Cardinality(Live) - Cardinality(S)
      BY <2>0, LiveFinite DEF RowsOK
    <2>9. DOMAIN rows' = Live \ S  BY <2>4
    <2>10. policy[p].minKeep \in Nat /\ Cardinality(Live) \in Nat  BY <2>0, Counted
    <2> QED BY <2>5, <2>6, <2>7, <2>8, <2>9, <2>10
  <1>2. UpkeepInv /\ [UpkeepNext]_upkeepVars => [\A p \in Cleaners : Keeps(p)]_upkeepVars
    BY <1>1
  <1>3. UpkeepSpec => [][\A p \in Cleaners : Keeps(p)]_upkeepVars
    BY <1>2, UpkeepHolds, PTL DEF UpkeepSpec
  <1> QED BY <1>3 DEF LimitsKeepBuffer


-----------------------------------------------------------------------------
(* What was sent is remembered: by its row, or by the message in hand.     *)

Forgotten(i) ==
  \/ i \in disturbed
  \/ \E p \in Cleaners :
       LET r == policy[p]
       IN  \/ r.maxCount > 0 \/ r.maxSize > 0
           \/ /\ r.maxAge > 0
              /\ \E own \in {r.sentAge, r.failedAge, 0} :
                   received[i] + KeptFor(r, own) <= today

SaysSent(i) ==
  /\ i \in Live /\ rows[i].status = "sent"
  /\ ~ (job.id = i /\ job.at \in {"row", "status"})

WillSaySent(i) ==
  /\ job.id = i /\ job.outcome = "sent"
  /\ job.at = "row" \/ (job.at = "status" /\ i \in Live)
  /\ i \in Live => rows[i].status # "spam"

Remembered == \A i \in Ids : sends[i] > 0 => Forgotten(i) \/ SaysSent(i) \/ WillSaySent(i)

LEMMA KeptForType ==
  ASSUME UpkeepAssumption, Base, NEW p \in Cleaners,
         NEW own \in {policy[p].sentAge, policy[p].failedAge, 0}
  PROVE  /\ KeptFor(policy[p], own) \in Nat
         /\ EffectiveAge(policy[p], own) = KeptFor(policy[p], own)
  <1>1. own \in Nat /\ policy[p].maxAge \in Nat  BY DEF Base, UpkeepAssumption, Cleaners
  <1> QED BY <1>1 DEF KeptFor, EffectiveAge

LEMMA ForgottenStays ==
  ASSUME UpkeepAssumption, Base, NEW i \in Ids, Forgotten(i), UNCHANGED policy,
         today' \in Nat, today <= today', received'[i] \in Nat, received'[i] <= received[i],
         disturbed \subseteq disturbed'
  PROVE  Forgotten(i)'
  <1>1. CASE i \in disturbed  BY <1>1 DEF Forgotten
  <1>2. CASE \E p \in Cleaners : policy[p].maxCount > 0 \/ policy[p].maxSize > 0
    BY <1>2 DEF Forgotten
  <1>3. CASE \E p \in Cleaners : /\ policy[p].maxAge > 0
               /\ \E own \in {policy[p].sentAge, policy[p].failedAge, 0} :
                    received[i] + KeptFor(policy[p], own) <= today
    <2>0. PICK p \in Cleaners : /\ policy[p].maxAge > 0
               /\ \E own \in {policy[p].sentAge, policy[p].failedAge, 0} :
                    received[i] + KeptFor(policy[p], own) <= today
      BY <1>3
    <2>1. PICK own \in {policy[p].sentAge, policy[p].failedAge, 0} :
            policy[p].maxAge > 0 /\ received[i] + KeptFor(policy[p], own) <= today
      BY <2>0
    <2>2. KeptFor(policy[p], own) \in Nat  BY KeptForType
    <2>3. received[i] \in Nat /\ today \in Nat  BY DEF Base
    <2>4. \A a, b, k, t, u \in Nat : b <= a /\ a + k <= t /\ t <= u => b + k <= u
      OBVIOUS
    <2>5. received'[i] + KeptFor(policy[p], own) <= today'  BY <2>1, <2>2, <2>3, <2>4
    <2> QED BY <2>1, <2>5 DEF Forgotten, KeptFor
  <1> QED BY <1>1, <1>2, <1>3 DEF Forgotten

(* A row that is deleted said spam, or its message may be forgotten.       *)
LEMMA DeletedForgotten ==
  ASSUME UpkeepAssumption, Base, RowsOK, CleanInv, NEW p \in Cleaners, NEW S, Gone(p, S),
         NEW i \in S, i \in Live, rows[i].status # "spam"
  PROVE  Forgotten(i)
  <1>1. CASE cleaner[p].at = "age" /\ S = AgedOut(policy[p])
    <2>1. policy[p].maxAge > 0  BY <1>1 DEF CleanInv, ByRule
    <2>2. policy[p].sentAge \in Nat /\ policy[p].failedAge \in Nat /\ policy[p].maxAge \in Nat
      BY DEF Base, UpkeepAssumption, Cleaners
    <2>3. \E own \in {policy[p].sentAge, policy[p].failedAge, 0} :
            Older(i, KeptFor(policy[p], own))
      <3>1. CASE rows[i].status = "sent" /\ Older(i, EffectiveAge(policy[p], policy[p].sentAge))
        BY <3>1, KeptForType
      <3>2. CASE rows[i].status = "failed" /\ Older(i, EffectiveAge(policy[p], policy[p].failedAge))
        BY <3>2, KeptForType
      <3>3. CASE Older(i, policy[p].maxAge)
        <4>1. KeptFor(policy[p], 0) = policy[p].maxAge  BY DEF KeptFor
        <4> QED BY <3>3, <4>1
      <3> QED BY <1>1, <3>1, <3>2, <3>3 DEF AgedOut
    <2>4. PICK own \in {policy[p].sentAge, policy[p].failedAge, 0} :
            Older(i, KeptFor(policy[p], own))
      BY <2>3
    <2>5. KeptFor(policy[p], own) \in Nat  BY KeptForType
    <2>6. /\ today \in Nat /\ rows[i].day \in Nat /\ received[i] \in Nat
          /\ rows[i].day <= today /\ received[i] <= rows[i].day
      BY DEF Base, RowsOK, Row
    <2>7. \A a, b, k, t \in Nat : a <= b /\ b <= t /\ t - b >= k => a + k <= t
      OBVIOUS
    <2>8. received[i] + KeptFor(policy[p], own) <= today
      BY <2>4, <2>5, <2>6, <2>7 DEF Older
    <2> QED BY <2>1, <2>8 DEF Forgotten
  <1>2. CASE cleaner[p].at = "spam" /\ \A j \in S : rows[j].status = "spam"
    BY <1>2
  <1>3. CASE cleaner[p].at \in {"count.delete", "size.delete"}
    BY <1>3 DEF CleanInv, ByRule, Forgotten
  <1> QED BY <1>1, <1>2, <1>3 DEF Gone

(* A step that neither sends nor touches what remembers a message.         *)
LEMMA StaysRemembered ==
  ASSUME UpkeepAssumption, Base, NEW i \in Ids, UNCHANGED <<policy, job>>,
         Forgotten(i) \/ SaysSent(i) \/ WillSaySent(i), today' \in Nat, today <= today',
         received'[i] \in Nat, received'[i] <= received[i], disturbed \subseteq disturbed',
         i \in Live' <=> i \in Live, i \in Live => rows'[i] = rows[i]
  PROVE  (Forgotten(i) \/ SaysSent(i) \/ WillSaySent(i))'
  <1>1. CASE Forgotten(i)  BY <1>1, ForgottenStays
  <1>2. CASE SaysSent(i)  BY <1>2 DEF SaysSent
  <1>3. CASE WillSaySent(i)  BY <1>3 DEF WillSaySent
  <1> QED BY <1>1, <1>2, <1>3


LEMMA RememberStep ==
  ASSUME UpkeepAssumption, UpkeepInv, Remembered, UpkeepNext
  PROVE  Remembered'
  <1> DEFINE Rem(i) == Forgotten(i) \/ SaysSent(i) \/ WillSaySent(i)
  <1> SUFFICES ASSUME NEW i \in Ids, sends'[i] > 0 PROVE Rem(i)'
    BY DEF Remembered
  <1>0. Base /\ RowsOK /\ CleanInv /\ Base' /\ RowsOK'  BY BaseStep DEF UpkeepInv
  <1>a. /\ today \in Nat /\ today' \in Nat /\ received[i] \in Nat /\ received'[i] \in Nat
        /\ rows \in [Live -> Row] /\ Live \subseteq Ids
    BY <1>0 DEF Base, RowsOK
  <1>b. sends[i] > 0 => Rem(i)  BY DEF Remembered
  <1>c. ASSUME NEW t \in Nat PROVE t <= t /\ t <= t + 1  OBVIOUS
  <1>1. CASE Arrive \/ NextDay \/ PassOver \/ (\E j \in Ids : RetryChecks(j))
             \/ DaemonCleans \/ CommandCleans
    <2>1. /\ UNCHANGED <<policy, job, rows, sends, received, disturbed>> /\ today <= today'
      BY <1>1, <1>a, <1>c DEF Arrive, NextDay, PassOver, RetryChecks, DaemonCleans, CommandCleans,
         StartCleanup, upkeepGhosts
    <2>2. Live' = Live  BY <2>1 DEF Live
    <2> QED BY <1>0, <1>a, <1>b, <2>1, <2>2, StaysRemembered
  <1>2. CASE ArchiveReceived
    <2>1. /\ RowsOK' /\ Live' = Live \cup {job.id}
          /\ \A k \in Live : rows'[k] = rows[k]
          /\ job.id \notin Live => rows'[job.id].status = "pending"
      BY <1>0, <1>2, RowMade
    <2>2. /\ job' = [job EXCEPT !.at = "status"] /\ job.at = "row"
          /\ received' = [received EXCEPT ![job.id] = IF @ = NotYetMade THEN today ELSE @]
          /\ UNCHANGED <<policy, today, sends, disturbed>>
      BY <1>2 DEF ArchiveReceived
    <2>3. received'[i] <= received[i]
      <3>1. today <= NotYetMade  BY <1>0 DEF Base, NotYetMade, UpkeepAssumption
      <3>2. NotYetMade \in Nat  BY DEF NotYetMade, UpkeepAssumption
      <3>3. received'[i] = IF i = job.id /\ received[i] = NotYetMade THEN today ELSE received[i]
        BY <1>0, <2>2 DEF Base
      <3> QED BY <1>a, <3>1, <3>2, <3>3
    <2>4. CASE Forgotten(i)
      <3>1. Forgotten(i)'  BY <1>0, <1>a, <2>2, <2>3, <2>4, ForgottenStays
      <3> QED BY <3>1
    <2>5. CASE SaysSent(i)
      <3>1. i # job.id /\ i \in Live'  BY <2>1, <2>2, <2>5 DEF SaysSent
      <3>2. job'.id = job.id  BY <1>0, <2>2 DEF Base, Jobs
      <3>3. SaysSent(i)'  BY <2>1, <2>5, <3>1, <3>2 DEF SaysSent
      <3> QED BY <3>3
    <2>6. CASE WillSaySent(i)
      <3>1. job'.id = i /\ job'.outcome = "sent" /\ job'.at = "status"
        BY <1>0, <2>2, <2>6 DEF Base, Jobs, WillSaySent
      <3>2. i \in Live' /\ rows'[i].status # "spam"  BY <2>1, <2>6 DEF WillSaySent
      <3>3. WillSaySent(i)'  BY <3>1, <3>2 DEF WillSaySent
      <3> QED BY <3>3
    <2> QED BY <1>b, <2>2, <2>4, <2>5, <2>6
  <1>3. CASE UpdateStatus
    <2>1. /\ job' = Handled(job.id) /\ job.at = "status"
          /\ rows' = IF job.id \in Live THEN [rows EXCEPT ![job.id].status = job.outcome] ELSE rows
          /\ UNCHANGED <<policy, today, sends, received, disturbed>>
      BY <1>3 DEF UpdateStatus, upkeepGhosts
    <2>2. /\ Live' = Live
          /\ \A k \in Live : rows'[k].status = IF k = job.id THEN job.outcome ELSE rows[k].status
      BY <1>a, <2>1 DEF Live, Row
    <2>3. CASE Forgotten(i)
      <3>1. Forgotten(i)'  BY <1>0, <1>a, <2>1, <2>3, ForgottenStays
      <3> QED BY <3>1
    <2>4. job'.id = job.id /\ job'.at = "ack"  BY <2>1 DEF Handled
    <2>5. CASE SaysSent(i)
      <3>1. i # job.id  BY <2>1, <2>5 DEF SaysSent
      <3>2. SaysSent(i)'  BY <2>2, <2>4, <2>5, <3>1 DEF SaysSent
      <3> QED BY <3>2
    <2>6. CASE WillSaySent(i)
      <3>1. i \in Live /\ job.id = i /\ job.outcome = "sent"  BY <2>1, <2>6 DEF WillSaySent
      <3>2. SaysSent(i)'  BY <2>2, <2>4, <3>1 DEF SaysSent
      <3> QED BY <3>2
    <2> QED BY <1>b, <2>1, <2>3, <2>5, <2>6
  <1>4. CASE Settle
    <2>1. job.at = "ack" /\ job' = Free
          /\ UNCHANGED <<policy, today, rows, sends, received, disturbed>>
      BY <1>4 DEF Settle, upkeepGhosts
    <2>2. Live' = Live /\ Free.at = "free"  BY <2>1 DEF Live, Free
    <2>3. CASE Forgotten(i)
      <3>1. Forgotten(i)'  BY <1>0, <1>a, <2>1, <2>3, ForgottenStays
      <3> QED BY <3>1
    <2>4. CASE SaysSent(i)
      <3>1. SaysSent(i)'  BY <2>1, <2>2, <2>4 DEF SaysSent
      <3> QED BY <3>1
    <2>5. ~ WillSaySent(i)  BY <2>1 DEF WillSaySent
    <2> QED BY <1>b, <2>1, <2>3, <2>4, <2>5
  <1>5. CASE Die \/ ArchiveFails
    <2>1. /\ disturbed' = IF job.at \in {"row", "status"} THEN disturbed \cup {job.id}
                                                          ELSE disturbed
          /\ job' \in {Free, Handled(job.id)} /\ UNCHANGED <<policy, today, rows, sends, received>>
      BY <1>5 DEF Die, ArchiveFails
    <2>2. Live' = Live /\ Free.at = "free" /\ Handled(job.id).at = "ack"
      BY <2>1 DEF Live, Free, Handled
    <2>3. CASE Forgotten(i)
      <3>1. Forgotten(i)'  BY <1>0, <1>a, <2>1, <2>3, ForgottenStays
      <3> QED BY <3>1
    <2>4. CASE SaysSent(i)
      <3>1. SaysSent(i)'  BY <2>1, <2>2, <2>4 DEF SaysSent
      <3> QED BY <3>1
    <2>5. CASE WillSaySent(i)
      <3>1. i \in disturbed'  BY <2>1, <2>5 DEF WillSaySent
      <3>2. Forgotten(i)'  BY <3>1 DEF Forgotten
      <3> QED BY <3>2
    <2> QED BY <1>b, <2>1, <2>3, <2>4, <2>5
  <1>6. CASE RetryMarks
    <2>1. /\ \/ UNCHANGED <<rows, disturbed>>
             \/ /\ disturbed' = disturbed \cup {checked}
                /\ rows' = IF checked \in Live THEN [rows EXCEPT ![checked].status = "pending"]
                          ELSE rows
          /\ UNCHANGED <<policy, job, today, sends, received>>
      BY <1>6 DEF RetryMarks
    <2>2. CASE i = checked /\ disturbed' = disturbed \cup {checked}
      <3>1. Forgotten(i)'  BY <2>2 DEF Forgotten
      <3> QED BY <3>1
    <2>3. CASE i # checked \/ UNCHANGED <<rows, disturbed>>
      <3>1. Live' = Live /\ (i \in Live => rows'[i] = rows[i]) /\ disturbed \subseteq disturbed'
        BY <1>a, <2>1, <2>3 DEF Live
      <3> QED BY <1>0, <1>a, <1>b, <2>1, <3>1, StaysRemembered
    <2> QED BY <2>1, <2>2, <2>3
  <1>7. ASSUME NEW j \in Ids, TakeEntry(j) PROVE Rem(i)'
    <2>1. /\ job = Free /\ UNCHANGED <<policy, today, rows, received>>
          /\ \/ job' = Handled(j) /\ UNCHANGED <<sends, disturbed>>
             \/ \E outcome \in Outcomes : TakesUp(j, outcome)
      BY <1>7, Taken
    <2>2. disturbed \subseteq disturbed'  BY <2>1 DEF TakesUp
    <2>3. Live' = Live /\ Free.at = "free"  BY <2>1 DEF Live, Free
    <2>4. CASE Forgotten(i)
      <3>1. Forgotten(i)'  BY <1>0, <1>a, <2>1, <2>2, <2>4, ForgottenStays
      <3> QED BY <3>1
    <2>5. CASE SaysSent(i)
      <3>1. CASE i # j \/ job' = Handled(j)
        <4>1. ~ (job'.id = i /\ job'.at \in {"row", "status"})
          BY <2>1, <3>1 DEF TakesUp, Handled
        <4>2. SaysSent(i)'  BY <2>1, <2>3, <2>5, <4>1 DEF SaysSent
        <4> QED BY <4>2
      <3>2. ASSUME i = j, NEW outcome \in Outcomes, TakesUp(j, outcome) PROVE Rem(i)'
        <4>1. i \in disturbed'  BY <2>5, <3>2 DEF TakesUp, SaysSent, SaidSent
        <4>2. Forgotten(i)'  BY <4>1 DEF Forgotten
        <4> QED BY <4>2
      <3> QED BY <2>1, <3>1, <3>2
    <2>6. ~ WillSaySent(i)  BY <2>1, <2>3 DEF WillSaySent
    <2>7. CASE ~ (sends[i] > 0)
      <3>0. sends \in [Ids -> Nat] /\ sends' \in [Ids -> Nat]  BY <1>0 DEF Base
      <3>1. PICK outcome \in Outcomes : TakesUp(j, outcome)  BY <2>1, <2>7
      <3>2. i = j /\ outcome = "sent"  BY <2>7, <3>0, <3>1 DEF TakesUp
      <3>3. CASE SaidSent(i) \/ SaidSpam(i)
        <4>1. i \in disturbed'  BY <3>1, <3>2, <3>3 DEF TakesUp
        <4>2. Forgotten(i)'  BY <4>1 DEF Forgotten
        <4> QED BY <4>2
      <3>4. CASE i \in Live => rows[i].status # "spam"
        <4>1. job'.id = i /\ job'.outcome = "sent" /\ job'.at = "row"
          BY <3>1, <3>2 DEF TakesUp
        <4>2. WillSaySent(i)'  BY <2>1, <2>3, <3>4, <4>1 DEF WillSaySent
        <4> QED BY <4>2
      <3> QED BY <3>3, <3>4 DEF SaidSpam
    <2> QED BY <1>b, <2>4, <2>5, <2>6, <2>7
  <1>8. ASSUME NEW p \in Cleaners, CleanupStep(p) PROVE Rem(i)'
    <2>1. CleanTyped(p) /\ Cleaned(p)  BY <1>0, <1>8, CleanupDoes
    <2>2. UNCHANGED <<policy, job, today, sends, received, disturbed>>
      BY <2>1 DEF CleanTyped, upkeepGhosts
    <2>3. CASE rows' = rows
      <3>1. Live' = Live  BY <2>3 DEF Live
      <3> QED BY <1>0, <1>a, <1>b, <2>2, <2>3, <3>1, StaysRemembered
    <2>4. ASSUME NEW S \in SUBSET Live, rows' = [k \in Live \ S |-> rows[k]], Gone(p, S)
          PROVE  Rem(i)'
      <3>1. Live' = Live \ S /\ \A k \in Live \ S : rows'[k] = rows[k]  BY <2>4 DEF Live
      <3>2. CASE i \notin S  BY <1>0, <1>a, <1>b, <2>2, <3>1, <3>2, StaysRemembered
      <3>3. CASE i \in S /\ rows[i].status # "spam"
        <4>1. Forgotten(i)  BY <1>0, <2>4, <3>3, DeletedForgotten
        <4>2. Forgotten(i)'  BY <1>0, <1>a, <2>2, <4>1, ForgottenStays
        <4> QED BY <4>2
      <3>4. CASE i \in S /\ rows[i].status = "spam"
        <4>1. ~ SaysSent(i) /\ ~ WillSaySent(i)  BY <2>4, <3>4 DEF SaysSent, WillSaySent
        <4>2. Forgotten(i)  BY <1>b, <2>2, <4>1
        <4>3. Forgotten(i)'  BY <1>0, <1>a, <2>2, <4>2, ForgottenStays
        <4> QED BY <4>3
      <3> QED BY <3>2, <3>3, <3>4
    <2> QED BY <2>1, <2>3, <2>4 DEF Cleaned
  <1> HIDE DEF Rem
  <1> QED BY <1>1, <1>2, <1>3, <1>4, <1>5, <1>6, <1>7, <1>8 DEF UpkeepNext

-----------------------------------------------------------------------------
(* The types of the archive: its rows are of messages that arrived, the    *)
(* file is never smaller than they are, a cleanup never counts more of     *)
(* them than there can be.                                                 *)
Bounds ==
  /\ Live \subseteq 1 .. arrived /\ Cardinality(Live) <= file
  /\ job.id \in unsettled \cup {0} /\ checked \in 0 .. arrived
  /\ \A p \in Cleaners : cleaner[p].take <= MaxRows
  /\ upsets \in 0 .. MaxUpsets

LEMMA UpsetsLeft ==
  ASSUME UpkeepAssumption, upsets \in 0 .. MaxUpsets, Upset \/ NoUpset
  PROVE  upsets' \in 0 .. MaxUpsets
  <1>1. MaxUpsets \in Nat  BY DEF UpkeepAssumption
  <1> QED BY <1>1 DEF Upset, NoUpset

LEMMA FewerAreFewer ==
  ASSUME UpkeepAssumption, RowsOK, NEW S \in SUBSET Live
  PROVE  Cardinality(S) <= Cardinality(Live) /\ Cardinality(S) <= MaxRows
  <1>1. MaxRows \in Nat  BY DEF UpkeepAssumption
  <1>2. IsFiniteSet(Ids) /\ Cardinality(Ids) = MaxRows
    <2>1. Cardinality(1 .. MaxRows) = IF 1 > MaxRows THEN 0 ELSE MaxRows - 1 + 1
      BY <1>1, FS_Interval
    <2>2. (IF 1 > MaxRows THEN 0 ELSE MaxRows - 1 + 1) = MaxRows  BY <1>1
    <2>3. 1 \in Int /\ MaxRows \in Int  BY <1>1
    <2>4. IsFiniteSet(1 .. MaxRows)  BY <2>3, FS_Interval, Zenon
    <2> QED BY <2>1, <2>2, <2>4 DEF Ids
  <1>3. Cardinality(S) <= Cardinality(Live)  BY LiveFinite DEF RowsOK
  <1>4. S \in SUBSET Ids  BY DEF RowsOK
  <1> QED BY <1>2, <1>3, <1>4, FS_Subset

(* A cleanup takes rows away and nothing else but VACUUM touches the file. *)
LEMMA CleanupFile ==
  ASSUME NEW p \in Cleaners, CleanupStep(p)
  PROVE  /\ Upset \/ NoUpset
         /\ file' = file \/ (file' = Cardinality(Live) /\ rows' = rows)
  BY DEF CleanupStep, CleanupFails, DeleteByAge, DeleteSpam, CountRows, DeleteCounted,
         MeasureFile, DeleteMeasured, Vacuum, Deletes, Wants

LEMMA BoundsCleaned ==
  ASSUME UpkeepAssumption, Base, RowsOK, Bounds, NEW p \in Cleaners, CleanupStep(p)
  PROVE  Bounds'
  <1>1. CleanTyped(p) /\ Cleaned(p)  BY CleanupDoes
  <1>2. upsets' \in 0 .. MaxUpsets  BY CleanupFile, UpsetsLeft DEF Bounds
  <1>3. /\ Cardinality(Live) \in Nat /\ file \in Nat /\ MaxRows \in Nat
        /\ Cardinality(Live) <= file /\ Cardinality(Live) <= MaxRows
    BY Counted, FewerAreFewer DEF Base, UpkeepAssumption, Bounds
  <1>4. Live' \subseteq Live /\ (rows' = rows => Live' = Live)
    BY <1>1 DEF Cleaned, Live
  <1>5. Cardinality(Live') <= file'
    <2>1. Cardinality(Live') <= Cardinality(Live)  BY <1>4, FewerAreFewer
    <2>2. Cardinality(Live') \in Nat  BY <1>4, LiveFinite DEF RowsOK
    <2>3. CASE file' = file  BY <1>3, <2>1, <2>2, <2>3
    <2>4. CASE file' = Cardinality(Live) /\ rows' = rows  BY <1>4, <2>1, <2>4
    <2> QED BY <2>3, <2>4, CleanupFile
  <1>6. cleaner'[p].take <= MaxRows
    <2>1. CASE WentOn(p)  BY <1>3, <2>1 DEF WentOn
    <2>2. CASE cleaner'[p] = Off  BY <1>3, <2>2 DEF Off
    <2>3. ASSUME NEW from, NEW to, Measured(p, from, to) PROVE cleaner'[p].take <= MaxRows
      <3>1. cleaner'[p].take \in Nat /\ policy[p].minKeep \in Nat
        BY <1>1, Counted DEF CleanTyped
      <3> QED BY <1>3, <2>3, <3>1 DEF Measured
    <2> QED BY <1>1, <2>1, <2>2, <2>3 DEF Cleaned
  <1>7. \A q \in Cleaners : cleaner'[q].take <= MaxRows
    BY <1>1, <1>6 DEF CleanTyped, Bounds
  <1> QED BY <1>1, <1>2, <1>4, <1>5, <1>7 DEF CleanTyped, Bounds

LEMMA BoundsStep ==
  ASSUME UpkeepAssumption, Base, RowsOK, Bounds, UpkeepNext
  PROVE  Bounds'
  <1>0. /\ MaxRows \in Nat /\ arrived \in Nat /\ file \in Nat /\ unsettled \subseteq 1 .. arrived
        /\ Live \subseteq 1 .. arrived /\ checked \in 0 .. arrived
        /\ job.id \in unsettled \cup {0} /\ upsets \in 0 .. MaxUpsets
    BY DEF Base, Bounds, UpkeepAssumption
  <1>1. ASSUME Live' = Live, UNCHANGED <<file, arrived, unsettled, job, checked>>,
               \A p \in Cleaners : cleaner'[p].take <= MaxRows, upsets' \in 0 .. MaxUpsets
        PROVE  Bounds'
    BY <1>1 DEF Bounds
  <1>2. CASE Arrive
    <2>1. /\ arrived' = arrived + 1 /\ unsettled' = unsettled \cup {arrived + 1}
          /\ UNCHANGED <<rows, file, job, cleaner, checked, upsets>> /\ Live' = Live
      BY <1>2 DEF Arrive, Live
    <2>2. Live \subseteq 1 .. arrived' /\ checked \in 0 .. arrived'  BY <1>0, <2>1
    <2> QED BY <1>0, <2>1, <2>2 DEF Bounds
  <1>3. CASE NextDay  BY <1>0, <1>1, <1>3 DEF NextDay, Bounds, Live
  <1>4. CASE ArchiveReceived
    <2>1. job.id \in 1 .. arrived  BY <1>0, <1>4 DEF ArchiveReceived, Base, Jobs
    <2>2. Live' = Live \cup {job.id} /\ RowsOK'  BY <1>4, RowMade
    <2>3. file' = IF Cardinality(Live') > file THEN Cardinality(Live') ELSE file
      BY <1>4 DEF ArchiveReceived, Live
    <2>4. Cardinality(Live') \in Nat
      <3>0. IsFiniteSet(1 .. MaxRows)  BY <1>0, FS_Interval
      <3>1. IsFiniteSet(Ids)  BY <3>0 DEF Ids
      <3>2. Live' \subseteq Ids  BY <2>2 DEF RowsOK, Ids
      <3> QED BY <3>1, <3>2, FS_Subset, FS_CardinalityType
    <2>5. Cardinality(Live') <= file'  BY <1>0, <2>3, <2>4
    <2>6. /\ job' = [job EXCEPT !.at = "status"]
          /\ UNCHANGED <<arrived, unsettled, cleaner, checked, upsets>>
      BY <1>4 DEF ArchiveReceived
    <2>7. job'.id = job.id  BY <2>6 DEF Base, Jobs
    <2> QED BY <1>0, <2>1, <2>2, <2>5, <2>6, <2>7 DEF Bounds
  <1>5. CASE UpdateStatus
    <2>1. Live' = Live  BY <1>5 DEF UpdateStatus, Live
    <2>2. job' = Handled(job.id)  BY <1>5 DEF UpdateStatus
    <2>3. job'.id = job.id  BY <2>2 DEF Handled
    <2> QED BY <1>5, <2>1, <2>3 DEF UpdateStatus, Bounds
  <1>6. CASE Settle
    <2>1. upsets' \in 0 .. MaxUpsets  BY <1>0, <1>6, UpsetsLeft DEF Settle
    <2>2. Live' = Live /\ job'.id = 0  BY <1>6 DEF Settle, Free, Live
    <2> QED BY <1>6, <2>1, <2>2 DEF Settle, Bounds
  <1>7. CASE Die
    <2>1. upsets' \in 0 .. MaxUpsets  BY <1>0, <1>7, UpsetsLeft DEF Die
    <2>2. Live' = Live /\ job'.id = 0  BY <1>7 DEF Die, Free, Live
    <2>3. \A p \in Cleaners : cleaner'[p].take <= MaxRows
      BY <1>0, <1>7 DEF Die, Base, Bounds, Off
    <2> QED BY <1>7, <2>1, <2>2, <2>3 DEF Die, Bounds
  <1>8. CASE RetryMarks
    <2>1. Live' = Live /\ checked' = 0  BY <1>8 DEF RetryMarks, Live
    <2>2. upsets' \in 0 .. MaxUpsets  BY <1>0, <1>8, UpsetsLeft DEF RetryMarks
    <2> QED BY <1>0, <1>8, <2>1, <2>2 DEF RetryMarks, Bounds
  <1>9. ASSUME NEW p \in Cleaners, StartCleanup(p) PROVE Bounds'
    <2>1. /\ WentOn(p) /\ \A q \in Cleaners \ {p} : cleaner'[q] = cleaner[q]
          /\ Live' = Live
      BY <1>9, Started
    <2>2. \A q \in Cleaners : cleaner'[q].take <= MaxRows
      BY <1>0, <2>1 DEF WentOn, Bounds
    <2> QED BY <1>0, <1>1, <1>9, <2>1, <2>2 DEF StartCleanup
  <1>10. ASSUME NEW i \in Ids, TakeEntry(i) PROVE Bounds'
    <2>1. job'.id = i /\ i \in unsettled /\ Live' = Live
      BY <1>10, Taken DEF Handled, TakesUp, Live
    <2>2. upsets' \in 0 .. MaxUpsets  BY <1>0, <1>10, Taken, UpsetsLeft
    <2> QED BY <1>10, <2>1, <2>2 DEF TakeEntry, Bounds
  <1>11. ASSUME NEW i \in Ids, RetryChecks(i) PROVE Bounds'
    <2>1. checked' \in 0 .. arrived /\ Live' = Live  BY <1>0, <1>11 DEF RetryChecks, Live
    <2> QED BY <1>11, <2>1 DEF RetryChecks, Bounds
  <1>12. CASE PassOver  BY <1>12 DEF PassOver, Bounds, Live
  <1>13. CASE ArchiveFails
    <2>1. upsets' \in 0 .. MaxUpsets  BY <1>0, <1>13, UpsetsLeft DEF ArchiveFails
    <2>2. Live' = Live /\ job'.id \in {0, job.id}
      BY <1>13 DEF ArchiveFails, Free, Handled, Live
    <2> QED BY <1>0, <1>13, <2>1, <2>2 DEF ArchiveFails, Bounds
  <1> QED BY <1>2, <1>3, <1>4, <1>5, <1>6, <1>7, <1>8, <1>9, <1>10, <1>11, <1>12, <1>13,
             BoundsCleaned
          DEF UpkeepNext, DaemonCleans, CommandCleans, Cleaners

LEMMA UpkeepTyped ==
  ASSUME UpkeepAssumption
  PROVE  UpkeepSpec => []UpkeepTypeOK
  <1>1. UpkeepInit => Bounds
    <2> SUFFICES ASSUME UpkeepInit PROVE Bounds
      OBVIOUS
    <2>1. Live = {}  BY UpkeepBegins
    <2>2. Cardinality(Live) = 0  BY <2>1, FS_EmptySet
    <2> QED BY <2>1, <2>2 DEF UpkeepInit, Bounds, UpkeepAssumption, Free, Off
  <1>2. UpkeepInv /\ Bounds /\ [UpkeepNext]_upkeepVars => Bounds'
    <2> SUFFICES ASSUME UpkeepInv, Bounds, [UpkeepNext]_upkeepVars PROVE Bounds'
      OBVIOUS
    <2>1. CASE UpkeepNext  BY <2>1, BoundsStep DEF UpkeepInv
    <2>2. CASE UNCHANGED upkeepVars  BY <2>2 DEF upkeepVars, Bounds, Live
    <2> QED BY <2>1, <2>2
  <1>3. UpkeepInv /\ Bounds => UpkeepTypeOK
    <2> SUFFICES ASSUME UpkeepInv, Bounds PROVE UpkeepTypeOK
      OBVIOUS
    <2>1. /\ \A i \in Live : rows[i].status \in Statuses /\ rows[i].day <= today
          /\ today <= MaxEvents
      <3>1. today \in Nat /\ events \in Nat /\ today + events <= MaxEvents /\ MaxEvents \in Nat
        BY DEF UpkeepInv, Base, UpkeepAssumption
      <3>2. today <= MaxEvents  BY <3>1
      <3> QED BY <3>2 DEF UpkeepInv, RowsOK, Row
    <2>2. \A p \in Cleaners :
            cleaner[p] \in [at : StageNames, take : 0 .. MaxRows, deleted : BOOLEAN]
      <3>1. MaxRows \in Nat  BY DEF UpkeepAssumption
      <3>2. cleaner \in [Cleaners -> [at : StageNames, take : Nat, deleted : BOOLEAN]]
        BY DEF UpkeepInv, Base
      <3> QED BY <3>1, <3>2 DEF Bounds
    <2>3. upsets \in 0 .. MaxUpsets  BY DEF Bounds
    <2>4. seenTo \in 0 .. arrived
      <3>1. seenTo \in Nat /\ arrived \in Nat /\ seenTo <= arrived  BY DEF UpkeepInv, Base
      <3> QED BY <3>1
    <2> QED BY <2>1, <2>2, <2>3, <2>4 DEF UpkeepInv, Base, Bounds, UpkeepTypeOK, Live
  <1> QED BY <1>1, <1>2, <1>3, UpkeepHolds, PTL DEF UpkeepSpec

(* The archive keeps a message from being sent twice: again only what its  *)
(* cleanup may have forgotten, what a crash, a failed statement, the       *)
(* operator or the lists of spam set back, or what it cannot be asked of.  *)
THEOREM SentOnceKnown ==
  ASSUME UpkeepAssumption
  PROVE  UpkeepSpec => SentAgainOnlyForgotten
  <1> DEFINE Again(i) ==
        (sends'[i] > sends[i] /\ sends[i] > 0) =>
          \/ i \in disturbed \/ upsets' < upsets
          \/ \E p \in Cleaners :
               LET r == policy[p]
               IN  \/ r.maxCount > 0 \/ r.maxSize > 0
                   \/ /\ r.maxAge > 0
                      /\ \E own \in {r.sentAge, r.failedAge, 0} :
                           received[i] + KeptFor(r, own) <= today
  <1>1. UpkeepInit => Remembered  BY DEF UpkeepInit, Remembered
  <1>2. UpkeepInv /\ Remembered /\ [UpkeepNext]_upkeepVars => Remembered'
    <2> SUFFICES ASSUME UpkeepInv, Remembered, [UpkeepNext]_upkeepVars PROVE Remembered'
      OBVIOUS
    <2>1. CASE UpkeepNext  BY <2>1, RememberStep
    <2>2. CASE UNCHANGED upkeepVars
      BY <2>2 DEF Remembered, Forgotten, SaysSent, WillSaySent, Live, upkeepVars, upkeepGhosts
    <2> QED BY <2>1, <2>2
  <1>3. UpkeepSpec => []Remembered  BY <1>1, <1>2, UpkeepHolds, PTL DEF UpkeepSpec
  <1>4. ASSUME UpkeepInv, Remembered, UpkeepTypeOK, UpkeepNext, NEW i \in Ids PROVE Again(i)
    <2> SUFFICES ASSUME sends'[i] > sends[i], sends[i] > 0
                 PROVE  Forgotten(i) \/ upsets' < upsets
      BY DEF Forgotten
    <2>1. sends \in [Ids -> Nat]  BY <1>4 DEF UpkeepInv, Base
    <2>2. PICK j \in Ids : TakeEntry(j)
      <3>1. sends' # sends  BY <2>1
      <3>2. ASSUME NEW p \in Cleaners, CleanupStep(p) PROVE sends' = sends
        BY <1>4, <3>2, CleanupDoes DEF UpkeepInv, CleanTyped, upkeepGhosts
      <3> QED BY <1>4, <3>1, <3>2 DEF UpkeepNext, Arrive, NextDay, PassOver, ArchiveReceived,
                 UpdateStatus, ArchiveFails, Settle, Die, RetryMarks, DaemonCleans, CommandCleans, StartCleanup, RetryChecks,
                 upkeepGhosts
    <2>3. PICK outcome \in Outcomes : TakesUp(j, outcome)  BY <2>1, <2>2, Taken
    <2>4. job = Free /\ i = j
      <3>1. job = Free  BY <2>2, Taken
      <3> QED BY <2>1, <2>3, <3>1 DEF TakesUp
    <2>5. CASE SaidSent(i)
      <3>1. upsets' = upsets - 1  BY <2>3, <2>4, <2>5 DEF TakesUp, Upset
      <3>2. upsets \in Nat  BY <1>4 DEF UpkeepTypeOK, UpkeepAssumption
      <3> QED BY <3>1, <3>2
    <2>6. CASE ~ SaidSent(i)
      <3>1. ~ SaysSent(i) /\ ~ WillSaySent(i)
        BY <2>4, <2>6 DEF SaidSent, SaysSent, WillSaySent, Free
      <3> QED BY <1>4, <3>1 DEF Remembered
    <2> QED BY <2>5, <2>6
  <1>5. UpkeepInv /\ Remembered /\ UpkeepTypeOK /\ [UpkeepNext]_upkeepVars
        => [\A i \in Ids : Again(i)]_upkeepVars
    BY <1>4
  <1>6. UpkeepSpec => [][\A i \in Ids : Again(i)]_upkeepVars
    BY <1>3, <1>5, UpkeepHolds, UpkeepTyped, PTL DEF UpkeepSpec
  <1> QED BY <1>6 DEF SentAgainOnlyForgotten

-----------------------------------------------------------------------------
(* The watch.                                                              *)

(* The alerts of a run are about receipts and jobs that exist.             *)
Bounded == Len(receipts) + failedRun <= MaxNews /\ (failing => failedRun > 0)

(* What a state tells of receipts is covered: every bad one its cursor has *)
(* passed was told or lost with its message, or is in `found`.             *)
Covered(state, found) ==
  state.looked =>
    \A n \in (state.from + 1) .. state.cursor :
      receipts[n] = "bad" => \/ told[<<"receipt", n>>] > 0 \/ <<"receipt", n>> \in lost
                             \/ <<"receipt", n>> \in found

(* From the reading on, what the run's copy has passed is among the alerts *)
(* it still has to tell; when it is saved they have been told, or lost.    *)
WatchInv ==
  /\ WatchTypeOK /\ Bounded
  /\ Covered(saved, {})
  /\ Covered(st, IF runStep = "save" THEN {} ELSE alerts)

LEMMA WatchBegins == WatchAssumption /\ WatchInit => WatchInv
  <1> SUFFICES ASSUME WatchAssumption, WatchInit PROVE WatchInv
    OBVIOUS
  <1>1. Blank \in WatchState /\ Blank.cursor = 0 /\ ~Blank.looked  BY DEF Blank, WatchState
  <1>2. MaxNews \in Nat /\ MaxBreaks \in Nat  BY DEF WatchAssumption
  <1>3. told \in [News -> Nat] /\ lost = {} /\ alerts \subseteq Items /\ runStep \in WatchSteps
    BY DEF WatchInit, WatchSteps
  <1>4. failing \in BOOLEAN /\ ~ failing  BY Zenon DEF WatchInit
  <1>5. WatchTypeOK  BY <1>1, <1>2, <1>3, <1>4 DEF WatchInit, WatchTypeOK
  <1>6. Bounded  BY <1>2, <1>4 DEF WatchInit, Bounded
  <1> QED BY <1>1, <1>5, <1>6 DEF WatchInit, WatchInv, Covered

(* The states a run's copy goes through.                                   *)
LEMMA CopyTypes ==
  ASSUME NEW s \in WatchState, NEW n \in Nat, NEW m \in Nat, NEW k \in Nat
  PROVE  /\ [s EXCEPT !.hbHour = n] \in WatchState
         /\ [s EXCEPT !.jobRun = n] \in WatchState
         /\ [s EXCEPT !.staleHour = n] \in WatchState
         /\ [s EXCEPT !.jobRun = n, !.staleHour = m] \in WatchState
         /\ [s EXCEPT !.canary = n] \in WatchState
         /\ [s EXCEPT !.cursor = n] \in WatchState
         /\ [s EXCEPT !.looked = TRUE, !.cursor = n, !.from = n] \in WatchState
         /\ [s EXCEPT !.canary = n, !.canaryAt = m, !.digestDay = k] \in WatchState
  BY DEF WatchState

(* A step of a run that leaves its cursor alone and tells nothing.         *)
LEMMA CoverageKept ==
  ASSUME WatchInv, UNCHANGED <<receipts, jobFile, saved, told, lost>>, WatchTypeOK',
         st'.looked = st.looked, st'.from = st.from, st'.cursor = st.cursor,
         runStep # "save", runStep' # "save", alerts \subseteq alerts'
  PROVE  WatchInv'
  <1>1. Bounded'  BY DEF WatchInv, Bounded, jobFile
  <1> QED BY <1>1 DEF WatchInv, Covered

(* The world moves: the run's copy and what was told stay as they are.     *)
LEMMA WorldKept ==
  ASSUME WatchInv, UNCHANGED <<saved, st, alerts, runStep, told, lost>>, WatchTypeOK', Bounded',
         \A n \in 1 .. Len(receipts) : receipts'[n] = receipts[n]
  PROVE  WatchInv'
  <1>1. /\ st.from \in Nat /\ st.cursor \in Nat /\ st.cursor <= Len(receipts)
        /\ saved.from \in Nat /\ saved.cursor \in Nat /\ saved.cursor <= Len(receipts)
        /\ Len(receipts) \in Nat
    BY DEF WatchInv, WatchTypeOK, WatchState
  <1>2. \A n \in (saved.from + 1) .. saved.cursor : receipts'[n] = receipts[n]  BY <1>1
  <1>3. \A n \in (st.from + 1) .. st.cursor : receipts'[n] = receipts[n]  BY <1>1
  <1> QED BY <1>2, <1>3 DEF WatchInv, Covered

LEMMA WatchWorld ==
  ASSUME WatchAssumption, WatchInv
  PROVE  /\ NextHour => WatchInv'
         /\ DaemonStopsOrStarts => WatchInv'
         /\ JobFails => WatchInv'
         /\ JobSucceeds => WatchInv'
         /\ \A kind \in {"good", "bad"} : EmitReceipt(kind) => WatchInv'
         /\ \A c \in DOMAIN mails : DaemonTakes(c) => WatchInv'
  <1> USE DEF runVars, saidVars, jobFile, worldVars
  <1>1. ASSUME NextHour PROVE WatchInv'
    <2>1. WatchTypeOK' /\ Bounded'  BY <1>1 DEF NextHour, WatchInv, WatchTypeOK, Bounded
    <2> QED BY <1>1, <2>1, WorldKept DEF NextHour
  <1>2. ASSUME DaemonStopsOrStarts PROVE WatchInv'
    <2>1. alive' \in BOOLEAN  BY <1>2, Zenon DEF DaemonStopsOrStarts
    <2>2. breaks' \in Nat  BY <1>2 DEF DaemonStopsOrStarts, Break, WatchInv, WatchTypeOK
    <2>3. UNCHANGED <<now, receipts, failedRun, failing, lastOk, mails, saved, st, alerts, runStep,
                      told, lost, mislaid, unsaved>>
      BY <1>2 DEF DaemonStopsOrStarts
    <2>4. WatchTypeOK' /\ Bounded'  BY <2>1, <2>2, <2>3 DEF WatchInv, WatchTypeOK, Bounded
    <2> QED BY <2>3, <2>4, WorldKept
  <1>3. ASSUME JobFails PROVE WatchInv'
    <2>1. failing' \in BOOLEAN  BY <1>3, Zenon DEF JobFails
    <2>2. /\ failedRun' = failedRun + 1 /\ Len(receipts) + failedRun < MaxNews
          /\ UNCHANGED <<now, alive, receipts, lastOk, mails, saved, st, alerts, runStep, told, lost,
                         mislaid, unsaved, breaks>>
      BY <1>3 DEF JobFails
    <2>3. WatchTypeOK' /\ Bounded'
      BY <2>1, <2>2 DEF WatchInv, WatchTypeOK, Bounded, WatchAssumption
    <2> QED BY <2>2, <2>3, WorldKept
  <1>6. ASSUME JobSucceeds PROVE WatchInv'
    <2>1. failing' \in BOOLEAN /\ ~ failing'  BY <1>6, Zenon DEF JobSucceeds
    <2>2. /\ lastOk' = now
          /\ UNCHANGED <<now, alive, receipts, failedRun, mails, saved, st, alerts, runStep, told,
                         lost, mislaid, unsaved, breaks>>
      BY <1>6 DEF JobSucceeds
    <2>3. WatchTypeOK' /\ Bounded'  BY <2>1, <2>2 DEF WatchInv, WatchTypeOK, Bounded
    <2> QED BY <2>2, <2>3, WorldKept
  <1>4. ASSUME NEW kind \in {"good", "bad"}, EmitReceipt(kind) PROVE WatchInv'
    <2>1. receipts \in Seq({"good", "bad"}) /\ failedRun \in Nat /\ MaxNews \in Nat
      BY DEF WatchInv, WatchTypeOK, WatchAssumption
    <2>2. receipts' \in Seq({"good", "bad"}) /\ Len(receipts') = Len(receipts) + 1
      BY <1>4, <2>1 DEF EmitReceipt
    <2>3. \A n \in 1 .. Len(receipts) : receipts'[n] = receipts[n]
      BY <1>4, <2>1 DEF EmitReceipt
    <2>4. UNCHANGED <<now, alive, failedRun, failing, lastOk, mails, saved, st, alerts, runStep,
                      told, lost, mislaid, unsaved, breaks>>
      BY <1>4 DEF EmitReceipt
    <2>5. saved.cursor <= Len(receipts') /\ st.cursor <= Len(receipts')
      <3>1. /\ saved.cursor \in Nat /\ st.cursor \in Nat /\ Len(receipts) \in Nat
            /\ saved.cursor <= Len(receipts) /\ st.cursor <= Len(receipts)
        BY <2>1 DEF WatchInv, WatchTypeOK, WatchState
      <3>2. \A c, l \in Nat : c <= l => c <= l + 1  OBVIOUS
      <3> QED BY <2>2, <3>1, <3>2
    <2>6. WatchTypeOK'  BY <2>2, <2>4, <2>5 DEF WatchInv, WatchTypeOK
    <2>7. Bounded'
      <3>1. Len(receipts') + failedRun' <= MaxNews  BY <1>4, <2>1, <2>2, <2>4 DEF EmitReceipt
      <3>2. failing' => failedRun' > 0  BY <2>4 DEF WatchInv, Bounded
      <3> QED BY <3>1, <3>2 DEF Bounded
    <2> QED BY <2>3, <2>4, <2>6, <2>7, WorldKept
  <1>5. ASSUME NEW c \in DOMAIN mails, DaemonTakes(c) PROVE WatchInv'
    <2> DEFINE Fates == {"queued", "acked", "mailed"}
    <2>0. PICK fate \in Fates : mails' = [mails EXCEPT ![c] = fate]
      <3>1. \E fate \in {"queued", "acked", "mailed"} : mails' = [mails EXCEPT ![c] = fate]
        BY <1>5 DEF DaemonTakes
      <3> QED BY <3>1
    <2>1. mails' \in Seq(Fates)
      <3>1. mails \in Seq(Fates)  BY DEF WatchInv, WatchTypeOK
      <3> HIDE DEF Fates
      <3> QED BY <2>0, <3>1
    <2>2. breaks' \in Nat
      <3>1. breaks \in Nat  BY DEF WatchInv, WatchTypeOK
      <3>2. breaks' = breaks \/ (breaks > 0 /\ breaks' = breaks - 1)
        BY <1>5, Zenon DEF DaemonTakes, Break, NoBreak
      <3> QED BY <3>1, <3>2
    <2>3. UNCHANGED <<now, alive, receipts, failedRun, failing, lastOk, saved, st, alerts, runStep,
                      told, lost, mislaid, unsaved>>
      BY <1>5 DEF DaemonTakes
    <2>4. WatchTypeOK' /\ Bounded'  BY <2>1, <2>2, <2>3 DEF WatchInv, WatchTypeOK, Bounded
    <2> QED BY <2>3, <2>4, WorldKept
  <1> QED BY <1>1, <1>2, <1>3, <1>4, <1>5, <1>6

-----------------------------------------------------------------------------
(* The steps of a run.                                                     *)

LEMMA WatchStarts == WatchInv /\ Start => WatchInv'
  <1> SUFFICES ASSUME WatchInv, Start PROVE WatchInv'
    OBVIOUS
  <1>1. st' = saved /\ alerts' = {} /\ runStep' = "heartbeat"  BY DEF Start, At
  <1>2. UNCHANGED <<worldVars, mails, saved, told, lost, mislaid, unsaved, breaks>>
    BY DEF Start, RunFrame, NoBreak
  <1>3. WatchTypeOK' /\ Bounded'
    BY <1>1, <1>2 DEF WatchInv, WatchTypeOK, Bounded, WatchSteps, worldVars, jobFile
  <1> QED BY <1>1, <1>2, <1>3 DEF WatchInv, Covered, worldVars

(* What a check does: a copy of the right type whose cursor stays, and     *)
(* alerts of the right type among which the ones before remain.            *)
LEMMA CheckKept ==
  ASSUME WatchInv, RunFrame, breaks' \in Nat, mislaid' \in Nat, mails' = mails,
         st' \in WatchState, st'.looked = st.looked, st'.from = st.from, st'.cursor = st.cursor,
         alerts' \subseteq Items, alerts \subseteq alerts',
         runStep # "save", runStep' \in WatchSteps \ {"save"}
  PROVE  WatchInv'
  <1>1. WatchTypeOK'  BY DEF WatchInv, WatchTypeOK, RunFrame, worldVars, jobFile
  <1> QED BY <1>1, CoverageKept DEF RunFrame, worldVars, jobFile

LEMMA WatchHeartbeat == WatchInv /\ CheckHeartbeat => WatchInv'
  <1> SUFFICES ASSUME WatchInv, CheckHeartbeat PROVE WatchInv'
    OBVIOUS
  <1>1. runStep = "heartbeat" /\ runStep' = "receipts" /\ RunFrame /\ mails' = mails
    BY DEF CheckHeartbeat, At
  <1>2. breaks' \in Nat /\ mislaid' \in Nat
    BY DEF CheckHeartbeat, Break, NoBreak, WatchInv, WatchTypeOK
  <1>3. now + 1 \in Nat /\ 0 \in Nat /\ st \in WatchState  BY DEF WatchInv, WatchTypeOK
  <1>4. \/ st' = st \/ st' = [st EXCEPT !.hbHour = 0] \/ st' = [st EXCEPT !.hbHour = now + 1]
    BY DEF CheckHeartbeat
  <1>5. st' \in WatchState  BY <1>3, <1>4, CopyTypes
  <1>6. st'.looked = st.looked /\ st'.from = st.from /\ st'.cursor = st.cursor
    BY <1>3, <1>4 DEF WatchState
  <1>7. alerts' \subseteq alerts \cup {<<"heartbeat", 0>>} /\ alerts \subseteq alerts'
    BY DEF CheckHeartbeat
  <1>8. MaxNews \in Nat  BY WatchAssumption DEF WatchAssumption
  <1>9. alerts' \subseteq Items  BY <1>7, <1>8 DEF Items, News, WatchInv, WatchTypeOK
  <1> QED BY <1>1, <1>2, <1>5, <1>6, <1>7, <1>9, CheckKept DEF WatchSteps

LEMMA WatchReads == WatchInv /\ ReadReceipts => WatchInv'
  <1> SUFFICES ASSUME WatchInv, ReadReceipts PROVE WatchInv'
    OBVIOUS
  <1>1. runStep = "receipts" /\ runStep' = "jobs" /\ RunFrame /\ mails' = mails
    BY DEF ReadReceipts, At
  <1>2. breaks' \in Nat /\ mislaid' \in Nat
    BY DEF ReadReceipts, Break, NoBreak, WatchInv, WatchTypeOK
  <1>3. /\ st \in WatchState /\ st.from \in Nat /\ st.cursor \in Nat
        /\ Len(receipts) \in Nat /\ Len(receipts) <= MaxNews /\ MaxNews \in Nat
    <2>1. st \in WatchState /\ receipts \in Seq({"good", "bad"}) /\ failedRun \in Nat
          /\ Len(receipts) + failedRun <= MaxNews
      BY DEF WatchInv, WatchTypeOK, Bounded
    <2>2. st.from \in Nat /\ st.cursor \in Nat /\ Len(receipts) \in Nat
      BY <2>1 DEF WatchState
    <2>3. MaxNews \in Nat  BY WatchAssumption DEF WatchAssumption
    <2>4. Len(receipts) <= MaxNews  BY <2>1, <2>2, <2>3
    <2> QED BY <2>1, <2>2, <2>3, <2>4
  <1>4. CASE ~st.looked
    <2>1. /\ st' = [st EXCEPT !.looked = TRUE, !.cursor = Len(receipts), !.from = Len(receipts)]
          /\ alerts' = alerts
      BY <1>4 DEF ReadReceipts
    <2>2. /\ st' \in WatchState /\ st'.looked
          /\ st'.cursor = Len(receipts) /\ st'.from = Len(receipts)
      BY <1>3, <2>1, CopyTypes DEF WatchState
    <2>3. WatchTypeOK' /\ Bounded'
      BY <1>1, <1>2, <1>3, <2>1, <2>2
      DEF WatchInv, WatchTypeOK, Bounded, RunFrame, worldVars, jobFile, WatchSteps
    <2> QED BY <1>1, <1>3, <2>2, <2>3 DEF WatchInv, Covered, RunFrame, worldVars, WatchTypeOK
  <1>5. CASE st.looked
    <2>1. PICK upto \in st.cursor .. Len(receipts) :
            /\ alerts' = alerts \cup BadAfter(st.cursor, upto)
            /\ st' = [st EXCEPT !.cursor = upto]
      BY <1>5 DEF ReadReceipts, CursorAfter
    <2>2. upto \in Nat /\ upto <= Len(receipts) /\ st.cursor <= upto  BY <1>3
    <2>3. /\ st' \in WatchState /\ st'.looked = st.looked
          /\ st'.cursor = upto /\ st'.from = st.from
      BY <1>3, <2>1, <2>2, CopyTypes DEF WatchState
    <2>4. BadAfter(st.cursor, upto) \subseteq Items
      BY <1>3, <2>2 DEF BadAfter, Items, News
    <2>5. WatchTypeOK' /\ Bounded'
      BY <1>1, <1>2, <1>3, <2>1, <2>2, <2>3, <2>4
      DEF WatchInv, WatchTypeOK, Bounded, RunFrame, worldVars, jobFile, WatchSteps
    <2>6. ASSUME NEW n \in (st.from + 1) .. upto, receipts[n] = "bad"
          PROVE  \/ told[<<"receipt", n>>] > 0 \/ <<"receipt", n>> \in lost
                 \/ <<"receipt", n>> \in alerts'
      <3>1. CASE n <= st.cursor
        <4>1. n \in (st.from + 1) .. st.cursor  BY <1>3, <2>2, <3>1
        <4> QED BY <1>1, <1>5, <2>1, <2>6, <4>1 DEF WatchInv, Covered
      <3>2. CASE ~ (n <= st.cursor)
        <4>1. n \in (st.cursor + 1) .. upto  BY <1>3, <2>2, <3>2
        <4> QED BY <2>1, <2>6, <4>1 DEF BadAfter
      <3> QED BY <3>1, <3>2
    <2>7. Covered(st, alerts)'
      BY <1>1, <2>3, <2>6 DEF Covered, RunFrame, worldVars
    <2> QED BY <1>1, <2>5, <2>7 DEF WatchInv, Covered, RunFrame, worldVars, WatchTypeOK
  <1> QED BY <1>4, <1>5

(* What is said about a run of the job.                                    *)
LEMMA JobSays ==
  ASSUME WatchInv, NEW run, JobAlert(run)
  PROVE  \/ /\ run # NoFailure /\ run[1] # st.jobRun
            /\ st' = [st EXCEPT !.jobRun = run[1]] /\ alerts' = alerts \cup {run[2]}
         \/ st' = st /\ alerts' = alerts
         \/ \E m \in Nat : /\ st' = [st EXCEPT !.staleHour = m]
                           /\ alerts' = alerts \/ alerts' = alerts \cup {<<"stale", 0>>}
  <1>1. now + 1 \in Nat /\ 0 \in Nat  BY DEF WatchInv, WatchTypeOK
  <1> QED BY <1>1 DEF JobAlert, SaysRun

(* What the check of a job does, whatever it reads: it says the last run,  *)
(* says nothing of a run, or finds the file unreadable or missing and      *)
(* writes over what was said.                                              *)
SaysLast == /\ failing /\ failedRun # st.jobRun /\ st'.jobRun = failedRun
            /\ alerts' = alerts \cup {<<"job", failedRun>>} /\ mislaid' = mislaid
SaysNone == /\ alerts' \subseteq alerts \cup {<<"file", 0>>, <<"stale", 0>>}
            /\ st'.jobRun = st.jobRun /\ (mislaid' = mislaid \/ mislaid' = mislaid + 1)
Mislays  == /\ alerts' \subseteq alerts \cup {<<"file", 0>>, <<"stale", 0>>}
            /\ (st'.jobRun = 0 \/ st'.jobRun > MaxNews) /\ mislaid' = mislaid + 1

OnlyJobs == /\ st' \in WatchState
            /\ st'.looked = st.looked /\ st'.from = st.from /\ st'.cursor = st.cursor
            /\ st'.canary = st.canary /\ st'.canaryAt = st.canaryAt
            /\ st'.digestDay = st.digestDay

LEMMA JobChecked ==
  ASSUME WatchInv, CheckJobs
  PROVE  OnlyJobs /\ alerts \subseteq alerts' /\ (SaysLast \/ SaysNone \/ Mislays)
  <1> DEFINE made == MaxNews + 1 + now \div HoursPerDay
  <1>1. /\ st \in WatchState /\ now \in Nat /\ failedRun \in Nat /\ MaxNews \in Nat
        /\ failing => failedRun > 0
    BY WatchAssumption DEF WatchInv, WatchTypeOK, Bounded, WatchAssumption
  <1>2. made \in Nat /\ made > MaxNews
    <2>1. now \div HoursPerDay \in Nat  BY <1>1, WatchAssumption DEF WatchAssumption
    <2> QED BY <1>1, <2>1
  <1>3. Unreadable = <<made, <<"file", 0>>>> /\ Unreadable # NoFailure
    <2>1. made # 0  BY <1>1, <1>2
    <2>2. Unreadable = <<made, <<"file", 0>>>>  BY DEF Unreadable
    <2> HIDE DEF made
    <2> QED BY <2>1, <2>2 DEF NoFailure
  <1> HIDE DEF made
  <1>4. LastRun # NoFailure => failing /\ LastRun = <<failedRun, <<"job", failedRun>>>>
    BY DEF LastRun
  <1>5. ASSUME NEW n \in Nat, st' = [st EXCEPT !.jobRun = n] PROVE OnlyJobs /\ st'.jobRun = n
    BY <1>1, <1>5, CopyTypes DEF OnlyJobs, WatchState
  <1>6. ASSUME NEW n \in Nat, st' = [st EXCEPT !.staleHour = n]
        PROVE  OnlyJobs /\ st'.jobRun = st.jobRun
    BY <1>1, <1>6, CopyTypes DEF OnlyJobs, WatchState
  <1>7. ASSUME NEW n \in Nat, NEW m \in Nat, st' = [st EXCEPT !.jobRun = n, !.staleHour = m]
        PROVE  OnlyJobs /\ st'.jobRun = n
    BY <1>1, <1>7, CopyTypes DEF OnlyJobs, WatchState
  <1>8. st' = st => OnlyJobs /\ st'.jobRun = st.jobRun  BY <1>1 DEF OnlyJobs
  <1>9. CASE JobAlert(LastRun) /\ mislaid' = mislaid
    <2>1. CASE LastRun # NoFailure /\ LastRun[1] # st.jobRun
               /\ st' = [st EXCEPT !.jobRun = LastRun[1]] /\ alerts' = alerts \cup {LastRun[2]}
      <3>1. LastRun[1] = failedRun /\ LastRun[2] = <<"job", failedRun>> /\ failing
        BY <1>4, <2>1
      <3> QED BY <1>1, <1>5, <1>9, <2>1, <3>1 DEF SaysLast
    <2>2. CASE st' = st /\ alerts' = alerts  BY <1>8, <1>9, <2>2 DEF SaysNone
    <2>3. CASE \E m \in Nat : /\ st' = [st EXCEPT !.staleHour = m]
                              /\ alerts' = alerts \/ alerts' = alerts \cup {<<"stale", 0>>}
      BY <1>6, <1>9, <2>3 DEF SaysNone
    <2> QED BY <1>9, <2>1, <2>2, <2>3, JobSays
  <1>10. CASE JobAlert(Unreadable) /\ mislaid' = mislaid + 1
    <2>1. CASE st' = [st EXCEPT !.jobRun = Unreadable[1]] /\ alerts' = alerts \cup {Unreadable[2]}
      <3>1. Unreadable[1] = made /\ Unreadable[2] = <<"file", 0>>  BY <1>3
      <3> QED BY <1>2, <1>5, <1>10, <2>1, <3>1 DEF Mislays
    <2>2. CASE st' = st /\ alerts' = alerts  BY <1>8, <1>10, <2>2 DEF SaysNone
    <2>3. CASE \E m \in Nat : /\ st' = [st EXCEPT !.staleHour = m]
                              /\ alerts' = alerts \/ alerts' = alerts \cup {<<"stale", 0>>}
      BY <1>6, <1>10, <2>3 DEF SaysNone
    <2> QED BY <1>10, <2>1, <2>2, <2>3, JobSays
  <1>11. CASE ForgetJob /\ mislaid' = mislaid + 1
    BY <1>7, <1>11 DEF ForgetJob, Mislays
  <1>12. CASE UNCHANGED <<st, alerts, mislaid>>  BY <1>8, <1>12 DEF SaysNone
  <1> QED BY <1>9, <1>10, <1>11, <1>12 DEF CheckJobs

LEMMA WatchJobs == WatchInv /\ CheckJobs => WatchInv'
  <1> SUFFICES ASSUME WatchInv, CheckJobs PROVE WatchInv'
    OBVIOUS
  <1>1. runStep = "jobs" /\ runStep' = "canary" /\ RunFrame /\ mails' = mails
    BY DEF CheckJobs, At
  <1>2. breaks' \in Nat  BY DEF CheckJobs, Break, NoBreak, WatchInv, WatchTypeOK
  <1>3. OnlyJobs /\ alerts \subseteq alerts' /\ (SaysLast \/ SaysNone \/ Mislays)
    BY JobChecked
  <1>4. mislaid' \in Nat
    BY <1>3 DEF SaysLast, SaysNone, Mislays, WatchInv, WatchTypeOK
  <1>5. failing => failedRun \in 1 .. MaxNews
    BY WatchAssumption DEF WatchInv, WatchTypeOK, Bounded, WatchAssumption
  <1>6. alerts' \subseteq Items
    <2>1. alerts \subseteq Items  BY DEF WatchInv, WatchTypeOK
    <2>2. <<"file", 0>> \in Items /\ <<"stale", 0>> \in Items  BY DEF Items
    <2>3. failing => <<"job", failedRun>> \in Items  BY <1>5 DEF Items, News
    <2> QED BY <1>3, <2>1, <2>2, <2>3 DEF SaysLast, SaysNone, Mislays
  <1> QED BY <1>1, <1>2, <1>3, <1>4, <1>6, CheckKept DEF WatchSteps, OnlyJobs

LEMMA WatchJudges == WatchInv /\ JudgeCanary => WatchInv'
  <1> SUFFICES ASSUME WatchInv, JudgeCanary PROVE WatchInv'
    OBVIOUS
  <1>1. runStep = "canary" /\ runStep' = "digest" /\ RunFrame /\ mails' = mails /\ breaks' = breaks
    BY DEF JudgeCanary, At, NoBreak
  <1>2. breaks \in Nat /\ st \in WatchState /\ st.canary \in Nat /\ MaxNews \in Nat
    BY WatchAssumption DEF WatchInv, WatchTypeOK, WatchState, WatchAssumption
  <1>3. st' = st \/ st' = [st EXCEPT !.canary = LeftToJudge(st.canary)]  BY DEF JudgeCanary
  <1>4. LeftToJudge(st.canary) \in Nat  BY <1>2 DEF LeftToJudge
  <1>5. st' \in WatchState  BY <1>2, <1>3, <1>4, CopyTypes
  <1>6. st'.looked = st.looked /\ st'.from = st.from /\ st'.cursor = st.cursor
    BY <1>2, <1>3 DEF WatchState
  <1>7. alerts' \subseteq alerts \cup {<<"mail", 0>>} /\ alerts \subseteq alerts'
    BY DEF JudgeCanary
  <1>8. alerts' \subseteq Items  BY <1>2, <1>7 DEF Items, WatchInv, WatchTypeOK
  <1>9. mislaid' \in Nat  BY DEF JudgeCanary, WatchInv, WatchTypeOK
  <1> QED BY <1>1, <1>2, <1>5, <1>6, <1>7, <1>8, <1>9, CheckKept DEF WatchSteps

(* A run that ends before its save leaves nothing but what it told.        *)
LEMMA RunEnds ==
  ASSUME WatchInv, UNCHANGED <<worldVars, saved, saidVars>>, mails' = mails,
         breaks' \in Nat, unsaved' \in Nat, runStep' = "off",
         st' = saved, alerts' = {}
  PROVE  WatchInv'
  <1>1. WatchTypeOK' /\ Bounded'
    BY DEF WatchInv, WatchTypeOK, Bounded, WatchSteps, worldVars, jobFile, saidVars
  <1> QED BY <1>1 DEF WatchInv, Covered, worldVars, saidVars, WatchTypeOK

LEMMA WatchMails == WatchInv /\ Digest => WatchInv'
  <1> SUFFICES ASSUME WatchInv, Digest PROVE WatchInv'
    OBVIOUS
  <1>1. runStep = "digest" /\ UNCHANGED <<worldVars, saved, saidVars>>  BY DEF Digest
  <1>2. /\ breaks \in Nat /\ unsaved \in Nat /\ st \in WatchState /\ now \in Nat
        /\ mails \in Seq({"queued", "acked", "mailed"})
    BY DEF WatchInv, WatchTypeOK
  <1>3. CASE runStep' = "off"
    <2>1. mails' = mails /\ st' = saved /\ alerts' = {} /\ breaks' \in Nat /\ unsaved' \in Nat
      BY <1>2, <1>3 DEF Digest, Break, NoBreak
    <2> QED BY <1>1, <1>3, <2>1, RunEnds
  <1>4. CASE ~DigestDue
    <2>1. runStep' = "tell" /\ UNCHANGED <<mails, st, alerts, digests, unsaved, breaks>>
      BY <1>4 DEF Digest, NoBreak
    <2> QED BY <1>1, <1>2, <2>1, CheckKept DEF RunFrame, saidVars, WatchSteps, WatchInv, WatchTypeOK
  <1>5. CASE DigestDue /\ runStep' # "off"
    <2>1. /\ runStep' = "tell" /\ breaks' = breaks /\ mails' = Append(mails, "queued")
          /\ st' = [st EXCEPT !.canary = Len(mails) + 1, !.canaryAt = now, !.digestDay = Day + 1]
          /\ UNCHANGED <<alerts, unsaved>>
      BY <1>5 DEF Digest, NoBreak
    <2>2. Day + 1 \in Nat
      BY <1>2, WatchAssumption DEF Day, WatchAssumption
    <2>3. st' \in WatchState
      <3>1. Len(mails) + 1 \in Nat  BY <1>2
      <3> QED BY <1>2, <2>1, <2>2, <3>1, CopyTypes
    <2>4. st'.looked = st.looked /\ st'.from = st.from /\ st'.cursor = st.cursor
      BY <1>2, <2>1 DEF WatchState
    <2>5. mails' \in Seq({"queued", "acked", "mailed"})  BY <1>2, <2>1
    <2>6. WatchTypeOK'
      BY <1>1, <2>1, <2>3, <2>4, <2>5
      DEF WatchInv, WatchTypeOK, worldVars, jobFile, saidVars, WatchSteps
    <2> QED BY <1>1, <2>1, <2>4, <2>6, CoverageKept DEF worldVars, jobFile, saidVars
  <1> QED BY <1>3, <1>4, <1>5

LEMMA WatchTells == WatchInv /\ Tell => WatchInv'
  <1> SUFFICES ASSUME WatchInv, Tell PROVE WatchInv'
    OBVIOUS
  <1>1. runStep = "tell" /\ runStep' = "save"  BY DEF Tell, At
  <1>2. UNCHANGED <<worldVars, mails, saved, st, alerts, mislaid, unsaved, breaks>>
    BY DEF Tell, NoBreak
  <1>3. \/ /\ told' = [i \in News |-> IF i \in alerts THEN told[i] + 1 ELSE told[i]]
           /\ lost' = lost
        \/ lost' = lost \cup (alerts \cap News) /\ told' = told
    BY DEF Tell
  <1>4. told \in [News -> Nat] /\ alerts \subseteq Items /\ lost \subseteq News
    BY DEF WatchInv, WatchTypeOK
  <1>5. told' \in [News -> Nat] /\ lost' \subseteq News  BY <1>3, <1>4
  <1>6. WatchTypeOK' /\ Bounded'
    BY <1>1, <1>2, <1>5 DEF WatchInv, WatchTypeOK, Bounded, WatchSteps, worldVars, jobFile
  <1>7. \A n \in 1 .. Len(receipts) : <<"receipt", n>> \in News
    BY WatchAssumption DEF News, WatchInv, WatchTypeOK, Bounded, WatchAssumption
  <1>8. \A n \in 1 .. Len(receipts) :
          \/ told[<<"receipt", n>>] > 0 \/ <<"receipt", n>> \in lost
          \/ <<"receipt", n>> \in alerts
          => told'[<<"receipt", n>>] > 0 \/ <<"receipt", n>> \in lost'
    <2> SUFFICES ASSUME NEW i \in News, told[i] > 0 \/ i \in lost \/ i \in alerts
                 PROVE  told'[i] > 0 \/ i \in lost'
      BY <1>7
    <2> QED BY <1>3, <1>4
  <1>9. /\ (saved.from + 1) .. saved.cursor \subseteq 1 .. Len(receipts)
        /\ (st.from + 1) .. st.cursor \subseteq 1 .. Len(receipts)
    <2>1. /\ saved.from \in Nat /\ saved.cursor \in Nat /\ saved.cursor <= Len(receipts)
          /\ st.from \in Nat /\ st.cursor \in Nat /\ st.cursor <= Len(receipts)
          /\ Len(receipts) \in Nat
      BY DEF WatchInv, WatchTypeOK, WatchState
    <2> QED BY <2>1
  <1>10. Covered(saved, {})'  BY <1>2, <1>8, <1>9 DEF WatchInv, Covered, worldVars
  <1>11. Covered(st, {})'  BY <1>1, <1>2, <1>8, <1>9 DEF WatchInv, Covered, worldVars
  <1> QED BY <1>1, <1>6, <1>10, <1>11 DEF WatchInv, Covered, WatchTypeOK

LEMMA WatchSaves == WatchInv /\ Save => WatchInv'
  <1> SUFFICES ASSUME WatchInv, Save PROVE WatchInv'
    OBVIOUS
  <1>1. /\ runStep = "save" /\ runStep' = "off" /\ alerts' = {}
        /\ UNCHANGED <<worldVars, mails, saidVars>>
    BY DEF Save
  <1>2. breaks' \in Nat /\ unsaved' \in Nat  BY DEF Save, Break, NoBreak, WatchInv, WatchTypeOK
  <1>3. CASE saved' = st /\ st' = st
    <2>1. WatchTypeOK' /\ Bounded'
      BY <1>1, <1>2, <1>3
      DEF WatchInv, WatchTypeOK, Bounded, WatchSteps, worldVars, jobFile, saidVars
    <2> QED BY <1>1, <1>3, <2>1 DEF WatchInv, Covered, worldVars, saidVars, WatchTypeOK
  <1>4. CASE saved' = saved /\ st' = saved  BY <1>1, <1>2, <1>4, RunEnds
  <1> QED BY <1>3, <1>4 DEF Save

LEMMA WatchDies == WatchInv /\ RunDies => WatchInv'
  <1> SUFFICES ASSUME WatchInv, RunDies PROVE WatchInv'
    OBVIOUS
  <1>1. breaks' \in Nat /\ unsaved' \in Nat  BY DEF RunDies, Break, WatchInv, WatchTypeOK
  <1> QED BY <1>1, RunEnds DEF RunDies

LEMMA WatchStep == WatchAssumption /\ WatchInv /\ [WatchNext]_watchVars => WatchInv'
  <1> SUFFICES ASSUME WatchAssumption, WatchInv, [WatchNext]_watchVars PROVE WatchInv'
    OBVIOUS
  <1>1. CASE UNCHANGED watchVars
    BY <1>1
    DEF watchVars, worldVars, jobFile, runVars, saidVars, WatchInv, WatchTypeOK, Bounded, Covered
  <1>2. CASE WatchNext
    BY <1>2, WatchWorld, WatchStarts, WatchHeartbeat, WatchReads, WatchJobs, WatchJudges,
       WatchMails, WatchTells, WatchSaves, WatchDies
    DEF WatchNext
  <1> QED BY <1>1, <1>2

(* However many runs die, wherever, and whichever reads and saves fail: no *)
(* receipt of something undelivered is behind the saved cursor before a    *)
(* message with the alert about it was sent; it is untold only when        *)
(* Telegram did not take that message.                                     *)
THEOREM ReceiptsAreTold == WatchSpec => []NothingPassedUnsaid
  <1>1. WatchSpec => []WatchInv
    BY WatchAssumption, WatchBegins, WatchStep, PTL DEF WatchSpec
  <1>2. WatchInv => NothingPassedUnsaid  BY DEF WatchInv, Covered, NothingPassedUnsaid
  <1> QED BY <1>1, <1>2, PTL

-----------------------------------------------------------------------------
(* Nothing is told twice. What a state has passed, receipts by its cursor  *)
(* and failed runs by the last one told or by a later one, was told once;  *)
(* a run's copy is ahead of the saved state, and its alerts are what lies  *)
(* between the two. The telling counts for the copy as soon as it is done, *)
(* and a copy that is lost after it counts as a run that did not save.     *)
(* What a copy no longer has of a failed run counts as the file mislaid.   *)
Passed(s, i) == IF i[1] = "receipt" THEN i[2] <= s.cursor
                ELSE i[2] < failedRun \/ i[2] = s.jobRun
Once(b) == IF b THEN 1 ELSE 0
MayRepeat(i) == IF i[1] = "job" THEN mislaid ELSE 0
SaidAndKept(i) == Passed(st, i) /\ (runStep # "save" => Passed(saved, i))

(* The job's file is read once in a run; a made-up run is beyond the real. *)
BeforeJobs == runStep \in {"off", "heartbeat", "receipts", "jobs"}
CopyAhead == /\ saved.cursor <= st.cursor
             /\ st.jobRun <= failedRun \/ st.jobRun > MaxNews
             /\ saved.jobRun <= failedRun \/ saved.jobRun > MaxNews
             /\ BeforeJobs => st.jobRun = saved.jobRun
             /\ runStep = "off" => alerts = {}
AlertsNew == runStep # "save" => \A i \in alerts \cap News : Passed(st, i) /\ ~Passed(saved, i)
ToldOnce  == \A i \in News : told[i] <= unsaved + MayRepeat(i) + Once(SaidAndKept(i))
SayInv == CopyAhead /\ AlertsNew /\ ToldOnce

LEMMA SayNumbers ==
  ASSUME WatchInv
  PROVE  /\ saved.cursor \in Nat /\ saved.jobRun \in Nat /\ st.cursor \in Nat /\ st.jobRun \in Nat
         /\ failedRun \in Nat /\ failedRun <= MaxNews /\ MaxNews \in Nat
         /\ unsaved \in Nat /\ mislaid \in Nat
         /\ \A i \in News : told[i] \in Nat /\ MayRepeat(i) \in Nat
         /\ \A i \in News : i[1] \in {"receipt", "job"} /\ i[2] \in 1 .. MaxNews
         /\ \A i \in News : i[1] = "job" => i[1] # "receipt"
  <1>1. /\ st \in WatchState /\ saved \in WatchState /\ failedRun \in Nat /\ Len(receipts) \in Nat
        /\ Len(receipts) + failedRun <= MaxNews /\ MaxNews \in Nat
        /\ unsaved \in Nat /\ mislaid \in Nat /\ told \in [News -> Nat]
    BY WatchAssumption DEF WatchInv, WatchTypeOK, Bounded, WatchAssumption
  <1>2. /\ saved.cursor \in Nat /\ saved.jobRun \in Nat /\ st.cursor \in Nat /\ st.jobRun \in Nat
    BY <1>1 DEF WatchState
  <1>3. failedRun <= MaxNews  BY <1>1
  <1>4. \A i \in News : i[1] \in {"receipt", "job"} /\ i[2] \in 1 .. MaxNews  BY DEF News
  <1>5. \A i \in News : told[i] \in Nat /\ MayRepeat(i) \in Nat  BY <1>1 DEF MayRepeat
  <1> QED BY <1>1, <1>2, <1>3, <1>4, <1>5

LEMMA OnceIs == ASSUME NEW b PROVE Once(b) \in {0, 1}
  BY DEF Once

LEMMA SayBegins == WatchAssumption /\ WatchInit => SayInv
  <1> SUFFICES ASSUME WatchAssumption, WatchInit PROVE SayInv
    OBVIOUS
  <1>1. /\ st = Blank /\ saved = Blank /\ alerts = {} /\ failedRun = 0 /\ unsaved = 0 /\ mislaid = 0
        /\ told = [i \in News |-> 0] /\ runStep = "off"
    BY DEF WatchInit
  <1>2. CopyAhead /\ AlertsNew  BY <1>1 DEF CopyAhead, AlertsNew, Blank
  <1>3. ASSUME NEW i \in News PROVE told[i] <= unsaved + MayRepeat(i) + Once(SaidAndKept(i))
    <2>1. told[i] = 0 /\ MayRepeat(i) = 0  BY <1>1 DEF MayRepeat
    <2> QED BY <1>1, <2>1, OnceIs
  <1> QED BY <1>2, <1>3 DEF SayInv, ToldOnce

(* A copy that keeps what both had keeps the counts.                       *)
LEMMA SayCounts ==
  ASSUME WatchInv, SayInv, UNCHANGED <<told, unsaved>>,
         mislaid' = mislaid \/ mislaid' = mislaid + 1,
         \A i \in News : SaidAndKept(i) => SaidAndKept(i)' \/ (i[1] = "job" /\ mislaid' = mislaid + 1)
  PROVE  ToldOnce'
  <1> SUFFICES ASSUME NEW i \in News PROVE told[i] <= unsaved + MayRepeat(i)' + Once(SaidAndKept(i)')
    BY DEF ToldOnce, Once
  <1> DEFINE k == Once(SaidAndKept(i))
             n == Once(SaidAndKept(i)')
             al == MayRepeat(i)
             nal == MayRepeat(i)'
  <1>1. told[i] <= unsaved + al + k  BY DEF SayInv, ToldOnce
  <1>2. told[i] \in Nat /\ unsaved \in Nat /\ al \in Nat /\ mislaid \in Nat  BY SayNumbers
  <1>3. k \in {0, 1} /\ n \in {0, 1}  BY OnceIs
  <1>4. nal \in Nat /\ nal >= al  BY <1>2 DEF MayRepeat
  <1>5. k = 1 => n = 1 \/ nal = al + 1  BY <1>2 DEF MayRepeat, Once
  <1> HIDE DEF k, n, al, nal
  <1>6. told[i] <= unsaved + nal + n  BY <1>1, <1>2, <1>3, <1>4, <1>5
  <1> QED BY <1>6 DEF n, nal

(* Up to the telling, a run only moves its copy on and adds what is new.   *)
LEMMA SayRuns ==
  ASSUME WatchInv, SayInv, UNCHANGED <<failedRun, saved, told, mislaid, unsaved>>,
         runStep # "save", runStep' # "save", runStep' # "off", BeforeJobs' => BeforeJobs,
         st.cursor <= st'.cursor, st'.cursor \in Nat, st'.jobRun = st.jobRun,
         \A i \in (alerts' \ alerts) \cap News : Passed(st', i) /\ ~Passed(saved, i)
  PROVE  SayInv'
  <1>1. CopyAhead'  BY SayNumbers DEF SayInv, CopyAhead
  <1>2. \A i \in News : Passed(st, i) => Passed(st', i)
    BY SayNumbers DEF Passed
  <1>3. AlertsNew'
    <2> SUFFICES ASSUME NEW i \in alerts' \cap News PROVE Passed(st', i) /\ ~Passed(saved, i)
      BY DEF AlertsNew, Passed
    <2>1. CASE i \in alerts  BY <1>2, <2>1 DEF SayInv, AlertsNew
    <2> QED BY <2>1
  <1>4. ToldOnce'
    <2>1. \A i \in News : SaidAndKept(i) => SaidAndKept(i)'  BY <1>2 DEF SaidAndKept, Passed
    <2> QED BY <2>1, SayCounts
  <1> QED BY <1>1, <1>3, <1>4 DEF SayInv

(* A run that ends without saving falls back to the saved state.           *)
LEMMA SayEnds ==
  ASSUME WatchInv, SayInv, UNCHANGED <<failedRun, saved, saidVars>>, unsaved' = unsaved + 1,
         runStep' = "off", st' = saved, alerts' = {}
  PROVE  SayInv'
  <1>1. CopyAhead' /\ AlertsNew'  BY SayNumbers DEF SayInv, CopyAhead, AlertsNew
  <1>2. ToldOnce'
    <2> SUFFICES ASSUME NEW i \in News PROVE told[i] <= unsaved + 1 + MayRepeat(i) + Once(SaidAndKept(i)')
      BY DEF ToldOnce, Once, MayRepeat, saidVars
    <2> DEFINE k == Once(SaidAndKept(i))
               n == Once(SaidAndKept(i)')
               al == MayRepeat(i)
    <2>1. told[i] <= unsaved + al + k  BY DEF SayInv, ToldOnce
    <2>2. told[i] \in Nat /\ unsaved \in Nat /\ al \in Nat  BY SayNumbers
    <2>3. k \in {0, 1} /\ n \in {0, 1}  BY OnceIs
    <2> HIDE DEF k, n, al
    <2>4. told[i] <= unsaved + 1 + al + n  BY <2>1, <2>2, <2>3
    <2> QED BY <2>4 DEF n, al
  <1> QED BY <1>1, <1>2 DEF SayInv

(* Between two runs the job may fail again: an earlier run is then passed. *)
LEMMA SayWorld ==
  ASSUME WatchInv, SayInv, UNCHANGED <<saved, runVars, saidVars, unsaved>>,
         \/ failedRun' = failedRun
         \/ runStep = "off" /\ failedRun' = failedRun + 1 /\ failedRun + 1 <= MaxNews
  PROVE  SayInv'
  <1>1. UNCHANGED <<saved, st, alerts, runStep, told, mislaid, unsaved>>  BY DEF runVars, saidVars
  <1>2. CopyAhead'  BY <1>1, SayNumbers DEF SayInv, CopyAhead, BeforeJobs
  <1>3. AlertsNew'
    <2>1. CASE failedRun' = failedRun  BY <1>1, <2>1 DEF SayInv, AlertsNew, Passed
    <2>2. CASE runStep = "off"  BY <1>1, <2>2 DEF SayInv, CopyAhead, AlertsNew
    <2> QED BY <2>1, <2>2
  <1>4. \A i \in News : SaidAndKept(i) => SaidAndKept(i)'
    <2> SUFFICES ASSUME NEW i \in News, SaidAndKept(i) PROVE SaidAndKept(i)'
      OBVIOUS
    <2>1. i[2] \in Nat /\ failedRun \in Nat  BY SayNumbers
    <2>2. i[2] < failedRun => i[2] < failedRun'  BY <2>1
    <2> QED BY <1>1, <2>2 DEF SaidAndKept, Passed
  <1>5. ToldOnce'  BY <1>1, <1>4, SayCounts
  <1> QED BY <1>2, <1>3, <1>5 DEF SayInv

LEMMA SayJobs == WatchInv /\ SayInv /\ CheckJobs => SayInv'
  <1> SUFFICES ASSUME WatchInv, SayInv, CheckJobs PROVE SayInv'
    OBVIOUS
  <1>1. /\ UNCHANGED <<failedRun, saved, told, unsaved>>
        /\ runStep = "jobs" /\ runStep' = "canary"
    BY DEF CheckJobs, At, RunFrame, worldVars, jobFile
  <1>2. OnlyJobs /\ alerts \subseteq alerts' /\ (SaysLast \/ SaysNone \/ Mislays)  BY JobChecked
  <1>3. st'.cursor = st.cursor /\ st.jobRun = saved.jobRun
    BY <1>1, <1>2 DEF OnlyJobs, SayInv, CopyAhead, BeforeJobs
  <1>4. \A i \in alerts \cap News : i[1] = "receipt"
    <2> SUFFICES ASSUME NEW i \in alerts \cap News, i[1] # "receipt" PROVE FALSE
      OBVIOUS
    <2> QED BY <1>1, <1>3 DEF SayInv, AlertsNew, Passed
  <1>5. \A i \in News : i[1] = "receipt" => (Passed(st, i) <=> Passed(st', i))
    BY <1>3 DEF Passed
  <1>6. <<"file", 0>> \notin News /\ <<"stale", 0>> \notin News  BY DEF News
  <1>7. CASE SaysLast
    <2>1. st'.jobRun = failedRun /\ failedRun # saved.jobRun /\ mislaid' = mislaid
          /\ alerts' = alerts \cup {<<"job", failedRun>>}
      BY <1>3, <1>7 DEF SaysLast
    <2>2. CopyAhead'
      BY <1>1, <1>3, <2>1, SayNumbers DEF SayInv, CopyAhead, BeforeJobs
    <2>3. AlertsNew'
      <3> SUFFICES ASSUME NEW i \in alerts' \cap News PROVE Passed(st', i) /\ ~Passed(saved, i)
        BY <1>1 DEF AlertsNew, Passed
      <3>1. CASE i \in alerts
        BY <1>1, <1>4, <1>5, <3>1 DEF SayInv, AlertsNew
      <3>2. CASE i = <<"job", failedRun>>
        <4>1. i[1] # "receipt" /\ i[2] = failedRun /\ ~ (failedRun < failedRun)
          BY <3>2, SayNumbers
        <4> QED BY <2>1, <4>1 DEF Passed
      <3> QED BY <2>1, <3>1, <3>2
    <2>4. \A i \in News : SaidAndKept(i) => SaidAndKept(i)'
      <3> SUFFICES ASSUME NEW i \in News, SaidAndKept(i) PROVE SaidAndKept(i)'
        OBVIOUS
      <3>1. Passed(st, i) /\ Passed(saved, i)  BY <1>1 DEF SaidAndKept
      <3>2. Passed(st', i)
        <4>1. CASE i[1] = "receipt"  BY <1>5, <3>1, <4>1
        <4>2. CASE i[1] # "receipt"
          <5>1. i[2] < failedRun \/ i[2] = st.jobRun  BY <3>1, <4>2 DEF Passed
          <5>2. i[2] \in 1 .. MaxNews  BY SayNumbers
          <5>3. st.jobRun <= failedRun \/ st.jobRun > MaxNews  BY DEF SayInv, CopyAhead
          <5>4. i[2] < failedRun \/ i[2] = failedRun  BY <5>1, <5>2, <5>3, SayNumbers
          <5> QED BY <2>1, <4>2, <5>4 DEF Passed
        <4> QED BY <4>1, <4>2
      <3> QED BY <1>1, <3>1, <3>2 DEF SaidAndKept, Passed
    <2>5. ToldOnce'  BY <1>1, <2>1, <2>4, SayCounts
    <2> QED BY <2>2, <2>3, <2>5 DEF SayInv
  <1>8. CASE SaysNone \/ Mislays
    <2>1. /\ alerts' \subseteq alerts \cup {<<"file", 0>>, <<"stale", 0>>}
          /\ mislaid' = mislaid \/ mislaid' = mislaid + 1
          /\ \/ st'.jobRun = st.jobRun
             \/ (st'.jobRun = 0 \/ st'.jobRun > MaxNews) /\ mislaid' = mislaid + 1
      BY <1>8 DEF SaysNone, Mislays
    <2>2. CopyAhead'
      <3>1. st'.jobRun <= failedRun \/ st'.jobRun > MaxNews
        BY <2>1, SayNumbers DEF SayInv, CopyAhead
      <3> QED BY <1>1, <1>3, <3>1 DEF SayInv, CopyAhead, BeforeJobs
    <2>3. AlertsNew'
      <3> SUFFICES ASSUME NEW i \in alerts' \cap News PROVE Passed(st', i) /\ ~Passed(saved, i)
        BY <1>1 DEF AlertsNew, Passed
      <3>1. i \in alerts  BY <1>6, <2>1
      <3> QED BY <1>1, <1>4, <1>5, <3>1 DEF SayInv, AlertsNew
    <2>4. \A i \in News : SaidAndKept(i) => SaidAndKept(i)' \/ (i[1] = "job" /\ mislaid' = mislaid + 1)
      <3> SUFFICES ASSUME NEW i \in News, SaidAndKept(i), ~ (i[1] = "job" /\ mislaid' = mislaid + 1)
                   PROVE  SaidAndKept(i)'
        OBVIOUS
      <3>1. Passed(st, i) /\ Passed(saved, i)  BY <1>1 DEF SaidAndKept
      <3>2. i[1] = "receipt" \/ st'.jobRun = st.jobRun  BY <2>1, SayNumbers
      <3>3. Passed(st', i)  BY <1>3, <3>1, <3>2 DEF Passed
      <3> QED BY <1>1, <3>1, <3>3 DEF SaidAndKept, Passed
    <2>5. ToldOnce'  BY <1>1, <2>1, <2>4, SayCounts
    <2> QED BY <2>2, <2>3, <2>5 DEF SayInv
  <1> QED BY <1>2, <1>7, <1>8

LEMMA SayTells == WatchInv /\ SayInv /\ Tell => SayInv'
  <1> SUFFICES ASSUME WatchInv, SayInv, Tell PROVE SayInv'
    OBVIOUS
  <1>1. /\ UNCHANGED <<failedRun, saved, st, alerts, mislaid, unsaved>>
        /\ runStep = "tell" /\ runStep' = "save"
    BY DEF Tell, At, worldVars, jobFile
  <1>2. CopyAhead' /\ AlertsNew'  BY <1>1 DEF SayInv, CopyAhead, AlertsNew, BeforeJobs
  <1>3. ASSUME NEW i \in News PROVE told'[i] <= unsaved + MayRepeat(i) + Once(Passed(st, i))
    <2> DEFINE k == Once(SaidAndKept(i))
               n == Once(Passed(st, i))
               al == MayRepeat(i)
    <2>1. told[i] <= unsaved + al + k  BY DEF SayInv, ToldOnce
    <2>2. told[i] \in Nat /\ unsaved \in Nat /\ al \in Nat  BY SayNumbers
    <2>3. k \in {0, 1} /\ n \in {0, 1}  BY OnceIs
    <2>4. k = 1 => n = 1  BY DEF SaidAndKept, Once
    <2>5. \/ told'[i] = told[i]
          \/ i \in alerts /\ told'[i] = told[i] + 1
      <3>1. told \in [News -> Nat]  BY DEF WatchInv, WatchTypeOK
      <3>2. \/ told' = [j \in News |-> IF j \in alerts THEN told[j] + 1 ELSE told[j]]
            \/ told' = told
        BY DEF Tell
      <3> QED BY <3>1, <3>2
    <2>6. i \in alerts => k = 0 /\ n = 1
      <3>1. i \in alerts => Passed(st, i) /\ ~Passed(saved, i)  BY <1>1 DEF SayInv, AlertsNew
      <3> QED BY <1>1, <3>1 DEF SaidAndKept, Once
    <2> HIDE DEF k, n, al
    <2>7. told'[i] <= unsaved + al + n  BY <2>1, <2>2, <2>3, <2>4, <2>5, <2>6
    <2> QED BY <2>7 DEF n, al
  <1>4. \A i \in News : SaidAndKept(i)' = Passed(st, i)  BY <1>1 DEF SaidAndKept, Passed
  <1>5. ToldOnce'  BY <1>1, <1>3, <1>4 DEF ToldOnce, Once, MayRepeat
  <1> QED BY <1>2, <1>5 DEF SayInv

LEMMA SayStep == WatchInv /\ SayInv /\ [WatchNext]_watchVars => SayInv'
  <1> SUFFICES ASSUME WatchInv, SayInv, [WatchNext]_watchVars PROVE SayInv'
    OBVIOUS
  <1>w. WatchInv'  BY WatchAssumption, WatchStep
  <1>0. /\ st \in WatchState /\ saved \in WatchState /\ failedRun \in Nat /\ MaxNews \in Nat
        /\ st.cursor \in Nat /\ saved.cursor \in Nat /\ saved.cursor <= st.cursor
        /\ Len(receipts) \in Nat /\ st.cursor <= Len(receipts)
    <2>1. st \in WatchState /\ saved \in WatchState /\ receipts \in Seq({"good", "bad"})
          /\ st.cursor <= Len(receipts)
      BY DEF WatchInv, WatchTypeOK
    <2> QED BY <2>1, SayNumbers DEF SayInv, CopyAhead
  <1>1. CASE NextHour \/ DaemonStopsOrStarts \/ JobFails \/ JobSucceeds
             \/ (\E kind \in {"good", "bad"} : EmitReceipt(kind))
             \/ (\E c \in DOMAIN mails : DaemonTakes(c)) \/ UNCHANGED watchVars
    <2>1. UNCHANGED <<saved, runVars, saidVars, unsaved>>
      BY <1>1 DEF NextHour, DaemonStopsOrStarts, JobFails, JobSucceeds, EmitReceipt, DaemonTakes,
                  watchVars
    <2>2. \/ failedRun' = failedRun
          \/ runStep = "off" /\ failedRun' = failedRun + 1 /\ Len(receipts) + failedRun < MaxNews
      BY <1>1 DEF NextHour, DaemonStopsOrStarts, JobFails, JobSucceeds, EmitReceipt, DaemonTakes,
                  watchVars, worldVars, jobFile
    <2>3. Len(receipts) + failedRun < MaxNews => failedRun + 1 <= MaxNews  BY <1>0
    <2> QED BY <2>1, <2>2, <2>3, SayWorld
  <1>2. CASE Start
    <2>1. /\ UNCHANGED <<failedRun, saved, told, mislaid, unsaved>> /\ st' = saved /\ alerts' = {}
          /\ runStep = "off" /\ runStep' = "heartbeat"
      BY <1>2 DEF Start, At, RunFrame, worldVars, jobFile
    <2>2. CopyAhead' /\ AlertsNew'
      BY <1>0, <2>1, SayNumbers DEF SayInv, CopyAhead, AlertsNew, BeforeJobs
    <2>3. \A i \in News : SaidAndKept(i) => SaidAndKept(i)'  BY <2>1 DEF SaidAndKept, Passed
    <2>4. ToldOnce'  BY <2>1, <2>3, SayCounts
    <2> QED BY <2>2, <2>4 DEF SayInv
  <1>3. CASE CheckHeartbeat
    <2>1. /\ UNCHANGED <<failedRun, saved, told, mislaid, unsaved>>
          /\ runStep = "heartbeat" /\ runStep' = "receipts"
      BY <1>3 DEF CheckHeartbeat, At, RunFrame, worldVars, jobFile
    <2>2. st'.cursor = st.cursor /\ st'.jobRun = st.jobRun
      <3>1. \/ st' = st \/ st' = [st EXCEPT !.hbHour = 0] \/ st' = [st EXCEPT !.hbHour = now + 1]
        BY <1>3 DEF CheckHeartbeat
      <3> QED BY <1>0, <3>1 DEF WatchState
    <2>3. \A i \in alerts' \ alerts : i \notin News
      <3>1. alerts' \subseteq alerts \cup {<<"heartbeat", 0>>}  BY <1>3 DEF CheckHeartbeat
      <3> QED BY <3>1 DEF News
    <2>4. BeforeJobs  BY <2>1 DEF BeforeJobs
    <2> QED BY <1>0, <2>1, <2>2, <2>3, <2>4, SayRuns
  <1>4. CASE ReadReceipts
    <2>1. /\ UNCHANGED <<failedRun, saved, told, mislaid, unsaved>>
          /\ runStep = "receipts" /\ runStep' = "jobs"
      BY <1>4 DEF ReadReceipts, At, RunFrame, worldVars, jobFile
    <2>2. PICK upto \in st.cursor .. Len(receipts) :
            /\ st'.cursor = upto /\ st'.jobRun = st.jobRun
            /\ alerts' \subseteq alerts \cup BadAfter(st.cursor, upto)
      <3>1. CASE ~st.looked
        <4>1. /\ st' = [st EXCEPT !.looked = TRUE, !.cursor = Len(receipts), !.from = Len(receipts)]
              /\ alerts' = alerts
          BY <1>4, <3>1 DEF ReadReceipts
        <4>2. st'.cursor = Len(receipts) /\ st'.jobRun = st.jobRun  BY <1>0, <4>1 DEF WatchState
        <4> QED BY <1>0, <4>1, <4>2
      <3>2. CASE st.looked
        <4>1. PICK upto \in st.cursor .. Len(receipts) :
                /\ alerts' = alerts \cup BadAfter(st.cursor, upto)
                /\ st' = [st EXCEPT !.cursor = upto]
          BY <1>4, <3>2 DEF ReadReceipts, CursorAfter
        <4>2. st'.cursor = upto /\ st'.jobRun = st.jobRun  BY <1>0, <4>1 DEF WatchState
        <4> QED BY <4>1, <4>2
      <3> QED BY <3>1, <3>2
    <2>3. ASSUME NEW i \in alerts' \ alerts PROVE Passed(st', i) /\ ~Passed(saved, i)
      <3>1. PICK n \in (st.cursor + 1) .. upto : i = <<"receipt", n>>  BY <2>2, <2>3 DEF BadAfter
      <3> QED BY <1>0, <2>2, <3>1 DEF Passed
    <2>4. BeforeJobs /\ upto \in Nat /\ st.cursor <= upto  BY <1>0, <2>1 DEF BeforeJobs
    <2> QED BY <1>0, <2>1, <2>2, <2>3, <2>4, SayRuns
  <1>5. CASE CheckJobs  BY <1>5, SayJobs
  <1>6. CASE JudgeCanary
    <2>1. /\ UNCHANGED <<failedRun, saved, told, mislaid, unsaved>>
          /\ runStep = "canary" /\ runStep' = "digest"
      BY <1>6 DEF JudgeCanary, At, RunFrame, worldVars, jobFile
    <2>2. st'.cursor = st.cursor /\ st'.jobRun = st.jobRun
      <3>1. \/ st' = st \/ st' = [st EXCEPT !.canary = LeftToJudge(st.canary)]
        BY <1>6 DEF JudgeCanary
      <3> QED BY <1>0, <3>1 DEF WatchState
    <2>3. \A i \in alerts' \ alerts : i \notin News
      <3>1. alerts' \subseteq alerts \cup {<<"mail", 0>>}  BY <1>6 DEF JudgeCanary
      <3> QED BY <3>1 DEF News
    <2>4. ~ BeforeJobs'  BY <2>1 DEF BeforeJobs
    <2> QED BY <1>0, <2>1, <2>2, <2>3, <2>4, SayRuns
  <1>7. CASE Digest
    <2>1. UNCHANGED <<failedRun, saved, saidVars>> /\ runStep = "digest"
      BY <1>7 DEF Digest, worldVars, jobFile
    <2>2. CASE runStep' = "off"
      BY <1>7, <2>1, <2>2, SayEnds DEF Digest
    <2>3. CASE runStep' = "tell"
      <3>1. UNCHANGED <<alerts, unsaved, told, mislaid>>  BY <1>7, <2>1, <2>3 DEF Digest, saidVars
      <3>2. st' = st \/ st' = [st EXCEPT !.canary = Len(mails) + 1, !.canaryAt = now, !.digestDay = Day + 1]
        BY <1>7, <2>3 DEF Digest
      <3>3. st'.cursor = st.cursor /\ st'.jobRun = st.jobRun  BY <1>0, <3>2 DEF WatchState
      <3>4. ~ BeforeJobs'  BY <2>3 DEF BeforeJobs
      <3> QED BY <1>0, <2>1, <2>3, <3>1, <3>3, <3>4, SayRuns
    <2> QED BY <1>7, <2>2, <2>3 DEF Digest
  <1>8. CASE Tell  BY <1>8, SayTells
  <1>9. CASE Save
    <2>1. /\ UNCHANGED <<failedRun, saidVars>> /\ runStep = "save" /\ runStep' = "off" /\ alerts' = {}
      BY <1>9 DEF Save, worldVars, jobFile
    <2>2. CASE saved' = st /\ st' = st /\ unsaved' = unsaved
      <3>1. CopyAhead' /\ AlertsNew'
        BY <1>0, <2>1, <2>2, SayNumbers DEF SayInv, CopyAhead, AlertsNew
      <3>2. \A i \in News : SaidAndKept(i) => SaidAndKept(i)'  BY <2>1, <2>2 DEF SaidAndKept, Passed
      <3>3. ToldOnce'  BY <2>1, <2>2, <3>2, SayCounts DEF saidVars
      <3> QED BY <3>1, <3>3 DEF SayInv
    <2>3. CASE saved' = saved /\ st' = saved /\ unsaved' = unsaved + 1
      BY <2>1, <2>3, SayEnds
    <2> QED BY <1>9, <2>2, <2>3 DEF Save
  <1>10. CASE RunDies
    BY <1>10, SayEnds DEF RunDies, worldVars, jobFile
  <1> QED BY <1>1, <1>2, <1>3, <1>4, <1>5, <1>6, <1>7, <1>8, <1>9, <1>10 DEF WatchNext

-----------------------------------------------------------------------------
(* The daily mail. The counts of a day are covered by the runs that were   *)
(* lost and by the day the run's copy has written down; a mail not judged  *)
(* yet was queued on that day.                                             *)
MailState(s) ==
  /\ s.digestDay <= Day + 1 /\ s.canaryAt <= now
  /\ s.canary # 0 => s.digestDay = (s.canaryAt \div HoursPerDay) + 1

MailsCounted == \A d \in 0 .. MaxHours : digests[d] <= unsaved + Once(d < st.digestDay)

(* Once the run has judged the last mail, what is left of it is young.     *)
JudgedNow == runStep = "digest" /\ st.canary # 0 => now <= st.canaryAt + GiveUpHours

MailInv ==
  /\ digests \in [0 .. MaxHours -> Nat] /\ now <= MaxHours
  /\ runStep = "off" => st = saved
  /\ MailState(st) /\ MailState(saved) /\ MailsCounted /\ JudgedNow

(* Days: a moment is so many whole days and a part of one, and a later     *)
(* moment is not on an earlier day.                                        *)
LEMMA Days ==
  ASSUME NEW h \in Nat \ {0}, NEW t \in Nat
  PROVE  t = h * (t \div h) + (t % h) /\ t % h \in 0 .. (h - 1) /\ t \div h \in Nat
  OBVIOUS

LEMMA LaterDay ==
  ASSUME NEW h \in Nat \ {0}, NEW p \in Nat, NEW q \in Nat, q + 1 <= p
  PROVE  h * p >= h * q + h
  <1>1. PICK d \in Nat : p = q + 1 + d
    <2>1. p - (q + 1) \in Nat /\ p = q + 1 + (p - (q + 1))  OBVIOUS
    <2> QED BY <2>1
  <1>2. h * p = h * q + h + h * d  BY <1>1
  <1>3. h * d \in Nat /\ h * q \in Nat  OBVIOUS
  <1> QED BY <1>2, <1>3

LEMMA DaysPass ==
  ASSUME NEW h \in Nat \ {0}, NEW s \in Nat, NEW t \in Nat, s <= t
  PROVE  s \div h <= t \div h
  <1> SUFFICES ASSUME ~ (s \div h <= t \div h) PROVE FALSE
    OBVIOUS
  <1> DEFINE p == s \div h
             q == t \div h
  <1>1. s = h * p + (s % h) /\ s % h \in 0 .. (h - 1) /\ p \in Nat  BY Days
  <1>2. t = h * q + (t % h) /\ t % h \in 0 .. (h - 1) /\ q \in Nat  BY Days
  <1>3. ~ (p <= q)  OBVIOUS
  <1> HIDE DEF p, q
  <1>4. q + 1 <= p  BY <1>1, <1>2, <1>3
  <1>5. h * p >= h * q + h  BY <1>1, <1>2, <1>4, LaterDay
  <1>6. h * p \in Nat /\ h * q \in Nat  BY <1>1, <1>2
  <1> QED BY <1>1, <1>2, <1>5, <1>6

(* A mail of an earlier day is, when the day's mail is due, older than the *)
(* hours after which its absence is an alert.                              *)
LEMMA OldByThen ==
  ASSUME NEW h \in Nat \ {0}, NEW s \in Nat, NEW t \in Nat, s <= t,
         s \div h # t \div h, NEW due \in Nat, t % h >= due
  PROVE  t > s + due
  <1> DEFINE p == s \div h
             q == t \div h
  <1>1. s = h * p + (s % h) /\ s % h \in 0 .. (h - 1) /\ p \in Nat  BY Days
  <1>2. t = h * q + (t % h) /\ t % h \in 0 .. (h - 1) /\ q \in Nat  BY Days
  <1>3. p <= q /\ p # q  BY DaysPass
  <1> HIDE DEF p, q
  <1>4. p + 1 <= q  BY <1>1, <1>2, <1>3
  <1>5. h * q >= h * p + h  BY <1>1, <1>2, <1>4, LaterDay
  <1>6. h * p \in Nat /\ h * q \in Nat  BY <1>1, <1>2
  <1> QED BY <1>1, <1>2, <1>5, <1>6

LEMMA MailBegins == WatchInit => MailInv
  <1> SUFFICES ASSUME WatchInit PROVE MailInv
    OBVIOUS
  <1>1. /\ now = 0 /\ st = Blank /\ saved = Blank /\ runStep = "off"
        /\ digests = [d \in 0 .. MaxHours |-> 0] /\ unsaved = 0
    BY DEF WatchInit
  <1>2. MaxHours \in Nat /\ HoursPerDay \in Nat \ {0}  BY WatchAssumption DEF WatchAssumption
  <1>3. Day \in Nat  BY <1>1, <1>2, Days DEF Day
  <1>4. MailState(st) /\ MailState(saved)  BY <1>1, <1>3 DEF MailState, Blank
  <1>5. \A d \in 0 .. MaxHours : digests[d] = 0 /\ ~ (d < st.digestDay)
    BY <1>1, <1>2 DEF Blank
  <1>6. MailsCounted  BY <1>1, <1>5 DEF MailsCounted, Once
  <1> QED BY <1>1, <1>2, <1>4, <1>6 DEF MailInv, JudgedNow

(* A copy of which only other things changed.                              *)
LEMMA MailRuns ==
  ASSUME WatchInv, MailInv, UNCHANGED <<now, saved, digests, unsaved>>,
         runStep' # "off", runStep' # "digest",
         st'.canary = st.canary, st'.canaryAt = st.canaryAt, st'.digestDay = st.digestDay
  PROVE  MailInv'
  BY DEF MailInv, MailState, MailsCounted, JudgedNow, Day, Once

(* A run that ends without saving counts for whatever it mailed.           *)
LEMMA MailEnds ==
  ASSUME WatchInv, MailInv, UNCHANGED <<now, saved, digests>>, unsaved' = unsaved + 1,
         runStep' = "off", st' = saved
  PROVE  MailInv'
  <1>1. ASSUME NEW d \in 0 .. MaxHours PROVE digests[d] <= unsaved' + Once(d < saved.digestDay)
    <2>1. digests[d] <= unsaved + Once(d < st.digestDay)  BY DEF MailInv, MailsCounted
    <2>2. digests[d] \in Nat /\ unsaved \in Nat  BY DEF MailInv, WatchInv, WatchTypeOK
    <2>3. Once(d < st.digestDay) \in {0, 1} /\ Once(d < saved.digestDay) \in {0, 1}  BY DEF Once
    <2> QED BY <2>1, <2>2, <2>3
  <1>2. MailsCounted'  BY <1>1 DEF MailsCounted, Once
  <1> QED BY <1>2 DEF MailInv, MailState, JudgedNow, Day

LEMMA MailStep == WatchInv /\ MailInv /\ [WatchNext]_watchVars => MailInv'
  <1> SUFFICES ASSUME WatchInv, MailInv, [WatchNext]_watchVars PROVE MailInv'
    OBVIOUS
  <1>0. /\ WatchInv' /\ st \in WatchState /\ saved \in WatchState /\ now \in Nat
        /\ MaxHours \in Nat /\ HoursPerDay \in Nat \ {0} /\ Day \in Nat
        /\ st.digestDay \in Nat /\ st.canaryAt \in Nat
    BY WatchAssumption, WatchStep, Days DEF WatchInv, WatchTypeOK, WatchState, WatchAssumption, Day
  <1>1. CASE NextHour
    <2>1. /\ runStep = "off" /\ now' = now + 1 /\ now < MaxHours
          /\ UNCHANGED <<saved, st, alerts, runStep, digests, unsaved>>
      BY <1>1 DEF NextHour, runVars
    <2>2. Day <= Day' /\ Day' \in Nat
      <3>1. now' \in Nat /\ now <= now'  BY <1>0, <2>1
      <3> QED BY <1>0, <3>1, DaysPass, Days DEF Day
    <2>3. MailState(st)' /\ MailState(saved)'
      <3>1. /\ saved.digestDay \in Nat /\ saved.canaryAt \in Nat
        BY <1>0 DEF WatchState
      <3>2. st.digestDay <= Day' + 1 /\ saved.digestDay <= Day' + 1
        BY <1>0, <2>2, <3>1 DEF MailInv, MailState
      <3>3. st.canaryAt <= now' /\ saved.canaryAt <= now'
        BY <1>0, <2>1, <3>1 DEF MailInv, MailState
      <3> QED BY <2>1, <3>2, <3>3 DEF MailInv, MailState
    <2> QED BY <1>0, <2>1, <2>3 DEF MailInv, MailsCounted, JudgedNow, Once
  <1>2. CASE DaemonStopsOrStarts \/ JobFails \/ JobSucceeds \/ (\E kind \in {"good", "bad"} : EmitReceipt(kind))
             \/ (\E c \in DOMAIN mails : DaemonTakes(c)) \/ UNCHANGED watchVars
    <2>1. UNCHANGED <<now, saved, runVars, digests, unsaved>>
      BY <1>2 DEF DaemonStopsOrStarts, JobFails, JobSucceeds, EmitReceipt, DaemonTakes, watchVars,
                  worldVars
    <2> QED BY <2>1 DEF MailInv, MailState, MailsCounted, JudgedNow, Day, Once, runVars
  <1>3. CASE Start
    <2>1. UNCHANGED <<now, saved, digests, unsaved>> /\ st' = saved /\ st = saved
          /\ runStep' = "heartbeat"
      BY <1>3 DEF Start, At, RunFrame, worldVars, MailInv
    <2> QED BY <2>1, MailRuns
  <1>4. CASE CheckHeartbeat
    <2>1. UNCHANGED <<now, saved, digests, unsaved>> /\ runStep' = "receipts"
      BY <1>4 DEF CheckHeartbeat, At, RunFrame, worldVars
    <2>2. \/ st' = st \/ st' = [st EXCEPT !.hbHour = 0] \/ st' = [st EXCEPT !.hbHour = now + 1]
      BY <1>4 DEF CheckHeartbeat
    <2>3. st'.canary = st.canary /\ st'.canaryAt = st.canaryAt /\ st'.digestDay = st.digestDay
      BY <1>0, <2>2 DEF WatchState
    <2> QED BY <2>1, <2>3, MailRuns
  <1>5. CASE ReadReceipts
    <2>1. UNCHANGED <<now, saved, digests, unsaved>> /\ runStep' = "jobs"
      BY <1>5 DEF ReadReceipts, At, RunFrame, worldVars
    <2>2. \/ st' = [st EXCEPT !.looked = TRUE, !.cursor = Len(receipts), !.from = Len(receipts)]
          \/ \E upto \in st.cursor .. Len(receipts) : st' = [st EXCEPT !.cursor = upto]
      BY <1>5 DEF ReadReceipts, CursorAfter
    <2>3. st'.canary = st.canary /\ st'.canaryAt = st.canaryAt /\ st'.digestDay = st.digestDay
      BY <1>0, <2>2 DEF WatchState
    <2> QED BY <2>1, <2>3, MailRuns
  <1>6. CASE CheckJobs
    <2>1. UNCHANGED <<now, saved, digests, unsaved>> /\ runStep' = "canary"
      BY <1>6 DEF CheckJobs, At, RunFrame, worldVars
    <2>2. st'.canary = st.canary /\ st'.canaryAt = st.canaryAt /\ st'.digestDay = st.digestDay
      BY <1>6, JobChecked DEF OnlyJobs
    <2> QED BY <2>1, <2>2, MailRuns
  <1>7. CASE JudgeCanary
    <2>1. UNCHANGED <<now, saved, digests, unsaved>> /\ runStep' = "digest"
      BY <1>7 DEF JudgeCanary, At, RunFrame, worldVars
    <2>2. /\ st'.canaryAt = st.canaryAt /\ st'.digestDay = st.digestDay
          /\ st'.canary # 0 => st.canary # 0 /\ now <= st.canaryAt + GiveUpHours
      <3>1. CASE st.canary # 0 /\ now > st.canaryAt
        <4>1. st' = [st EXCEPT !.canary = LeftToJudge(st.canary)]  BY <1>7, <3>1 DEF JudgeCanary
        <4>2. st'.canary = LeftToJudge(st.canary)  BY <1>0, <4>1 DEF WatchState
        <4>3. st'.canaryAt = st.canaryAt /\ st'.digestDay = st.digestDay
          BY <1>0, <4>1 DEF WatchState
        <4>4. st'.canary # 0 => ~ (now - st.canaryAt > GiveUpHours)  BY <4>2 DEF LeftToJudge
        <4>5. GiveUpHours \in Nat  BY WatchAssumption DEF WatchAssumption
        <4> QED BY <1>0, <3>1, <4>3, <4>4, <4>5
      <3>2. CASE ~ (st.canary # 0 /\ now > st.canaryAt)
        <4>1. st' = st  BY <1>7, <3>2 DEF JudgeCanary
        <4>2. GiveUpHours \in Nat  BY WatchAssumption DEF WatchAssumption
        <4> QED BY <1>0, <3>2, <4>1, <4>2
      <3> QED BY <3>1, <3>2
    <2> QED BY <2>1, <2>2 DEF MailInv, MailState, MailsCounted, JudgedNow, Day, Once
  <1>8. CASE Digest
    <2>1. UNCHANGED <<now, saved>> /\ runStep = "digest"  BY <1>8 DEF Digest, worldVars
    <2>2. CASE runStep' = "off"
      <3>1. st' = saved /\ unsaved' = unsaved + 1 /\ digests' = digests  BY <1>8, <2>2 DEF Digest
      <3> QED BY <2>1, <2>2, <3>1, MailEnds
    <2>3. CASE ~DigestDue
      <3>1. runStep' = "tell" /\ UNCHANGED <<st, digests, unsaved>>  BY <1>8, <2>3 DEF Digest
      <3> QED BY <2>1, <3>1, MailRuns
    <2>4. CASE DigestDue /\ runStep' # "off"
      <3>1. /\ runStep' = "tell" /\ unsaved' = unsaved
            /\ st' = [st EXCEPT !.canary = Len(mails) + 1, !.canaryAt = now, !.digestDay = Day + 1]
            /\ digests' = [digests EXCEPT ![Day] = @ + 1]
        BY <1>8, <2>4 DEF Digest
      <3>2. st'.canaryAt = now /\ st'.digestDay = Day + 1  BY <1>0, <3>1 DEF WatchState
      <3>3. st.digestDay <= Day  BY <1>0, <2>4 DEF DigestDue, MailInv, MailState
      <3>4. Day' = Day /\ now' = now  BY <2>1 DEF Day
      <3>5. MailState(st)'  BY <1>0, <3>2, <3>4 DEF MailState, Day
      <3>6. ASSUME NEW d \in 0 .. MaxHours PROVE digests'[d] <= unsaved + Once(d < Day + 1)
        <4>1. digests[d] <= unsaved + Once(d < st.digestDay)  BY DEF MailInv, MailsCounted
        <4>2. digests[d] \in Nat /\ unsaved \in Nat  BY DEF MailInv, WatchInv, WatchTypeOK
        <4>3. CASE d = Day
          <5>1. ~ (d < st.digestDay) /\ d < Day + 1  BY <1>0, <3>3, <4>3
          <5>2. digests'[d] = digests[d] + 1  BY <3>1, <4>3 DEF MailInv
          <5> QED BY <4>1, <4>2, <5>1, <5>2 DEF Once
        <4>4. CASE d # Day
          <5>1. digests'[d] = digests[d]  BY <3>1, <4>4 DEF MailInv
          <5>2. d < st.digestDay => d < Day + 1  BY <1>0, <3>3
          <5> QED BY <4>1, <4>2, <5>1, <5>2 DEF Once
        <4> QED BY <4>3, <4>4
      <3>7. MailsCounted'  BY <3>1, <3>2, <3>6 DEF MailsCounted, Once
      <3>8. digests' \in [0 .. MaxHours -> Nat]
        <4>1. digests \in [0 .. MaxHours -> Nat]  BY DEF MailInv
        <4>2. \A d \in 0 .. MaxHours : digests[d] \in Nat /\ digests[d] + 1 \in Nat  BY <4>1
        <4> QED BY <3>1, <4>1, <4>2
      <3> QED BY <2>1, <3>1, <3>4, <3>5, <3>7, <3>8 DEF MailInv, JudgedNow, MailState
    <2> QED BY <2>2, <2>3, <2>4
  <1>9. CASE Tell
    <2>1. UNCHANGED <<now, saved, st, digests, unsaved>> /\ runStep' = "save"
      BY <1>9 DEF Tell, At, worldVars
    <2> QED BY <2>1, MailRuns
  <1>10. CASE Save
    <2>1. UNCHANGED <<now, digests>> /\ runStep' = "off"  BY <1>10 DEF Save, worldVars
    <2>2. CASE saved' = st /\ st' = st /\ unsaved' = unsaved
      BY <2>1, <2>2 DEF MailInv, MailState, MailsCounted, JudgedNow, Day, Once
    <2>3. CASE saved' = saved /\ st' = saved /\ unsaved' = unsaved + 1
      BY <2>1, <2>3, MailEnds
    <2> QED BY <1>10, <2>2, <2>3 DEF Save
  <1>11. CASE RunDies
    BY <1>11, MailEnds DEF RunDies, worldVars
  <1> QED BY <1>1, <1>2, <1>3, <1>4, <1>5, <1>6, <1>7, <1>8, <1>9, <1>10, <1>11 DEF WatchNext

(* However often runs are lost, and wherever they are: a bad receipt is    *)
(* told at most once more than runs ended without saving, a failed run of  *)
(* a job also once more for each run that found its file unreadable or     *)
(* missing, and a day has at most one daily mail more than runs were lost. *)
THEOREM NewsIsSaidOnce == WatchSpec => []SaidOnce
  <1>1. WatchSpec => [](WatchInv /\ SayInv /\ MailInv)
    BY WatchAssumption, WatchBegins, WatchStep, SayBegins, SayStep, MailBegins, MailStep,
       PTL DEF WatchSpec
  <1>2. WatchInv /\ SayInv /\ MailInv => SaidOnce
    <2> SUFFICES ASSUME WatchInv, SayInv, MailInv PROVE SaidOnce
      OBVIOUS
    <2>1. unsaved \in Nat  BY DEF WatchInv, WatchTypeOK
    <2>2. ASSUME NEW i \in News PROVE told[i] <= 1 + unsaved + MayRepeat(i)
      <3> DEFINE k == Once(SaidAndKept(i))
      <3>1. told[i] <= unsaved + MayRepeat(i) + k  BY DEF SayInv, ToldOnce
      <3>2. k \in {0, 1}  BY OnceIs
      <3>3. told[i] \in Nat /\ MayRepeat(i) \in Nat  BY SayNumbers
      <3> HIDE DEF k
      <3> QED BY <2>1, <3>1, <3>2, <3>3
    <2>3. ASSUME NEW d \in DOMAIN digests PROVE digests[d] <= 1 + unsaved
      <3>1. d \in 0 .. MaxHours /\ digests[d] \in Nat  BY DEF MailInv
      <3>2. digests[d] <= unsaved + Once(d < st.digestDay)  BY <3>1 DEF MailInv, MailsCounted
      <3>3. Once(d < st.digestDay) \in {0, 1}  BY DEF Once
      <3> QED BY <2>1, <3>1, <3>2, <3>3
    <2> QED BY <2>2, <2>3 DEF SaidOnce, MayRepeat
  <1> QED BY <1>1, <1>2, PTL

(* In whichever hours the watch runs and whatever fails: no daily mail     *)
(* replaces one that was neither found delivered nor told as missing.      *)
THEOREM MailIsJudged == WatchSpec => []CanaryJudged
  <1>1. WatchSpec => [](WatchInv /\ MailInv)
    BY WatchAssumption, WatchBegins, WatchStep, MailBegins, MailStep, PTL DEF WatchSpec
  <1>2. WatchInv /\ MailInv => CanaryJudged
    <2> SUFFICES ASSUME WatchInv, MailInv, runStep = "digest", DigestDue, st.canary # 0
                 PROVE  FALSE
      BY DEF CanaryJudged
    <2>1. /\ now \in Nat /\ st.canaryAt \in Nat /\ HoursPerDay \in Nat \ {0}
          /\ DigestHour \in Nat /\ GiveUpHours \in Nat /\ GiveUpHours <= DigestHour
      BY WatchAssumption DEF WatchInv, WatchTypeOK, WatchState, WatchAssumption
    <2>2. st.canaryAt <= now /\ now <= st.canaryAt + GiveUpHours
      BY DEF MailInv, MailState, JudgedNow
    <2>3. st.canaryAt \div HoursPerDay # now \div HoursPerDay
      BY DEF MailInv, MailState, DigestDue, Day
    <2>4. now % HoursPerDay >= DigestHour  BY DEF DigestDue
    <2>5. now > st.canaryAt + DigestHour  BY <2>1, <2>2, <2>3, <2>4, OldByThen
    <2> QED BY <2>1, <2>2, <2>5
  <1> QED BY <1>1, <1>2, PTL
=============================================================================
