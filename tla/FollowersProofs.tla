--------------------------- MODULE FollowersProofs ---------------------------
(***************************************************************************)
(* Followers and visitors: follows, their sharded count and the retention  *)
(* of notifications; the emails of a show that goes live; the audience of  *)
(* a channel.  Each for any number of users or visitors and any sizes of   *)
(* pages and batches.                                                      *)
(***************************************************************************)
EXTENDS Followers, LiveAlerts, Audience, SumTheorems, SequenceTheorems

\* The inductive invariant: besides what is to be shown, events are those of shows and
\* receipts are of users and shows.
FollowersInv ==
    /\ FollowersAreSound
    /\ events \subseteq Shows /\ reads \subseteq Users \X Shows

-----------------------------------------------------------------------------
(* The shards.                                                             *)

\* Counting round the ring from any shard comes past every one of them.
LEMMA RingIsComplete ==
    ASSUME NEW i \in ShardIds, NEW j \in ShardIds
    PROVE  \E k \in 0..(Shards - 1) : ((i - 1 + k) % Shards) + 1 = j
<1> USE DEF ShardIds
<1>1. Shards \in Nat \ {0} BY FollowersAssumption
<1>2. (j - 1) % Shards = j - 1 /\ ((j - 1) + Shards) % Shards = j - 1
  <2>1. j - 1 \in Nat /\ j - 1 < Shards BY <1>1
  <2>2. ASSUME NEW a \in Nat, a < Shards PROVE a % Shards = a /\ (a + Shards) % Shards = a
    BY <1>1, <2>2, SMT
  <2> QED BY <2>1, <2>2
<1>3. CASE i <= j
  <2> DEFINE k == j - i
  <2>1. k \in 0..(Shards - 1) /\ i - 1 + k = j - 1 BY <1>1, <1>3
  <2> HIDE DEF k
  <2>2. ((i - 1 + k) % Shards) + 1 = (j - 1) + 1 BY <1>2, <2>1, Zenon
  <2>3. (j - 1) + 1 = j OBVIOUS
  <2> QED BY <2>1, <2>2, <2>3, Zenon
<1>4. CASE ~(i <= j)
  <2> DEFINE k == j - i + Shards
  <2>1. k \in 0..(Shards - 1) /\ i - 1 + k = (j - 1) + Shards BY <1>1, <1>4
  <2> HIDE DEF k
  <2>2. ((i - 1 + k) % Shards) + 1 = (j - 1) + 1 BY <1>2, <2>1, Zenon
  <2>3. (j - 1) + 1 = j OBVIOUS
  <2> QED BY <2>1, <2>2, <2>3, Zenon
<1> QED BY <1>3, <1>4

\* One shard changes by d: so does their sum.
LEMMA OneShardChanges ==
    ASSUME shards \in [ShardIds -> Nat], shards' \in [ShardIds -> Nat],
           NEW x \in ShardIds, NEW d \in Int, shards'[x] = shards[x] + d,
           \A y \in ShardIds \ {x} : shards[y] = shards'[y]
    PROVE  SumOf(shards)' = SumOf(shards) + d /\ SumOf(shards) \in Nat
<1>1. IsFiniteSet(ShardIds) BY FollowersAssumption, FS_Interval DEF ShardIds
<1>2. \A y \in ShardIds : shards[y] \in Int /\ shards'[y] \in Int
  <2>1. \A y \in ShardIds : shards[y] \in Nat /\ shards'[y] \in Nat OBVIOUS
  <2> QED BY <2>1
<1>3. SumOver(shards', ShardIds) = SumOver(shards, ShardIds) - shards[x] + shards'[x]
  BY <1>1, <1>2, SumReplaced
<1>4. SumOver(shards, ShardIds) \in Nat BY <1>1, SumIsNat
<1>5. SumOf(shards) = SumOver(shards, ShardIds) BY DEF SumOf
<1>6. SumOf(shards)' = SumOver(shards', ShardIds) BY DEF SumOf
<1>7. shards[x] \in Int BY <1>2
<1> QED BY <1>3, <1>4, <1>5, <1>6, <1>7

\* Of some numbers one is the least.
LEMMA LeastOf ==
    ASSUME NEW F \in SUBSET Nat, F # {}
    PROVE  (CHOOSE k \in F : \A j \in F : k <= j) \in F
<1>1. \E k \in F : \A j \in F : k <= j BY LeastNumber
<1> QED BY <1>1

\* adjustShard takes one away wherever it starts, as long as anything is counted.
LEMMA LoweredByOne ==
    ASSUME shards \in [ShardIds -> Nat], NEW i \in ShardIds, SumOf(shards) # 0,
           shards' = Lowered(i)
    PROVE  /\ shards' \in [ShardIds -> Nat]
           /\ SumOf(shards)' = SumOf(shards) - 1
<1> DEFINE ring == [k \in 0..(Shards - 1) |-> ((i - 1 + k) % Shards) + 1]
           full == {k \in DOMAIN ring : shards[ring[k]] > 0}
           k0 == CHOOSE k \in full : \A j \in full : k <= j
<1>1. Shards \in Nat \ {0} BY FollowersAssumption
<1>2. PICK x \in ShardIds : shards[x] # 0
  <2>1. IsFiniteSet(ShardIds) BY <1>1, FS_Interval DEF ShardIds
  <2>2. ASSUME \A x \in ShardIds : shards[x] = 0 PROVE FALSE
    <3>1. SumOver(shards, ShardIds) = 0 BY <2>1, <2>2, SumOfZeros
    <3> QED BY <3>1 DEF SumOf
  <2> QED BY <2>2
<1>3. full # {}
  <2>1. PICK k \in 0..(Shards - 1) : ((i - 1 + k) % Shards) + 1 = x BY RingIsComplete
  <2>2. ring[k] = x BY <2>1
  <2>3. shards[x] > 0 BY <1>2
  <2> QED BY <2>2, <2>3
<1>4. full \in SUBSET Nat BY <1>1
<1>5. \A k \in full : ring[k] \in ShardIds /\ shards[ring[k]] > 0
  <2>1. \A k \in 0..(Shards - 1) : (i - 1 + k) % Shards \in 0..(Shards - 1)
    <3>1. \A k \in 0..(Shards - 1) : i - 1 + k \in Int BY <1>1 DEF ShardIds
    <3>2. ASSUME NEW a \in Int PROVE a % Shards \in 0..(Shards - 1) BY <1>1, SMT
    <3> QED BY <3>1, <3>2
  <2> QED BY <1>1, <2>1 DEF ShardIds
<1>6. shards' = IF full = {} THEN shards ELSE [shards EXCEPT ![ring[k0]] = @ - 1]
  BY DEF Lowered
<1> HIDE DEF full, ring
<1>7. k0 \in full BY <1>3, <1>4, LeastOf
<1> HIDE DEF k0
<1>8. shards' = [shards EXCEPT ![ring[k0]] = @ - 1] BY <1>3, <1>6
<1> DEFINE y == ring[k0]
<1>9. y \in ShardIds /\ shards[y] > 0 BY <1>5, <1>7
<1> HIDE DEF y
<1>10. shards[y] \in Nat BY <1>9
<1>11. shards[y] + (-1) \in Nat BY <1>9, <1>10
<1>12. /\ shards' \in [ShardIds -> Nat] /\ shards'[y] = shards[y] + (-1)
       /\ \A z \in ShardIds \ {y} : shards[z] = shards'[z]
  BY <1>8, <1>9, <1>10, <1>11 DEF y
<1>13. SumOf(shards)' = SumOf(shards) + (-1) /\ SumOf(shards) \in Nat
  <2>1. -1 \in Int OBVIOUS
  <2> QED BY <1>9, <1>12, <2>1, OneShardChanges
<1> QED BY <1>12, <1>13

-----------------------------------------------------------------------------
(* Following and unfollowing.                                              *)

\* Neither notifications nor the profile have a part in the counts.
LEMMA FollowStep ==
    ASSUME FollowersInv, NEW u \in Users, Follow(u) \/ Unfollow(u)
    PROVE  FollowersInv'
<1> USE DEF FollowersInv, FollowersAreSound
<1>1. /\ UNCHANGED <<published, followerCount, events, old, reads, pruning>>
      /\ projecting' = TRUE
  BY DEF Follow, Unfollow, Projection
<1>2. /\ follows \subseteq Users /\ IsFiniteSet(follows) /\ Cardinality(follows) \in Nat
      /\ shards \in [ShardIds -> Nat] /\ following \in [Users -> 0..MaxFollows]
      /\ SumOf(shards) = Cardinality(follows)
      /\ \A v \in Users : following[v] = Others[v] + (IF v \in follows THEN 1 ELSE 0)
      /\ MaxFollows \in Nat /\ Others \in [Users -> 0..MaxFollows]
  BY FollowersAssumption, FS_Subset, FS_CardinalityType
    DEF FollowersTypeOK, FollowerCountIsKept, Followed
<1>3. /\ follows' \subseteq Users
      /\ shards' \in [ShardIds -> Nat] /\ following' \in [Users -> 0..MaxFollows]
      /\ SumOf(shards)' = Cardinality(follows')
      /\ \A v \in Users : following'[v] = Others[v] + (IF v \in follows' THEN 1 ELSE 0)
  <2>1. CASE Follow(u)
    <3>1. PICK i \in ShardIds : shards' = [shards EXCEPT ![i] = @ + 1]
      BY <2>1 DEF Follow, Raised
    <3>2. /\ u \notin follows /\ follows' = follows \cup {u} /\ following[u] < MaxFollows
          /\ following' = [following EXCEPT ![u] = @ + 1]
      BY <2>1 DEF Follow, Followed
    <3>3. shards' \in [ShardIds -> Nat] /\ SumOf(shards)' = SumOf(shards) + 1
      <4>1. /\ shards' \in [ShardIds -> Nat] /\ shards'[i] = shards[i] + 1 /\ 1 \in Int
            /\ \A y \in ShardIds \ {i} : shards[y] = shards'[y]
        <5>1. shards[i] + 1 \in Nat BY <1>2
        <5>2. shards' \in [ShardIds -> Nat] BY <1>2, <3>1, <5>1
        <5>3. shards'[i] = shards[i] + 1 BY <1>2, <3>1
        <5>4. \A y \in ShardIds \ {i} : shards[y] = shards'[y] BY <1>2, <3>1
        <5> QED BY <5>2, <5>3, <5>4
      <4> QED BY <1>2, <4>1, OneShardChanges
    <3>4. Cardinality(follows') = Cardinality(follows) + 1
      BY <1>2, <3>2, FS_AddElement
    <3>5. following' \in [Users -> 0..MaxFollows] BY <1>2, <3>2
    <3>6. \A v \in Users : following'[v] = Others[v] + (IF v \in follows' THEN 1 ELSE 0)
      BY <1>2, <3>2
    <3> QED BY <1>2, <3>2, <3>3, <3>4, <3>5, <3>6
  <2>2. CASE Unfollow(u)
    <3>1. PICK i \in ShardIds : shards' = Lowered(i) BY <2>2 DEF Unfollow
    <3>2. /\ u \in follows /\ follows' = follows \ {u}
          /\ following' = [following EXCEPT ![u] = @ - 1]
      BY <2>2 DEF Unfollow, Followed
    <3>3. Cardinality(follows') = Cardinality(follows) - 1
      BY <1>2, <3>2, FS_RemoveElement
    <3>4. SumOf(shards) # 0 BY <1>2, <3>2, FS_EmptySet
    <3>5. shards' \in [ShardIds -> Nat] /\ SumOf(shards)' = SumOf(shards) - 1
      BY <1>2, <3>1, <3>4, LoweredByOne
    <3>6. following[u] = Others[u] + 1 BY <1>2, <3>2
    <3>7. following' \in [Users -> 0..MaxFollows] BY <1>2, <3>2, <3>6
    <3>8. \A v \in Users : following'[v] = Others[v] + (IF v \in follows' THEN 1 ELSE 0)
      BY <1>2, <3>2
    <3> QED BY <1>2, <3>2, <3>3, <3>5, <3>7, <3>8
  <2> QED BY <2>1, <2>2
<1>4. FollowersTypeOK' BY <1>1, <1>3 DEF FollowersTypeOK
<1>5. FollowerCountIsKept' BY <1>1, <1>3 DEF FollowerCountIsKept, Followed
<1>6. NoOrphanReceipt' BY <1>1 DEF NoOrphanReceipt
<1> QED BY <1>1, <1>4, <1>5, <1>6

-----------------------------------------------------------------------------
(* Pruning.                                                                *)

\* An event that goes takes all its receipts with it: had one of them been left, the
\* batch, which takes the oldest first, would have been used up.
LEMMA ReceiptsGoFirst ==
    ASSUME FollowersInv, Prune, NEW q \in reads', q[2] \notin events'
    PROVE  FALSE
<1> DEFINE page == {e \in old : Cardinality({f \in old : f <= e}) <= PrunePage}
           mine == {r \in reads : r[2] \in page}
           size == Min({PruneBatch, Cardinality(mine)})
           e == q[2]
<1> USE DEF FollowersInv, FollowersAreSound
<1>1. PICK gone \in SUBSET mine :
        /\ Cardinality(gone) = size
        /\ \A r \in gone, s \in mine \ gone : r[2] <= s[2]
        /\ reads' = reads \ gone
  BY DEF Prune
<1>2. events' = events \ {x \in page : EventGoes(x)} BY DEF Prune
<1>3. q \in reads \ gone /\ e \in page /\ EventGoes(e)
  BY <1>1, <1>2 DEF NoOrphanReceipt
<1>4. NumShows \in Nat /\ PruneBatch \in Nat /\ PrunePage \in Nat BY FollowersAssumption
<1>5. old \subseteq Shows /\ Shows \subseteq Nat /\ IsFiniteSet(Shows)
  BY <1>4, FS_Interval DEF FollowersTypeOK, Shows
<1>6. IsFiniteSet(reads) BY <1>5, FollowersAssumption, FS_Product, FS_Subset
<1>7. ASSUME NEW f \in old, f <= e PROVE f \in page
  <2> DEFINE A == {g \in old : g <= f}
             B == {g \in old : g <= e}
  <2>8. \A g \in old : g \in Int
    <3>1. \A g \in old : g \in Nat BY <1>5
    <3> QED BY <3>1
  <2>9. e \in old BY <1>3
  <2>6. \A g \in old : g \in Int /\ f \in Int /\ e \in Int
    <3> HIDE DEF e
    <3> QED BY <2>8, <2>9, Zenon
  <2>7. \A g \in old : g <= f => g <= e BY <1>7, <2>6
  <2>1. A \subseteq B BY <2>7
  <2>2. IsFiniteSet(B) BY <1>5, FS_Subset
  <2>3. Cardinality(B) <= PrunePage BY <1>3
  <2> HIDE DEF A, B
  <2>4. Cardinality(A) <= Cardinality(B) /\ Cardinality(A) \in Nat /\ Cardinality(B) \in Nat
    BY <2>1, <2>2, FS_Subset, FS_CardinalityType
  <2>5. Cardinality(A) <= PrunePage BY <1>4, <2>3, <2>4
  <2> QED BY <1>7, <2>5 DEF A
<1> DEFINE upTo == UpTo(e)
<1>8. \A r \in reads : r[2] \in Shows /\ r[2] \in Int /\ e \in Int
  <2>1. e \in Nat BY <1>3, <1>5
  <2>2. \A r \in reads : r[2] \in Shows OBVIOUS
  <2>3. \A x \in Nat : x \in Int OBVIOUS
  <2> HIDE DEF e
  <2> QED BY <1>5, <2>1, <2>2, <2>3
<1>9. upTo \subseteq mine /\ mine \subseteq reads /\ page \subseteq old
  BY <1>7 DEF UpTo
<1>10. q \in mine \ gone /\ q \in upTo BY <1>3, <1>8, <1>9 DEF UpTo
<1>11. gone \subseteq upTo
  <2>1. \A r \in gone : r \in reads /\ r[2] \in old /\ r[2] <= e BY <1>1, <1>9, <1>10
  <2> QED BY <2>1 DEF UpTo
<1>12. Cardinality(upTo) < PruneBatch BY <1>3 DEF EventGoes
<1> HIDE DEF page, mine, upTo, e
<1>13. IsFiniteSet(mine) /\ IsFiniteSet(upTo) /\ IsFiniteSet(gone)
  <2>1. IsFiniteSet(mine) BY <1>6, <1>9, FS_Subset
  <2>2. IsFiniteSet(upTo) BY <1>9, <2>1, FS_Subset
  <2>3. IsFiniteSet(gone) BY <1>11, <2>2, FS_Subset
  <2> QED BY <2>1, <2>2, <2>3
<1>14. /\ Cardinality(mine) \in Nat /\ Cardinality(upTo) \in Nat /\ Cardinality(gone) \in Nat
       /\ Cardinality(gone) <= Cardinality(upTo)
       /\ Cardinality(gone) # Cardinality(mine)
  <2>1. Cardinality(gone) <= Cardinality(upTo) BY <1>11, <1>13, FS_Subset
  <2>2. Cardinality(gone) = Cardinality(mine) => mine = gone
    BY <1>1, <1>13, FS_Subset
  <2> QED BY <1>10, <1>13, <2>1, <2>2, FS_CardinalityType
<1>15. size = PruneBatch \/ size = Cardinality(mine)
  <2>1. ASSUME NEW a \in Nat, NEW b \in Nat PROVE Min({a, b}) \in {a, b}
    <3>1. \E x \in {a, b} : \A y \in {a, b} : x <= y OBVIOUS
    <3> QED BY <3>1 DEF Min
  <2> QED BY <1>4, <1>14, <2>1
<1> QED BY <1>1, <1>4, <1>12, <1>14, <1>15

\* Reading, growing old and pruning.
LEMMA NoticeStep ==
    ASSUME FollowersInv,
           \/ PruneCron \/ Prune
           \/ \E e \in Shows : GrowOld(e) \/ \E u \in Users : MarkRead(u, e)
    PROVE  FollowersInv'
<1> USE DEF FollowersInv, FollowersAreSound
<1>1. UNCHANGED <<published, follows, following, shards, projecting, followerCount>>
  BY DEF PruneCron, Prune, GrowOld, MarkRead, countVars
<1>2. FollowerCountIsKept' BY <1>1 DEF FollowerCountIsKept, Followed, SumOf
<1>3. CASE PruneCron
  <2>1. UNCHANGED <<events, old, reads>> /\ pruning' = TRUE BY <1>3 DEF PruneCron
  <2> QED BY <1>1, <1>2, <2>1 DEF FollowersTypeOK, NoOrphanReceipt
<1>4. CASE Prune
  <2>1. /\ events' \subseteq events /\ old' = old \cap events' /\ reads' \subseteq reads
        /\ pruning' \in BOOLEAN
    BY <1>4 DEF Prune
  <2>2. NoOrphanReceipt' BY <1>4, ReceiptsGoFirst DEF NoOrphanReceipt
  <2> QED BY <1>1, <1>2, <2>1, <2>2 DEF FollowersTypeOK
<1>5. ASSUME NEW e \in Shows, GrowOld(e) PROVE FollowersInv'
  <2>1. UNCHANGED <<events, reads, pruning>> /\ old' = old \cup {e} /\ e \in events
    BY <1>5 DEF GrowOld
  <2> QED BY <1>1, <1>2, <2>1 DEF FollowersTypeOK, NoOrphanReceipt
<1>6. ASSUME NEW e \in Shows, NEW u \in Users, MarkRead(u, e) PROVE FollowersInv'
  <2>1. /\ UNCHANGED <<events, old, pruning>> /\ reads' = reads \cup {<<u, e>>}
        /\ e \in events
    BY <1>6 DEF MarkRead, Visible
  <2> QED BY <1>1, <1>2, <2>1 DEF FollowersTypeOK, NoOrphanReceipt
<1> QED BY <1>3, <1>4, <1>5, <1>6

\* Shows, the profile and the projection of the count.
LEMMA ShowStep ==
    ASSUME FollowersInv,
           \/ Project \/ Unpublish
           \/ \E s \in Shows : CreateShow(s) \/ GoLive(s) \/ EndShow(s)
    PROVE  FollowersInv'
<1> USE DEF FollowersInv, FollowersAreSound
<1>1. CASE Project
  <2>1. /\ followerCount' = SumOf(shards) /\ projecting' = FALSE
        /\ UNCHANGED <<published, follows, following, shards, events, old, reads, pruning>>
    BY <1>1 DEF Project, noticeVars
  <2>2. Cardinality(follows) \in Nat
    BY FollowersAssumption, FS_Subset, FS_CardinalityType DEF FollowersTypeOK
  <2>3. followerCount' = Cardinality(follows) BY <2>1 DEF FollowerCountIsKept
  <2>4. FollowersTypeOK' BY <2>1, <2>2, <2>3 DEF FollowersTypeOK
  <2>5. FollowerCountIsKept' BY <2>1, <2>3 DEF FollowerCountIsKept, Followed, SumOf
  <2> QED BY <2>1, <2>4, <2>5 DEF NoOrphanReceipt
<1>2. CASE Unpublish \/ \E s \in Shows : CreateShow(s) \/ GoLive(s) \/ EndShow(s)
  <2>1. UNCHANGED <<follows, following, shards, projecting, followerCount>>
    BY <1>2 DEF Unpublish, CreateShow, GoLive, EndShow, countVars
  <2>2. FollowerCountIsKept' BY <2>1 DEF FollowerCountIsKept, Followed, SumOf
  <2>3. /\ published' \in BOOLEAN /\ UNCHANGED <<old, reads, pruning>>
        /\ events \subseteq events' /\ events' \subseteq Shows
    BY <1>2 DEF Unpublish, CreateShow, GoLive, EndShow, noticeVars, FollowersTypeOK
  <2>4. FollowersTypeOK' BY <2>1, <2>3 DEF FollowersTypeOK
  <2> QED BY <2>2, <2>3, <2>4 DEF NoOrphanReceipt
<1> QED BY <1>1, <1>2

\* Nobody follows at first.
LEMMA FollowersStart == FollowersInit => FollowersInv
<1> SUFFICES ASSUME FollowersInit PROVE FollowersInv OBVIOUS
<1> USE DEF FollowersInit
<1>1. IsFiniteSet(ShardIds) /\ DOMAIN shards = ShardIds
  BY FollowersAssumption, FS_Interval DEF ShardIds
<1>2. SumOver(shards, ShardIds) = 0 BY <1>1, SumOfZeros
<1>3. SumOf(shards) = 0 BY <1>1, <1>2 DEF SumOf
<1>4. Cardinality(follows) = 0 BY FS_EmptySet
<1>5. FollowersTypeOK BY FollowersAssumption DEF FollowersTypeOK
<1>6. FollowerCountIsKept
  BY <1>3, <1>4, FollowersAssumption DEF FollowerCountIsKept, Followed
<1> QED BY <1>5, <1>6 DEF FollowersInv, FollowersAreSound, NoOrphanReceipt

\* follows.ts and notifications.ts: whichever shards follows and unfollows pick, however
\* they interleave with the projection, and however many batches pruning takes, the count
\* is exact and no read receipt is left without its event.
THEOREM FollowersSafe == FollowersSpec => []FollowersAreSound
<1>1. FollowersInit => FollowersInv BY FollowersStart
<1>2. FollowersInv /\ [FollowersNext]_followerVars => FollowersInv'
  <2> SUFFICES ASSUME FollowersInv, [FollowersNext]_followerVars PROVE FollowersInv'
    OBVIOUS
  <2>1. CASE UNCHANGED followerVars
    BY <2>1 DEF followerVars, countVars, noticeVars, FollowersInv, FollowersAreSound,
        FollowersTypeOK, FollowerCountIsKept, SumOf, Followed, NoOrphanReceipt
  <2>2. CASE FollowersNext BY <2>2, FollowStep, NoticeStep, ShowStep DEF FollowersNext
  <2> QED BY <2>1, <2>2
<1>3. FollowersInv => FollowersAreSound BY DEF FollowersInv
<1> QED BY <1>1, <1>2, <1>3, PTL DEF FollowersSpec

-----------------------------------------------------------------------------
(* The emails of a show that goes live.                                    *)

AlertBatch == [show : Openings, batch : Nat, to : SUBSET Readers, attempt : 1..MaxSends]

\* The index has each follower once, and walks, batches and emails have their shape.
AlertsHaveShape ==
    /\ line \in Seq(Readers)
    /\ \A i, j \in 1..Len(line) : line[i] = line[j] => i = j
    /\ muted \subseteq Readers /\ alerted \in BOOLEAN
    /\ opening \in [Openings -> {"DRAFT", "LIVE", "ENDED"}]
    /\ walk \in [Openings -> Nat \cup {NoWalk}] /\ pages \in [Openings -> Nat]
    /\ batches \subseteq AlertBatch
    /\ mailed \in [Openings -> [Readers -> Nat]]
    /\ told \in [Openings -> SUBSET Readers] /\ steady \in [Openings -> SUBSET Readers]
    /\ spared \in [Openings -> SUBSET Readers]

\* Before a show nobody is told of it.
DraftsAreSilent ==
    \A s \in Openings : opening[s] = "DRAFT" =>
        walk[s] = NoWalk /\ pages[s] = 0 /\ told[s] = {} /\ steady[s] = {} /\ spared[s] = {}

\* Who is steady is in the index and wants mail, who is spared does not and is not told.
SidesAreKept ==
    \A s \in Openings :
        /\ \A u \in steady[s] : u \notin muted /\ \E i \in 1..Len(line) : line[i] = u
        /\ spared[s] \subseteq muted /\ spared[s] \cap told[s] = {}

\* The cursor parts the steady followers: those before it are told, those after it not yet.
CursorParts ==
    \A s \in Openings : walk[s] # NoWalk =>
        /\ walk[s] <= Len(line)
        /\ \A i \in 1..Len(line) : line[i] \in steady[s] => (line[i] \in told[s] <=> i <= walk[s])

\* Mail and batches are for who was told.
MailIsTold ==
    /\ \A b \in batches : b.to \subseteq told[b.show]
    /\ \A s \in Openings : \A u \in Readers : mailed[s][u] > 0 => u \in told[s]

\* A steady follower is in one batch only, whose key is taken once the mail was sent.
OneBatchEach ==
    /\ \A a, b \in batches : \A u \in a.to \cap b.to :
            a.show = b.show /\ u \in steady[a.show] => a.batch = b.batch
    /\ \A b \in batches : \A u \in b.to :
            u \in steady[b.show] /\ mailed[b.show][u] > 0 => IdempotencyKey(b) \in accepted

AlertsInv ==
    /\ AlertsHaveShape
    /\ DraftsAreSilent
    /\ SidesAreKept
    /\ CursorParts
    /\ MailIsTold
    /\ OneBatchEach
    /\ OneAlertPerShow
    /\ WalkMissesNobody

\* What a sequence is without its element g.
LEMMA WithoutElement ==
    ASSUME NEW S, NEW q \in Seq(S), NEW g \in 1..Len(q)
    PROVE  /\ RemoveAt(q, g) \in Seq(S) /\ Len(RemoveAt(q, g)) = Len(q) - 1
           /\ \A i \in 1..(Len(q) - 1) : RemoveAt(q, g)[i] = IF i < g THEN q[i] ELSE q[i + 1]
<1> DEFINE l == SubSeq(q, 1, g - 1)
           r == SubSeq(q, g + 1, Len(q))
<1>1. Len(q) \in Nat /\ g \in Int OBVIOUS
<1>2. l \in Seq(S) /\ Len(l) = g - 1 /\ \A i \in 1..(g - 1) : l[i] = q[i]
  BY <1>1, SMT
<1>3. r \in Seq(S) /\ Len(r) = Len(q) - g /\ \A i \in 1..(Len(q) - g) : r[i] = q[g + i]
  BY <1>1, SMT
<1> HIDE DEF l, r
<1>4. /\ l \o r \in Seq(S) /\ Len(l \o r) = Len(l) + Len(r)
      /\ \A i \in 1..(Len(l) + Len(r)) : (l \o r)[i] = IF i <= Len(l) THEN l[i] ELSE r[i - Len(l)]
  BY <1>2, <1>3, ConcatProperties
<1>5. RemoveAt(q, g) = l \o r BY DEF RemoveAt, l, r
<1>6. ASSUME NEW i \in 1..(Len(q) - 1)
      PROVE  (l \o r)[i] = IF i < g THEN q[i] ELSE q[i + 1]
  <2>1. CASE i < g BY <2>1, <1>1, <1>2, <1>3, <1>4
  <2>2. CASE ~(i < g)
    <3>1. (l \o r)[i] = r[i - (g - 1)] BY <2>2, <1>1, <1>2, <1>3, <1>4
    <3>2. i - (g - 1) \in 1..(Len(q) - g) BY <2>2, <1>1
    <3>3. r[i - (g - 1)] = q[g + (i - (g - 1))] BY <3>2, <1>3
    <3> QED BY <3>1, <3>3, <2>2, <1>1
  <2> QED BY <2>1, <2>2
<1>7. Len(l) + Len(r) = Len(q) - 1 BY <1>1, <1>2, <1>3
<1> QED BY <1>4, <1>5, <1>6, <1>7

\* A page ends at its full length or at the end of the index.
LEMMA PageEnds ==
    ASSUME NEW a \in Int, NEW b \in Int
    PROVE  /\ Min({a, b}) \in {a, b} /\ Min({a, b}) <= a /\ Min({a, b}) <= b
<1> DEFINE P(x) == x \in {a, b} /\ \A y \in {a, b} : x <= y
<1>1. P(IF a <= b THEN a ELSE b) OBVIOUS
<1>2. \E x : P(x) BY <1>1
<1>3. P(CHOOSE x : P(x)) BY <1>2
<1>4. Min({a, b}) = CHOOSE x : P(x) BY DEF Min
<1> QED BY <1>3, <1>4

\* A batch is for those on its page who want mail.
LEMMA PageRecipients ==
    ASSUME AlertsHaveShape, NEW w \in Nat, NEW e \in Nat, e <= Len(line)
    PROVE  Recipients(SubSeq(line, w + 1, e))
               = {u \in Readers : u \notin muted /\ \E i \in (w + 1)..e : line[i] = u}
<1> DEFINE q == SubSeq(line, w + 1, e)
<1>1. /\ Len(q) = IF w + 1 <= e THEN e - w ELSE 0
      /\ \A i \in 1..Len(q) : q[i] = line[w + i]
      /\ DOMAIN q = 1..Len(q)
  BY DEF AlertsHaveShape
<1>2. \A i \in (w + 1)..e : i - w \in 1..Len(q) /\ q[i - w] = line[i]
  <2> SUFFICES ASSUME NEW i \in (w + 1)..e PROVE i - w \in 1..Len(q) /\ q[i - w] = line[i] OBVIOUS
  <2>1. i - w \in 1..Len(q) BY <1>1
  <2>2. q[i - w] = line[w + (i - w)] BY <2>1, <1>1
  <2> QED BY <2>1, <2>2
<1>3. \A i \in 1..Len(q) : w + i \in (w + 1)..e /\ q[i] = line[w + i] BY <1>1
<1> HIDE DEF q
<1>4. \A i \in (w + 1)..e : line[i] \in Readers BY DEF AlertsHaveShape
<1>5. ToSet(q) = {u \in Readers : \E i \in (w + 1)..e : line[i] = u}
  <2>1. ToSet(q) = {q[i] : i \in 1..Len(q)} BY <1>1 DEF ToSet
  <2>2. \A u \in ToSet(q) : u \in Readers /\ \E i \in (w + 1)..e : line[i] = u
    BY <2>1, <1>3, <1>4
  <2>3. \A u \in Readers : (\E i \in (w + 1)..e : line[i] = u) => u \in ToSet(q)
    BY <2>1, <1>2
  <2> QED BY <2>2, <2>3
<1>6. Recipients(q) = ToSet(q) \ muted BY DEF Recipients
<1> QED BY <1>5, <1>6 DEF q

\* The parts that speak of followers and cursors, and those that speak of mail, are kept by
\* steps that leave what they read alone.
LEMMA AlertsSame ==
    ASSUME AlertsInv, UNCHANGED <<line, muted, walkVars, mailVars, toldVars>>,
           opening' \in [Openings -> {"DRAFT", "LIVE", "ENDED"}], alerted' \in BOOLEAN,
           \A s \in Openings : (opening'[s] = "DRAFT" => opening[s] = "DRAFT")
                               /\ (opening'[s] = "LIVE" => opening[s] = "LIVE")
    PROVE  AlertsInv'
<1> USE DEF walkVars, mailVars, toldVars
<1>1. AlertsHaveShape' BY DEF AlertsInv, AlertsHaveShape
<1>2. DraftsAreSilent' BY DEF AlertsInv, DraftsAreSilent
<1>3. SidesAreKept' BY DEF AlertsInv, SidesAreKept
<1>4. CursorParts' BY DEF AlertsInv, CursorParts
<1>5. MailIsTold' BY DEF AlertsInv, MailIsTold
<1>6. OneBatchEach' BY DEF AlertsInv, OneBatchEach, IdempotencyKey
<1>7. OneAlertPerShow' BY DEF AlertsInv, OneAlertPerShow
<1>8. WalkMissesNobody' BY DEF AlertsInv, WalkMissesNobody
<1> QED BY <1>1, <1>2, <1>3, <1>4, <1>5, <1>6, <1>7, <1>8 DEF AlertsInv

\* A new follower goes to the end of the index, beyond every cursor, and is not steady.
LEMMA StepJoins ==
    ASSUME AlertsInv, NEW u \in Readers, Joins(u) PROVE AlertsInv'
<1> USE DEF walkVars, mailVars, toldVars
<1>1. /\ line \in Seq(Readers) /\ Len(line) \in Nat /\ line' = Append(line, u)
      /\ \A i \in 1..Len(line) : line[i] # u
  BY DEF AlertsInv, AlertsHaveShape, Joins, ToSet
<1>2. /\ line' \in Seq(Readers) /\ Len(line') = Len(line) + 1
      /\ \A i \in 1..Len(line) : line'[i] = line[i]
      /\ line'[Len(line) + 1] = u
  BY <1>1
<1>3. UNCHANGED <<muted, opening, alerted, walk, pages, batches, accepted, mailed, told, steady, spared>>
  BY DEF Joins
<1>4. AlertsHaveShape'
  <2>1. \A i \in 1..Len(line') : i \in 1..Len(line) \/ i = Len(line) + 1 BY <1>1, <1>2
  <2>2. \A i, j \in 1..Len(line') : line'[i] = line'[j] => i = j
    <3> SUFFICES ASSUME NEW i \in 1..Len(line'), NEW j \in 1..Len(line'), line'[i] = line'[j]
                 PROVE  i = j OBVIOUS
    <3>1. CASE i \in 1..Len(line) /\ j \in 1..Len(line)
      <4>1. line[i] = line[j] BY <3>1, <1>2
      <4> QED BY <3>1, <4>1 DEF AlertsInv, AlertsHaveShape
    <3>2. CASE i = Len(line) + 1 /\ j \in 1..Len(line) BY <3>2, <1>1, <1>2
    <3>3. CASE j = Len(line) + 1 /\ i \in 1..Len(line) BY <3>3, <1>1, <1>2
    <3> QED BY <2>1, <3>1, <3>2, <3>3
  <2> QED BY <2>2, <1>2, <1>3 DEF AlertsInv, AlertsHaveShape
<1>5. DraftsAreSilent' BY <1>3 DEF AlertsInv, DraftsAreSilent
<1>6. SidesAreKept'
  <2>1. ASSUME NEW v, \E i \in 1..Len(line) : line[i] = v PROVE \E i \in 1..Len(line') : line'[i] = v
    <3>1. PICK i \in 1..Len(line) : line[i] = v BY <2>1
    <3>2. i \in 1..Len(line') /\ line'[i] = v BY <3>1, <1>1, <1>2
    <3> QED BY <3>2
  <2> QED BY <2>1, <1>3 DEF AlertsInv, SidesAreKept
<1>7. CursorParts'
  <2> SUFFICES ASSUME NEW s \in Openings, walk[s] # NoWalk
               PROVE  /\ walk[s] <= Len(line')
                      /\ \A i \in 1..Len(line') : line'[i] \in steady[s] =>
                             (line'[i] \in told[s] <=> i <= walk[s])
    BY <1>3 DEF CursorParts
  <2>1. walk[s] <= Len(line) /\ walk[s] \in Nat
    BY DEF AlertsInv, CursorParts, AlertsHaveShape
  <2>2. ASSUME NEW i \in 1..Len(line'), line'[i] \in steady[s]
        PROVE  line'[i] \in told[s] <=> i <= walk[s]
    <3>1. CASE i = Len(line) + 1
      <4>1. u \in steady[s] BY <3>1, <2>2, <1>2
      <4> QED BY <4>1, <1>1 DEF AlertsInv, SidesAreKept
    <3>2. CASE i \in 1..Len(line)
      BY <3>2, <2>2, <1>2 DEF AlertsInv, CursorParts
    <3> QED BY <3>1, <3>2, <1>1, <1>2
  <2> QED BY <2>1, <2>2, <1>1, <1>2
<1>8. MailIsTold' BY <1>3 DEF AlertsInv, MailIsTold
<1>9. OneBatchEach' BY <1>3 DEF AlertsInv, OneBatchEach, IdempotencyKey
<1>10. OneAlertPerShow' BY <1>3 DEF AlertsInv, OneAlertPerShow
<1>11. WalkMissesNobody' BY <1>3 DEF AlertsInv, WalkMissesNobody
<1> QED BY <1>4, <1>5, <1>6, <1>7, <1>8, <1>9, <1>10, <1>11 DEF AlertsInv

\* An unfollow moves the rows behind it, and the cursors that have passed it, one back.
LEMMA StepParts ==
    ASSUME AlertsInv, NEW u \in Readers, Parts(u) PROVE AlertsInv'
<1> USE DEF walkVars, mailVars, toldVars
<1> DEFINE g == CHOOSE i \in DOMAIN line : line[i] = u
<1>1. line \in Seq(Readers) /\ Len(line) \in Nat /\ DOMAIN line = 1..Len(line)
  BY DEF AlertsInv, AlertsHaveShape
<1>2. g \in 1..Len(line) /\ line[g] = u
  <2>1. \E i \in DOMAIN line : line[i] = u BY DEF Parts, ToSet
  <2> QED BY <2>1, <1>1
<1>3. /\ line' = RemoveAt(line, g)
      /\ walk' = [s \in Openings |-> Cursor(s, g)]
      /\ steady' = [s \in Openings |-> steady[s] \ {u}]
      /\ UNCHANGED <<muted, opening, alerted, pages, batches, accepted, mailed, told, spared>>
  BY DEF Parts
<1> HIDE DEF g
<1>4. /\ line' \in Seq(Readers) /\ Len(line') = Len(line) - 1
      /\ \A i \in 1..(Len(line) - 1) : line'[i] = IF i < g THEN line[i] ELSE line[i + 1]
  BY <1>1, <1>2, <1>3, WithoutElement
<1>5. \A s \in Openings : steady'[s] = steady[s] \ {u} BY <1>3
<1>6. \A s \in Openings : walk[s] \in Nat \cup {NoWalk} BY DEF AlertsInv, AlertsHaveShape
<1>7. \A s \in Openings : /\ walk'[s] = IF walk[s] >= g THEN walk[s] - 1 ELSE walk[s]
                          /\ walk'[s] \in Nat \cup {NoWalk}
                          /\ walk'[s] = NoWalk <=> walk[s] = NoWalk
  BY <1>2, <1>3, <1>6 DEF Cursor, NoWalk
<1>8. AlertsHaveShape'
  <2>1. \A i, j \in 1..Len(line') : line'[i] = line'[j] => i = j
    <3> SUFFICES ASSUME NEW i \in 1..Len(line'), NEW j \in 1..Len(line'), line'[i] = line'[j]
                 PROVE  i = j OBVIOUS
    <3> DEFINE a == IF i < g THEN i ELSE i + 1
               b == IF j < g THEN j ELSE j + 1
    <3>1. a \in 1..Len(line) /\ b \in 1..Len(line) BY <1>1, <1>2, <1>4
    <3>2. line[a] = line[b] BY <1>1, <1>4
    <3>3. a = b BY <3>1, <3>2 DEF AlertsInv, AlertsHaveShape
    <3> QED BY <3>3, <1>1, <1>2, <1>4
  <2>2. walk' \in [Openings -> Nat \cup {NoWalk}] BY <1>3, <1>7
  <2>3. steady' \in [Openings -> SUBSET Readers] BY <1>3, <1>5 DEF AlertsInv, AlertsHaveShape
  <2> QED BY <2>1, <2>2, <2>3, <1>3, <1>4 DEF AlertsInv, AlertsHaveShape
<1>9. DraftsAreSilent' BY <1>3, <1>5, <1>7 DEF AlertsInv, DraftsAreSilent
<1>10. SidesAreKept'
  <2>1. ASSUME NEW s \in Openings, NEW v \in steady'[s]
        PROVE  v \notin muted /\ \E i \in 1..Len(line') : line'[i] = v
    <3>1. v \in steady[s] /\ v # u BY <2>1, <1>5
    <3>2. PICK i \in 1..Len(line) : line[i] = v BY <3>1 DEF AlertsInv, SidesAreKept
    <3>3. i # g BY <3>1, <3>2, <1>2
    <3>4. CASE i < g
      <4>1. i \in 1..Len(line') /\ line'[i] = v BY <3>2, <3>4, <1>1, <1>2, <1>4
      <4> QED BY <4>1, <3>1 DEF AlertsInv, SidesAreKept
    <3>5. CASE i > g
      <4>1. i - 1 \in 1..Len(line') /\ ~(i - 1 < g) /\ (i - 1) + 1 = i
        BY <3>5, <1>1, <1>2, <1>4
      <4>2. line'[i - 1] = v BY <3>2, <4>1, <1>1, <1>4
      <4> QED BY <4>1, <4>2, <3>1 DEF AlertsInv, SidesAreKept
    <3> QED BY <3>3, <3>4, <3>5, <1>1, <1>2
  <2> QED BY <2>1, <1>3 DEF AlertsInv, SidesAreKept
<1>11. CursorParts'
  <2> SUFFICES ASSUME NEW s \in Openings, walk'[s] # NoWalk
               PROVE  /\ walk'[s] <= Len(line')
                      /\ \A i \in 1..Len(line') : line'[i] \in steady'[s] =>
                             (line'[i] \in told[s] <=> i <= walk'[s])
    BY <1>3 DEF CursorParts
  <2>1. walk[s] \in Nat /\ walk[s] <= Len(line)
    BY <1>6, <1>7 DEF AlertsInv, CursorParts
  <2>2. walk'[s] <= Len(line') BY <2>1, <1>1, <1>2, <1>4, <1>7
  <2>3. ASSUME NEW i \in 1..Len(line'), line'[i] \in steady'[s]
        PROVE  line'[i] \in told[s] <=> i <= walk'[s]
    <3> DEFINE a == IF i < g THEN i ELSE i + 1
    <3>1. a \in 1..Len(line) /\ line'[i] = line[a] BY <1>1, <1>2, <1>4
    <3>2. line[a] \in steady[s] BY <3>1, <2>3, <1>5
    <3>3. line[a] \in told[s] <=> a <= walk[s]
      BY <3>1, <3>2, <2>1, <1>7 DEF AlertsInv, CursorParts
    <3>4. a <= walk[s] <=> i <= walk'[s] BY <1>1, <1>2, <1>4, <1>7, <2>1
    <3> QED BY <3>1, <3>3, <3>4
  <2> QED BY <2>2, <2>3
<1>12. MailIsTold' BY <1>3 DEF AlertsInv, MailIsTold
<1>13. OneBatchEach'
  <2>1. \A b \in batches : b.show \in Openings BY DEF AlertsInv, AlertsHaveShape, AlertBatch
  <2> QED BY <2>1, <1>3, <1>5 DEF AlertsInv, OneBatchEach, IdempotencyKey
<1>14. OneAlertPerShow' BY <1>3, <1>5 DEF AlertsInv, OneAlertPerShow
<1>15. WalkMissesNobody' BY <1>3, <1>5, <1>7 DEF AlertsInv, WalkMissesNobody
<1> QED BY <1>8, <1>9, <1>10, <1>11, <1>12, <1>13, <1>14, <1>15 DEF AlertsInv

\* Who changes their mind is neither steady nor spared any more.
LEMMA StepSetLiveAlerts ==
    ASSUME AlertsInv, NEW u \in Readers, NEW enabled \in BOOLEAN, SetLiveAlerts(u, enabled)
    PROVE  AlertsInv'
<1> USE DEF walkVars, mailVars, toldVars
<1>1. /\ muted' = IF enabled THEN muted \ {u} ELSE muted \cup {u}
      /\ steady' = [s \in Openings |-> steady[s] \ {u}]
      /\ spared' = [s \in Openings |-> spared[s] \ {u}]
      /\ UNCHANGED <<line, opening, alerted, walk, pages, batches, accepted, mailed, told>>
  BY DEF SetLiveAlerts
<1>2. \A s \in Openings : steady'[s] = steady[s] \ {u} /\ spared'[s] = spared[s] \ {u} BY <1>1
<1>3. muted' \subseteq Readers /\ muted \ {u} \subseteq muted' /\ muted' \subseteq muted \cup {u}
  BY <1>1 DEF AlertsInv, AlertsHaveShape
<1>4. AlertsHaveShape'
  <2>1. steady' \in [Openings -> SUBSET Readers] /\ spared' \in [Openings -> SUBSET Readers]
    BY <1>1, <1>2 DEF AlertsInv, AlertsHaveShape
  <2> QED BY <2>1, <1>1, <1>3 DEF AlertsInv, AlertsHaveShape
<1>5. DraftsAreSilent' BY <1>1, <1>2 DEF AlertsInv, DraftsAreSilent
<1>6. SidesAreKept' BY <1>1, <1>2, <1>3 DEF AlertsInv, SidesAreKept
<1>7. CursorParts' BY <1>1, <1>2 DEF AlertsInv, CursorParts
<1>8. MailIsTold' BY <1>1 DEF AlertsInv, MailIsTold
<1>9. OneBatchEach'
  <2>1. \A b \in batches : b.show \in Openings BY DEF AlertsInv, AlertsHaveShape, AlertBatch
  <2> QED BY <2>1, <1>1, <1>2 DEF AlertsInv, OneBatchEach, IdempotencyKey
<1>10. OneAlertPerShow' BY <1>1, <1>2 DEF AlertsInv, OneAlertPerShow
<1>11. WalkMissesNobody' BY <1>1, <1>2 DEF AlertsInv, WalkMissesNobody
<1> QED BY <1>4, <1>5, <1>6, <1>7, <1>8, <1>9, <1>10, <1>11 DEF AlertsInv

\* A show goes live with nobody told: its cursor is before everybody.
LEMMA StepQueueLiveAlert ==
    ASSUME AlertsInv, NEW s \in Openings, QueueLiveAlert(s) PROVE AlertsInv'
<1> USE DEF walkVars, mailVars, toldVars
<1>1. /\ opening[s] = "DRAFT"
      /\ opening' = [opening EXCEPT ![s] = "LIVE"]
      /\ alerted' = TRUE
      /\ walk' = IF alerted THEN walk ELSE [walk EXCEPT ![s] = 0]
      /\ steady' = [steady EXCEPT ![s] = ToSet(line) \ muted]
      /\ spared' = [spared EXCEPT ![s] = muted]
      /\ UNCHANGED <<line, muted, pages, batches, accepted, mailed, told>>
  BY DEF QueueLiveAlert
<1>2. AlertsHaveShape /\ line \in Seq(Readers) /\ DOMAIN line = 1..Len(line) /\ Len(line) \in Nat
  BY DEF AlertsInv, AlertsHaveShape
<1>3. ToSet(line) = {line[i] : i \in 1..Len(line)} /\ ToSet(line) \subseteq Readers
  BY <1>2 DEF ToSet
<1>4. \A r \in Openings : /\ r # s => /\ steady'[r] = steady[r] /\ spared'[r] = spared[r]
                                      /\ opening'[r] = opening[r] /\ walk'[r] = walk[r]
                          /\ walk'[s] \in {walk[s], 0}
                          /\ steady'[s] = ToSet(line) \ muted /\ spared'[s] = muted
                          /\ opening'[s] = "LIVE"
  BY <1>1, <1>2 DEF AlertsHaveShape
<1>5. walk[s] = NoWalk /\ pages[s] = 0 /\ told[s] = {}
  BY <1>1 DEF AlertsInv, DraftsAreSilent
<1>6. AlertsHaveShape' BY <1>1, <1>2, <1>3 DEF AlertsHaveShape
<1>7. DraftsAreSilent' BY <1>1, <1>4 DEF AlertsInv, DraftsAreSilent
<1>8. SidesAreKept'
  <2> SUFFICES ASSUME NEW r \in Openings
               PROVE  /\ \A u \in steady'[r] : u \notin muted /\ \E i \in 1..Len(line) : line[i] = u
                      /\ spared'[r] \subseteq muted /\ spared'[r] \cap told[r] = {}
    BY <1>1 DEF SidesAreKept
  <2>1. CASE r = s BY <2>1, <1>3, <1>4, <1>5
  <2>2. CASE r # s BY <2>2, <1>4 DEF AlertsInv, SidesAreKept
  <2> QED BY <2>1, <2>2
<1>9. CursorParts'
  <2> SUFFICES ASSUME NEW r \in Openings, walk'[r] # NoWalk
               PROVE  /\ walk'[r] <= Len(line)
                      /\ \A i \in 1..Len(line) : line[i] \in steady'[r] =>
                             (line[i] \in told[r] <=> i <= walk'[r])
    BY <1>1 DEF CursorParts
  <2>1. CASE r = s BY <2>1, <1>2, <1>4, <1>5
  <2>2. CASE r # s BY <2>2, <1>4 DEF AlertsInv, CursorParts
  <2> QED BY <2>1, <2>2
<1>10. MailIsTold' BY <1>1 DEF AlertsInv, MailIsTold
<1>11. \A b \in batches : b.show \in Openings /\ b.to \subseteq Readers /\ (b.show = s => b.to = {})
  BY <1>2, <1>5 DEF AlertsInv, MailIsTold, AlertsHaveShape, AlertBatch
<1>12. OneBatchEach'
  <2>1. \A a, b \in batches : \A u \in a.to \cap b.to :
            a.show = b.show /\ u \in steady'[a.show] => a.batch = b.batch
    BY <1>4, <1>11 DEF AlertsInv, OneBatchEach
  <2>2. \A b \in batches : \A u \in b.to :
            u \in steady'[b.show] /\ mailed[b.show][u] > 0 => IdempotencyKey(b) \in accepted
    BY <1>4, <1>11 DEF AlertsInv, OneBatchEach
  <2> QED BY <2>1, <2>2, <1>1 DEF OneBatchEach, IdempotencyKey
<1>13. OneAlertPerShow'
  <2> SUFFICES ASSUME NEW r \in Openings, NEW u \in steady'[r] PROVE mailed[r][u] <= 1
    BY <1>1 DEF OneAlertPerShow
  <2>1. CASE r = s
    <3>1. u \in Readers BY <2>1, <1>3, <1>4
    <3>2. mailed[s][u] \in Nat /\ ~(mailed[s][u] > 0)
      BY <3>1, <1>2, <1>5 DEF AlertsInv, MailIsTold, AlertsHaveShape
    <3> QED BY <2>1, <3>2
  <2>2. CASE r # s BY <2>2, <1>4 DEF AlertsInv, OneAlertPerShow
  <2> QED BY <2>1, <2>2
<1>14. WalkMissesNobody'
  <2> SUFFICES ASSUME NEW r \in Openings, opening'[r] = "LIVE", walk'[r] = NoWalk, pages[r] > 0
               PROVE  steady'[r] \subseteq told[r]
    BY <1>1 DEF WalkMissesNobody
  <2>1. r # s BY <1>5
  <2> QED BY <2>1, <1>4 DEF AlertsInv, WalkMissesNobody
<1> QED BY <1>6, <1>7, <1>8, <1>9, <1>10, <1>12, <1>13, <1>14 DEF AlertsInv

\* A page is told and the cursor passes it; a page that is not full ends the index.
LEMMA StepCollect ==
    ASSUME AlertsInv, NEW s \in Openings, Collect(s) PROVE AlertsInv'
<1> USE DEF walkVars, mailVars, toldVars
<1> DEFINE last == Min({walk[s] + Batch, Len(line)})
           to == Recipients(SubSeq(line, walk[s] + 1, last))
           new == [show |-> s, batch |-> pages[s], to |-> to, attempt |-> 1]
<1>1. AlertsHaveShape /\ line \in Seq(Readers) /\ Len(line) \in Nat
  BY DEF AlertsInv, AlertsHaveShape
<1>2. walk[s] \in Nat /\ walk[s] # NoWalk /\ walk[s] <= Len(line)
  BY <1>1 DEF Collect, AlertsInv, CursorParts, AlertsHaveShape
<1>3. /\ last \in Nat /\ walk[s] <= last /\ last <= Len(line)
      /\ last = walk[s] + Batch \/ last = Len(line)
  <2>1. walk[s] + Batch \in Int /\ Len(line) \in Int BY <1>1, <1>2, LiveAlertsAssumption
  <2>2. last \in {walk[s] + Batch, Len(line)} /\ last <= walk[s] + Batch /\ last <= Len(line)
    BY <2>1, PageEnds
  <2> QED BY <2>2, <1>1, <1>2, LiveAlertsAssumption
<1>4. UNCHANGED <<line, muted, opening, alerted, accepted, mailed, steady, spared>>
  BY DEF Collect
<1>5. CASE opening[s] # "LIVE"
  <2>1. walk' = [walk EXCEPT ![s] = NoWalk] /\ pages' = pages /\ batches' = batches /\ told' = told
    BY <1>5 DEF Collect
  <2>2. \A r \in Openings : walk'[r] = walk[r] \/ (r = s /\ walk'[r] = NoWalk)
    BY <2>1, <1>1 DEF AlertsHaveShape
  <2>3. AlertsHaveShape' BY <2>1, <1>1, <1>4 DEF AlertsHaveShape
  <2>4. DraftsAreSilent' BY <2>1, <2>2, <1>4 DEF AlertsInv, DraftsAreSilent
  <2>5. SidesAreKept' BY <2>1, <1>4 DEF AlertsInv, SidesAreKept
  <2>6. CursorParts' BY <2>1, <2>2, <1>4 DEF AlertsInv, CursorParts
  <2>7. MailIsTold' BY <2>1, <1>4 DEF AlertsInv, MailIsTold
  <2>8. OneBatchEach' BY <2>1, <1>4 DEF AlertsInv, OneBatchEach, IdempotencyKey
  <2>9. OneAlertPerShow' BY <1>4 DEF AlertsInv, OneAlertPerShow
  <2>10. WalkMissesNobody' BY <2>1, <2>2, <1>4, <1>5 DEF AlertsInv, WalkMissesNobody
  <2> QED BY <2>3, <2>4, <2>5, <2>6, <2>7, <2>8, <2>9, <2>10 DEF AlertsInv
<1>6. CASE opening[s] = "LIVE"
  <2>1. /\ walk' = [walk EXCEPT ![s] = IF last = walk[s] + Batch THEN last ELSE NoWalk]
        /\ pages' = [pages EXCEPT ![s] = pages[s] + 1]
        /\ batches' = IF to # {} THEN batches \cup {new} ELSE batches
        /\ told' = [told EXCEPT ![s] = told[s] \cup to]
    BY <1>6 DEF Collect
  <2>2. to = {u \in Readers : u \notin muted /\ \E i \in (walk[s] + 1)..last : line[i] = u}
    BY <1>1, <1>2, <1>3, PageRecipients
  <2> HIDE DEF last, to
  <2>3. \A r \in Openings : /\ r # s => walk'[r] = walk[r] /\ pages'[r] = pages[r] /\ told'[r] = told[r]
                            /\ told'[s] = told[s] \cup to
                            /\ walk'[s] = IF last = walk[s] + Batch THEN last ELSE NoWalk
    BY <2>1, <1>1 DEF AlertsHaveShape
  <2>4. \A i \in 1..Len(line) : line[i] \in steady[s] => (line[i] \in told'[s] <=> i <= last)
    <3> SUFFICES ASSUME NEW i \in 1..Len(line), line[i] \in steady[s]
                 PROVE  line[i] \in told'[s] <=> i <= last OBVIOUS
    <3>1. line[i] \in told[s] <=> i <= walk[s] BY <1>2 DEF AlertsInv, CursorParts
    <3>2. line[i] \notin muted /\ line[i] \in Readers BY <1>1 DEF AlertsInv, SidesAreKept
    <3>3. \A j \in (walk[s] + 1)..last : line[j] = line[i] => j = i
      BY <1>1, <1>2, <1>3 DEF AlertsHaveShape
    <3>4. line[i] \in to <=> i \in (walk[s] + 1)..last BY <2>2, <3>2, <3>3
    <3> QED BY <3>1, <3>4, <2>3, <1>1, <1>2, <1>3
  <2>5. \A u \in to : u \in steady[s] => u \notin told[s]
    <3> SUFFICES ASSUME NEW u \in to, u \in steady[s] PROVE u \notin told[s] OBVIOUS
    <3>1. PICK i \in (walk[s] + 1)..last : line[i] = u BY <2>2
    <3>2. i \in 1..Len(line) /\ ~(i <= walk[s]) BY <1>1, <1>2, <1>3
    <3> QED BY <3>1, <3>2, <1>2 DEF AlertsInv, CursorParts
  <2>6. to \subseteq Readers /\ to \cap muted = {} BY <2>2
  <2>7. new \in AlertBatch BY <2>6, <1>1, LiveAlertsAssumption DEF AlertBatch, AlertsHaveShape
  <2>8. AlertsHaveShape'
    <3>1. walk' \in [Openings -> Nat \cup {NoWalk}] /\ pages' \in [Openings -> Nat]
      BY <2>1, <1>1, <1>3 DEF AlertsHaveShape
    <3>2. batches' \subseteq AlertBatch BY <2>1, <2>7, <1>1 DEF AlertsHaveShape
    <3>3. told' \in [Openings -> SUBSET Readers] BY <2>1, <2>6, <1>1 DEF AlertsHaveShape
    <3> QED BY <3>1, <3>2, <3>3, <1>1, <1>4 DEF AlertsHaveShape
  <2>9. DraftsAreSilent' BY <2>3, <1>4, <1>6 DEF AlertsInv, DraftsAreSilent
  <2>10. SidesAreKept'
    <3>1. \A r \in Openings : spared[r] \cap told'[r] = {}
      BY <2>3, <2>6 DEF AlertsInv, SidesAreKept
    <3> QED BY <3>1, <1>4 DEF AlertsInv, SidesAreKept
  <2>11. CursorParts' BY <2>3, <2>4, <1>3, <1>4 DEF AlertsInv, CursorParts
  <2>12. \A b \in batches' : b = new \/ b \in batches BY <2>1
  <2>13. \A b \in batches : /\ b.show \in Openings /\ b.to \subseteq told[b.show]
                            /\ b.show = s => b.to \cap to \cap steady[s] = {}
    BY <2>5, <1>1 DEF AlertsInv, MailIsTold, AlertsHaveShape, AlertBatch
  <2>14. new.show = s /\ new.to = to OBVIOUS
  <2> HIDE DEF new
  <2>15. MailIsTold'
    <3>1. \A r \in Openings : told[r] \subseteq told'[r] BY <2>3
    <3>2. \A b \in batches' : b.to \subseteq told'[b.show]
      BY <3>1, <2>3, <2>12, <2>13, <2>14
    <3> QED BY <3>1, <3>2, <1>4 DEF AlertsInv, MailIsTold
  <2>16. OneBatchEach'
    <3>1. \A a, b \in batches' : \A u \in a.to \cap b.to :
              a.show = b.show /\ u \in steady[a.show] => a.batch = b.batch
      BY <2>12, <2>13, <2>14 DEF AlertsInv, OneBatchEach
    <3>2. \A u \in to : u \in steady[s] => ~(mailed[s][u] > 0)
      BY <2>5, <2>6 DEF AlertsInv, MailIsTold
    <3>3. \A b \in batches' : \A u \in b.to :
              u \in steady[b.show] /\ mailed[b.show][u] > 0 => IdempotencyKey(b) \in accepted
      BY <3>2, <2>12, <2>14 DEF AlertsInv, OneBatchEach
    <3> QED BY <3>1, <3>3, <1>4 DEF OneBatchEach, IdempotencyKey
  <2>17. OneAlertPerShow' BY <1>4 DEF AlertsInv, OneAlertPerShow
  <2>18. WalkMissesNobody'
    <3> SUFFICES ASSUME NEW r \in Openings, opening[r] = "LIVE", walk'[r] = NoWalk, pages'[r] > 0
                 PROVE  steady[r] \subseteq told'[r]
      BY <1>4 DEF WalkMissesNobody
    <3>1. CASE r # s BY <3>1, <2>3 DEF AlertsInv, WalkMissesNobody
    <3>2. CASE r = s
      <4>1. last = Len(line) BY <3>2, <2>3, <1>3 DEF NoWalk
      <4>2. \A i \in 1..Len(line) : line[i] \in steady[s] => line[i] \in told'[s]
        BY <4>1, <2>4, <1>1
      <4>3. \A u \in steady[s] : \E i \in 1..Len(line) : line[i] = u BY DEF AlertsInv, SidesAreKept
      <4> QED BY <4>2, <4>3, <3>2
    <3> QED BY <3>1, <3>2
  <2> QED BY <2>8, <2>9, <2>10, <2>11, <2>15, <2>16, <2>17, <2>18 DEF AlertsInv
<1> QED BY <1>5, <1>6

\* A batch that is sent again has the key of the first time, which delivers once.
LEMMA StepSendAlert ==
    ASSUME AlertsInv, NEW b \in batches, SendAlert(b) PROVE AlertsInv'
<1> USE DEF walkVars, mailVars, toldVars
<1>1. UNCHANGED <<line, muted, opening, alerted, walk, pages, told, steady, spared>>
  BY DEF SendAlert
<1>2. b \in AlertBatch /\ b.show \in Openings /\ b.to \subseteq Readers /\ b.attempt \in 1..MaxSends
  BY DEF AlertsInv, AlertsHaveShape, AlertBatch
<1>3. batches' \subseteq AlertBatch
  <2>1. [b EXCEPT !.attempt = b.attempt + 1] \in AlertBatch
        \/ ~(b.attempt < MaxSends)
    BY <1>2, LiveAlertsAssumption DEF AlertBatch
  <2> QED BY <2>1 DEF SendAlert, AlertsInv, AlertsHaveShape
<1>4. \A a \in batches' : \E c \in batches : a.show = c.show /\ a.batch = c.batch /\ a.to = c.to
  <2>1. ASSUME NEW a \in batches', a \notin batches PROVE a.show = b.show /\ a.batch = b.batch /\ a.to = b.to
    <3>1. a = [b EXCEPT !.attempt = b.attempt + 1] BY <2>1 DEF SendAlert
    <3> QED BY <3>1, <1>2 DEF AlertBatch
  <2> QED BY <2>1
<1>5. \A a \in batches : a.show \in Openings /\ a.to \subseteq Readers /\ a.to \subseteq told[a.show]
  BY DEF AlertsInv, AlertsHaveShape, AlertBatch, MailIsTold
<1>6. \/ mailed' = mailed /\ accepted \subseteq accepted'
      \/ /\ accepted' = accepted \cup {IdempotencyKey(b)} /\ IdempotencyKey(b) \notin accepted
         /\ mailed' = [mailed EXCEPT ![b.show] =
                [u \in Readers |-> IF u \in b.to THEN mailed[b.show][u] + 1 ELSE mailed[b.show][u]]]
  BY DEF SendAlert, ResendDelivers
<1>7. /\ mailed' \in [Openings -> [Readers -> Nat]] /\ accepted \subseteq accepted'
      /\ \A r \in Openings : \A u \in Readers :
            \/ mailed'[r][u] = mailed[r][u]
            \/ /\ r = b.show /\ u \in b.to /\ mailed'[r][u] = mailed[r][u] + 1
               /\ IdempotencyKey(b) \notin accepted /\ IdempotencyKey(b) \in accepted'
  <2>1. mailed \in [Openings -> [Readers -> Nat]] BY DEF AlertsInv, AlertsHaveShape
  <2> QED BY <2>1, <1>2, <1>6
<1>8. AlertsHaveShape' BY <1>1, <1>3, <1>7 DEF AlertsInv, AlertsHaveShape
<1>9. DraftsAreSilent' BY <1>1 DEF AlertsInv, DraftsAreSilent
<1>10. SidesAreKept' BY <1>1 DEF AlertsInv, SidesAreKept
<1>11. CursorParts' BY <1>1 DEF AlertsInv, CursorParts
<1>12. MailIsTold'
  <2>1. \A a \in batches' : a.to \subseteq told[a.show] BY <1>4, <1>5
  <2>2. \A r \in Openings : \A u \in Readers : mailed'[r][u] > 0 => u \in told[r]
    BY <1>5, <1>7 DEF AlertsInv, MailIsTold
  <2> QED BY <2>1, <2>2, <1>1 DEF MailIsTold
<1>13. \A u \in b.to : u \in steady[b.show] /\ IdempotencyKey(b) \notin accepted => mailed[b.show][u] = 0
  <2>1. \A u \in b.to : mailed[b.show][u] \in Nat BY <1>2 DEF AlertsInv, AlertsHaveShape
  <2> QED BY <2>1 DEF AlertsInv, OneBatchEach
<1>14. OneBatchEach'
  <2>1. \A a, c \in batches : \A u \in a.to \cap c.to :
            a.show = c.show /\ u \in steady[a.show] => a.batch = c.batch
    BY DEF AlertsInv, OneBatchEach
  <2>2. \A a, c \in batches' : \A u \in a.to \cap c.to :
            a.show = c.show /\ u \in steady[a.show] => a.batch = c.batch
    BY <2>1, <1>4
  <2>3. ASSUME NEW a \in batches, NEW u \in a.to, u \in steady[a.show], mailed'[a.show][u] > 0
        PROVE  IdempotencyKey(a) \in accepted'
    <3>1. CASE mailed'[a.show][u] = mailed[a.show][u]
      BY <3>1, <2>3, <1>7 DEF AlertsInv, OneBatchEach
    <3>2. CASE a.show = b.show /\ u \in b.to /\ IdempotencyKey(b) \in accepted'
      <4>1. a.batch = b.batch BY <3>2, <2>1, <2>3
      <4> QED BY <4>1, <3>2 DEF IdempotencyKey
    <3> QED BY <3>1, <3>2, <1>5, <1>7
  <2>4. ASSUME NEW a \in batches', NEW u \in a.to, u \in steady[a.show], mailed'[a.show][u] > 0
        PROVE  IdempotencyKey(a) \in accepted'
    <3>1. PICK c \in batches : a.show = c.show /\ a.batch = c.batch /\ a.to = c.to BY <1>4
    <3>2. IdempotencyKey(c) \in accepted' BY <3>1, <2>3, <2>4
    <3> QED BY <3>1, <3>2 DEF IdempotencyKey
  <2> QED BY <2>2, <2>4, <1>1 DEF OneBatchEach, IdempotencyKey
<1>15. OneAlertPerShow'
  <2> SUFFICES ASSUME NEW r \in Openings, NEW u \in steady[r] PROVE mailed'[r][u] <= 1
    BY <1>1 DEF OneAlertPerShow
  <2>1. u \in Readers BY DEF AlertsInv, AlertsHaveShape
  <2>2. CASE mailed'[r][u] = mailed[r][u] BY <2>2 DEF AlertsInv, OneAlertPerShow
  <2>3. CASE r = b.show /\ u \in b.to /\ mailed'[r][u] = mailed[r][u] + 1
             /\ IdempotencyKey(b) \notin accepted
    <3>1. mailed[r][u] = 0 BY <2>3, <1>13
    <3> QED BY <3>1, <2>3
  <2> QED BY <2>1, <2>2, <2>3, <1>7
<1>16. WalkMissesNobody' BY <1>1 DEF AlertsInv, WalkMissesNobody
<1> QED BY <1>8, <1>9, <1>10, <1>11, <1>12, <1>14, <1>15, <1>16 DEF AlertsInv

\* SetToSeq lists the readers once each.
LEMMA AlertsStart == AlertsInit => AlertsInv
<1> SUFFICES ASSUME AlertsInit PROVE AlertsInv OBVIOUS
<1> USE DEF AlertsInit
<1> DEFINE n == Cardinality(Readers)
           P(f) == f \in [1..n -> Readers] /\ IsInjective(f)
<1>1. n \in Nat /\ ExistsBijection(1..n, Readers) BY LiveAlertsAssumption, FS_CardinalityType
<1>2. \E f : P(f)
  <2>1. PICK f \in Bijection(1..n, Readers) : TRUE BY <1>1 DEF ExistsBijection
  <2>2. P(f) BY <2>1 DEF Bijection, Injection, Surjection, IsInjective
  <2> QED BY <2>2
<1>3. P(CHOOSE f : P(f)) BY <1>2
<1>4. line = CHOOSE f : P(f) BY DEF SetToSeq
<1> HIDE DEF P
<1>5. P(line) BY <1>3, <1>4
<1> HIDE DEF n
<1>6. line \in [1..n -> Readers] /\ IsInjective(line) BY <1>5 DEF P
<1>7. line \in Seq(Readers) /\ Len(line) = n BY <1>1, <1>6
<1>8. AlertsHaveShape BY <1>6, <1>7 DEF AlertsHaveShape, IsInjective
<1>9. DraftsAreSilent /\ SidesAreKept /\ CursorParts
  BY DEF DraftsAreSilent, SidesAreKept, CursorParts
<1>10. MailIsTold /\ OneBatchEach BY DEF MailIsTold, OneBatchEach
<1>11. OneAlertPerShow /\ WalkMissesNobody BY DEF OneAlertPerShow, WalkMissesNobody
<1> QED BY <1>8, <1>9, <1>10, <1>11 DEF AlertsInv

\* For any readers, page and number of tries, however followers come, go and change their
\* minds between two pages: the walk misses nobody who followed and wanted mail since
\* before the show, nobody of them is mailed twice, and who turned alerts off is not mailed
\* (queueLiveAlert, collect, send).
THEOREM AlertsSafe == AlertsSpec => []AlertsAreSound
<1>1. AlertsInv /\ [AlertsNext]_alertVars => AlertsInv'
  <2> SUFFICES ASSUME AlertsInv, [AlertsNext]_alertVars PROVE AlertsInv' OBVIOUS
  <2>1. CASE CooldownEnds
    BY <2>1, AlertsSame DEF CooldownEnds, AlertsInv, AlertsHaveShape
  <2>2. CASE \E s \in Openings : EndOpening(s)
    BY <2>2, AlertsSame DEF EndOpening, AlertsInv, AlertsHaveShape
  <2>3. CASE UNCHANGED alertVars
    BY <2>3, AlertsSame DEF alertVars, AlertsInv, AlertsHaveShape
  <2>4. CASE \E u \in Readers : Joins(u) BY <2>4, StepJoins
  <2>5. CASE \E u \in Readers : Parts(u) BY <2>5, StepParts
  <2>6. CASE \E u \in Readers : \E enabled \in BOOLEAN : SetLiveAlerts(u, enabled)
    BY <2>6, StepSetLiveAlerts
  <2>7. CASE \E s \in Openings : QueueLiveAlert(s) BY <2>7, StepQueueLiveAlert
  <2>8. CASE \E s \in Openings : Collect(s) BY <2>8, StepCollect
  <2>9. CASE \E b \in batches : SendAlert(b) BY <2>9, StepSendAlert
  <2> QED BY <2>1, <2>2, <2>3, <2>4, <2>5, <2>6, <2>7, <2>8, <2>9 DEF AlertsNext
<1>2. AlertsInv => AlertsAreSound
  <2> SUFFICES ASSUME AlertsInv PROVE AlertsAreSound OBVIOUS
  <2>1. AlertsTypeOK
    <3>1. ToSet(line) \subseteq Readers BY DEF AlertsInv, AlertsHaveShape, ToSet
    <3> QED BY <3>1 DEF AlertsInv, AlertsHaveShape, AlertsTypeOK, AlertBatch
  <2>2. MutedIsSpared
    <3> SUFFICES ASSUME NEW s \in Openings, NEW u \in spared[s] PROVE mailed[s][u] = 0
      BY DEF MutedIsSpared
    <3>1. u \in Readers /\ mailed[s][u] \in Nat BY DEF AlertsInv, AlertsHaveShape
    <3>2. ~(mailed[s][u] > 0) BY <3>1 DEF AlertsInv, MailIsTold, SidesAreKept
    <3> QED BY <3>1, <3>2
  <2> QED BY <2>1, <2>2 DEF AlertsInv, AlertsAreSound
<1> QED BY <1>1, <1>2, AlertsStart, PTL DEF AlertsSpec

-----------------------------------------------------------------------------
(* The audience of a channel.                                              *)

CounterPhase == {"idle", "scheduled", "reading", "storing"}
Counter == [phase : CounterPhase, at : Int, after : Int \X Int, total : Nat]

\* The rows beyond a recount's cursor, which it has still to count.
Remaining(j) == {v \in Visitors : Past(v, counters[j].after)}

\* Whoever has a row came at some time.
AudienceHasShape ==
    /\ clock \in Nat /\ onAir \in BOOLEAN /\ counting \in BOOLEAN /\ shown \in Nat \cup {NoStats}
    /\ visits \in [Visitors -> -1..clock] /\ counters \in [Counters -> Counter]
    /\ came \subseteq Visitors /\ \A v \in Visitors : visits[v] # Gone => v \in came
    /\ moved \in BOOLEAN /\ backlog \in BOOLEAN /\ died \in BOOLEAN

\* There is at most one recount, which the row knows of, but for a backlog and a death.
RowKnowsCounter ==
    \/ backlog \/ died
    \/ /\ \A i, j \in Active : i = j
       /\ Active # {} => counting

\* What a recount has counted and what it has still to count are different visitors, unless
\* one moved.
CountsAreApart ==
    \/ moved
    \/ /\ shown <= Cardinality(came)
       /\ \A j \in Counters :
            /\ counters[j].phase = "reading" =>
                 counters[j].total + Cardinality(Remaining(j)) <= Cardinality(came)
            /\ counters[j].phase = "storing" => counters[j].total <= Cardinality(came)

AudienceInv ==
    /\ AudienceHasShape
    /\ CountingHasJob
    /\ RowKnowsCounter
    /\ CountsAreApart

\* No recount is a recount's record too.
LEMMA IdleIsCounter == Idle \in Counter /\ Idle.phase = "idle" /\ Idle.total = 0
BY DEF Idle, Counter, CounterPhase

\* So is a scheduled one.
LEMMA ScheduledIsCounter ==
    \A t \in Int : Scheduled(t) \in Counter /\ Scheduled(t).phase = "scheduled"
BY IdleIsCounter DEF Scheduled, Counter, CounterPhase

\* Sets of visitors are finite, and their cardinalities go with inclusion.
LEMMA VisitorSets ==
    ASSUME NEW S \in SUBSET Visitors
    PROVE  /\ IsFiniteSet(S) /\ Cardinality(S) \in Nat
           /\ \A T \in SUBSET S : Cardinality(T) \in Nat /\ Cardinality(T) <= Cardinality(S)
<1>1. IsFiniteSet(Visitors) BY AudienceAssumption, FS_Interval DEF Visitors
<1>2. IsFiniteSet(S) BY <1>1, FS_Subset
<1>3. Cardinality(S) \in Nat BY <1>2, FS_CardinalityType
<1>4. ASSUME NEW T \in SUBSET S PROVE Cardinality(T) \in Nat /\ Cardinality(T) <= Cardinality(S)
  BY <1>2, FS_Subset, FS_CardinalityType
<1> QED BY <1>2, <1>3, <1>4

\* A page that is not empty has a last row: the one all others come before.
LEMMA PageHasLast ==
    ASSUME AudienceHasShape, NEW page \in SUBSET Visitors, page # {}
    PROVE  \E v \in page : \A w \in page : w = v \/ Before(w, v)
<1> DEFINE Ends(T, v) == v \in T /\ \A w \in T : w = v \/ Before(w, v)
           F == {T \in SUBSET page : T = {} \/ \E v \in T : Ends(T, v)}
<1>1. IsFiniteSet(page) BY VisitorSets
<1>2. \A v \in Visitors : v \in Int /\ visits[v] \in Int
  BY AudienceAssumption DEF AudienceHasShape, Visitors
<1>3. {} \in F OBVIOUS
<1>4. ASSUME NEW T \in F, NEW x \in page \ T PROVE T \cup {x} \in F
  <2>1. CASE T = {}
    <3>1. Ends(T \cup {x}, x) BY <2>1
    <3> QED BY <3>1
  <2>2. CASE T # {}
    <3>1. PICK v \in T : Ends(T, v) BY <2>2
    <3>2. \A w \in T : w \in Visitors OBVIOUS
    <3>3. CASE Before(v, x)
      <4>1. \A w \in T : Before(w, x) BY <3>1, <3>2, <3>3, <1>2 DEF Before
      <4>2. Ends(T \cup {x}, x) BY <4>1
      <4> QED BY <4>2
    <3>4. CASE ~Before(v, x)
      <4>1. Before(x, v) BY <3>1, <3>2, <3>4, <1>2 DEF Before
      <4>2. Ends(T \cup {x}, v) BY <4>1, <3>1
      <4> QED BY <4>2
    <3> QED BY <3>3, <3>4
  <2> QED BY <2>1, <2>2
<1>5. F \in SUBSET SUBSET page OBVIOUS
<1> HIDE DEF F
<1>6. page \in F BY <1>1, <1>3, <1>4, <1>5, SubsetInduction
<1> QED BY <1>6 DEF F

\* No count grows out of bounds while rows go, recounts move to their other phases and
\* nobody comes.
LEMMA CountsStayApart ==
    ASSUME AudienceHasShape, AudienceHasShape', CountsAreApart, moved => moved',
           came \subseteq came', moved' \/ shown' <= Cardinality(came'),
           \A j \in Counters :
              \/ counters'[j].phase \in {"idle", "scheduled"}
              \/ moved'
              \/ /\ counters'[j] = counters[j]
                 /\ counters[j].phase = "reading" => Remaining(j)' \subseteq Remaining(j)
              \/ /\ counters'[j].phase = "reading"
                 /\ counters'[j].total + Cardinality(Remaining(j)') <= Cardinality(came')
              \/ /\ counters'[j].phase = "storing"
                 /\ counters'[j].total <= Cardinality(came')
    PROVE  CountsAreApart'
<1> SUFFICES ASSUME ~moved', ~moved PROVE CountsAreApart' BY DEF CountsAreApart
<1>1. /\ Cardinality(came) \in Nat /\ Cardinality(came') \in Nat
      /\ Cardinality(came) <= Cardinality(came')
  BY VisitorSets DEF AudienceHasShape
<1>2. \A j \in Counters : /\ counters[j].total \in Nat /\ counters'[j].total \in Nat
                          /\ Remaining(j) \subseteq Visitors /\ Remaining(j)' \subseteq Visitors
  BY DEF AudienceHasShape, Counter, Remaining, Visitors
<1>3. ASSUME NEW j \in Counters
      PROVE  /\ counters'[j].phase = "reading" =>
                   counters'[j].total + Cardinality(Remaining(j)') <= Cardinality(came')
             /\ counters'[j].phase = "storing" => counters'[j].total <= Cardinality(came')
  <2>1. CASE /\ counters'[j] = counters[j]
             /\ counters[j].phase = "reading" => Remaining(j)' \subseteq Remaining(j)
    <3>1. CASE counters[j].phase = "reading"
      <4>1. /\ Cardinality(Remaining(j)') \in Nat /\ Cardinality(Remaining(j)) \in Nat
            /\ Cardinality(Remaining(j)') <= Cardinality(Remaining(j))
        BY <2>1, <3>1, <1>2, VisitorSets
      <4>2. counters[j].total + Cardinality(Remaining(j)) <= Cardinality(came)
        BY <3>1 DEF CountsAreApart
      <4> QED BY <2>1, <3>1, <4>1, <4>2, <1>1, <1>2
    <3>2. CASE counters[j].phase = "storing" BY <2>1, <3>2, <1>1, <1>2 DEF CountsAreApart
    <3> QED BY <2>1, <3>1, <3>2
  <2> QED BY <2>1
<1> QED BY <1>3 DEF CountsAreApart, Remaining

\* A heartbeat starts a recount only if none is known.
LEMMA StepVisit ==
    ASSUME AudienceInv, NEW v \in Visitors, Visit(v) PROVE AudienceInv'
<1> USE DEF statsVars
<1>1. AudienceHasShape /\ clock \in Nat /\ v \in came'
  BY DEF AudienceInv, AudienceHasShape, Visit
<1>2. /\ UNCHANGED <<clock, onAir, backlog, died>> /\ came' = came \cup {v}
      /\ moved' = (moved \/ \E j \in Active : counters[j].phase = "reading")
  BY DEF Visit
<1>3. /\ visits' \in [Visitors -> -1..clock]
      /\ \A w \in Visitors : visits'[w] # Gone => w \in came'
  <2>1. visits' = [visits EXCEPT ![v] = clock] \/ visits' = visits BY DEF Visit
  <2> QED BY <2>1, <1>1, <1>2 DEF AudienceHasShape
<1>4. Cardinality(came') \in Nat /\ Cardinality(came') >= 1 /\ Cardinality(came) <= Cardinality(came')
      /\ Cardinality(came) \in Nat
  <2>1. came' \subseteq Visitors /\ came \subseteq came' /\ {v} \subseteq came'
    BY <1>1, <1>2 DEF AudienceHasShape
  <2>2. Cardinality({v}) = 1 BY FS_Singleton
  <2> QED BY <2>1, <2>2, VisitorSets
<1>5. CASE counting
  <2>1. UNCHANGED <<counters, shown, counting>> BY <1>5 DEF Visit, StartsCounting
  <2>2. AudienceHasShape' BY <2>1, <1>1, <1>2, <1>3 DEF AudienceHasShape
  <2>3. CountingHasJob' BY <2>1, <1>2 DEF AudienceInv, CountingHasJob, Active
  <2>4. RowKnowsCounter' BY <2>1, <1>2 DEF AudienceInv, RowKnowsCounter, Active
  <2>5. moved' \/ \A j \in Counters : counters[j].phase # "reading" BY <1>2 DEF Active
  <2>6. CountsAreApart'
    <3>1. moved' \/ shown' <= Cardinality(came')
      BY <2>1, <1>1, <1>2, <1>4 DEF AudienceInv, CountsAreApart, AudienceHasShape, NoStats
    <3> QED BY <2>1, <2>2, <2>5, <3>1, <1>1, <1>2, CountsStayApart DEF AudienceInv
  <2> QED BY <2>2, <2>3, <2>4, <2>6 DEF AudienceInv
<1>6. CASE ~counting
  <2>1. PICK k \in Counters \ Active :
          /\ counters' = [counters EXCEPT ![k] = Scheduled(clock)]
          /\ counting' = TRUE
          /\ shown' = IF shown = NoStats THEN 1 ELSE shown
    BY <1>6 DEF Visit, StartsCounting
  <2>2. Scheduled(clock) \in Counter /\ Scheduled(clock).phase = "scheduled"
    BY <1>1, ScheduledIsCounter
  <2>3. counters'[k].phase = "scheduled" /\ \A j \in Counters : j # k => counters'[j] = counters[j]
    BY <2>1, <2>2, <1>1 DEF AudienceHasShape
  <2>4. AudienceHasShape' BY <2>1, <2>2, <1>1, <1>2, <1>3 DEF AudienceHasShape
  <2>5. k \in Active' /\ Active' = Active \cup {k} BY <2>1, <2>3 DEF Active
  <2>6. CountingHasJob' BY <2>5 DEF CountingHasJob
  <2>7. RowKnowsCounter' BY <2>1, <2>5, <1>2, <1>6 DEF AudienceInv, RowKnowsCounter
  <2>8. moved' \/ \A j \in Counters : counters[j].phase # "reading" BY <1>2 DEF Active
  <2>9. CountsAreApart'
    <3>1. moved' \/ shown' <= Cardinality(came')
      BY <2>1, <1>1, <1>2, <1>4 DEF AudienceInv, CountsAreApart, AudienceHasShape, NoStats
    <3>2. \A j \in Counters : counters'[j].phase \in {"idle", "scheduled"} \/ moved'
              \/ (counters'[j] = counters[j] /\ counters[j].phase # "reading")
      BY <2>3, <2>8
    <3> QED BY <2>4, <3>1, <3>2, <1>1, <1>2, CountsStayApart DEF AudienceInv
  <2> QED BY <2>4, <2>6, <2>7, <2>9 DEF AudienceInv
<1> QED BY <1>1, <1>5, <1>6 DEF AudienceHasShape

\* A recount begins with nothing counted and every recent row before it.
LEMMA StepStartCount ==
    ASSUME AudienceInv, NEW j \in Counters, StartCount(j) PROVE AudienceInv'
<1> USE DEF statsVars
<1> DEFINE begun == [Idle EXCEPT !.phase = "reading", !.at = clock - VisitorTTL,
                                 !.after = <<clock - VisitorTTL, NumVisitors>>]
<1>1. /\ AudienceHasShape /\ counters[j].phase = "scheduled"
      /\ counters' = [counters EXCEPT ![j] = begun]
      /\ UNCHANGED <<clock, onAir, visits, shown, counting, came, moved, backlog, died>>
  BY DEF AudienceInv, StartCount
<1>2. begun \in Counter /\ begun.phase = "reading" /\ begun.total = 0
  <2>1. clock - VisitorTTL \in Int /\ <<clock - VisitorTTL, NumVisitors>> \in Int \X Int
    BY <1>1, AudienceAssumption DEF AudienceHasShape
  <2>2. "reading" \in CounterPhase BY DEF CounterPhase
  <2> QED BY <2>1, <2>2, IdleIsCounter DEF Counter
<1> HIDE DEF begun
<1>3. counters'[j] = begun /\ \A i \in Counters : i # j => counters'[i] = counters[i]
  BY <1>1 DEF AudienceHasShape
<1>4. AudienceHasShape' BY <1>1, <1>2 DEF AudienceHasShape
<1>5. Active' = Active BY <1>1, <1>2, <1>3 DEF Active
<1>6. CountingHasJob' BY <1>1, <1>5 DEF AudienceInv, CountingHasJob
<1>7. RowKnowsCounter' BY <1>1, <1>5 DEF AudienceInv, RowKnowsCounter
<1>8. Remaining(j)' \subseteq came' BY <1>1, <1>4 DEF Remaining, Past, AudienceHasShape
<1>9. 0 + Cardinality(Remaining(j)') <= Cardinality(came')
  BY <1>4, <1>8, VisitorSets DEF AudienceHasShape
<1>10. \A i \in Counters : i # j => Remaining(i)' = Remaining(i)
  BY <1>1, <1>3 DEF Remaining, Past
<1>11. CountsAreApart'
  <2>1. moved' \/ shown' <= Cardinality(came') BY <1>1 DEF AudienceInv, CountsAreApart
  <2> QED BY <2>1, <1>1, <1>2, <1>3, <1>4, <1>9, <1>10, CountsStayApart DEF AudienceInv
<1> QED BY <1>4, <1>6, <1>7, <1>11 DEF AudienceInv

\* A page is counted and the cursor passes it.
LEMMA StepCountNextPage ==
    ASSUME AudienceInv, NEW j \in Counters, CountNextPage(j) PROVE AudienceInv'
<1> USE DEF statsVars
<1> DEFINE page == FirstOf({v \in Visitors : Past(v, counters[j].after)}, CountPage)
           last == CHOOSE v \in page : \A w \in page : w = v \/ Before(w, v)
           next == [counters[j] EXCEPT
                      !.total = counters[j].total + Cardinality(page),
                      !.after = IF page = {} THEN counters[j].after ELSE <<visits[last], last>>,
                      !.phase = IF Cardinality(page) < CountPage THEN "storing"
                                ELSE counters[j].phase]
<1>1. /\ AudienceHasShape /\ counters[j].phase = "reading" /\ counters[j] \in Counter
      /\ UNCHANGED <<clock, onAir, visits, shown, counting, came, moved, backlog, died>>
  BY DEF AudienceInv, CountNextPage, AudienceHasShape
<1>2. counters' = [counters EXCEPT ![j] = next]
  <2>1. counters' = [counters EXCEPT ![j].total = @ + Cardinality(page),
                                     ![j].after = IF page = {} THEN @ ELSE <<visits[last], last>>,
                                     ![j].phase = IF Cardinality(page) < CountPage
                                                  THEN "storing" ELSE @]
    BY DEF CountNextPage
  <2> HIDE DEF page, last
  <2> QED BY <2>1, <1>1 DEF AudienceHasShape, Counter
<1>3. page \subseteq Remaining(j) /\ page \subseteq Visitors /\ Remaining(j) \subseteq Visitors
  BY DEF FirstOf, Remaining
<1> HIDE DEF page
<1>4. page # {} => last \in page /\ \A w \in page : w = last \/ Before(w, last)
  BY <1>1, <1>3, PageHasLast
<1> HIDE DEF last
<1>5. \A v \in Visitors : v \in Int /\ visits[v] \in Int
  BY <1>1, AudienceAssumption DEF AudienceHasShape, Visitors
<1>6. Cardinality(page) \in Nat BY <1>3, VisitorSets
<1>7. /\ next \in Counter /\ next.phase \in {"reading", "storing"}
      /\ next.total = counters[j].total + Cardinality(page)
      /\ next.after = IF page = {} THEN counters[j].after ELSE <<visits[last], last>>
  <2> DEFINE n == counters[j].total + Cardinality(page)
             a == IF page = {} THEN counters[j].after ELSE <<visits[last], last>>
             p == IF Cardinality(page) < CountPage THEN "storing" ELSE counters[j].phase
  <2>1. n \in Nat BY <1>1, <1>6 DEF Counter
  <2>2. a \in Int \X Int
    <3>1. CASE page = {} BY <3>1, <1>1 DEF Counter
    <3>2. CASE page # {} BY <3>2, <1>3, <1>4, <1>5
    <3> QED BY <3>1, <3>2
  <2>3. p \in CounterPhase /\ p \in {"reading", "storing"} BY <1>1 DEF CounterPhase
  <2> HIDE DEF n, a, p
  <2>4. next = [counters[j] EXCEPT !.total = n, !.after = a, !.phase = p] BY DEF n, a, p
  <2>5. next \in Counter /\ next.phase = p /\ next.total = n /\ next.after = a
    BY <2>1, <2>2, <2>3, <2>4, <1>1 DEF Counter
  <2> QED BY <2>3, <2>5 DEF n, a
<1> HIDE DEF next
<1>8. counters'[j] = next /\ \A i \in Counters : i # j => counters'[i] = counters[i]
  BY <1>1, <1>2 DEF AudienceHasShape
<1>9. AudienceHasShape' BY <1>1, <1>2, <1>7 DEF AudienceHasShape
<1>10. Active' = Active BY <1>1, <1>7, <1>8 DEF Active
<1>11. CountingHasJob' BY <1>1, <1>10 DEF AudienceInv, CountingHasJob
<1>12. RowKnowsCounter' BY <1>1, <1>10 DEF AudienceInv, RowKnowsCounter
<1>13. Remaining(j)' \subseteq Remaining(j) \ page
  <2>1. Remaining(j)' = {v \in Visitors : Past(v, next.after)}
    BY <1>1, <1>8 DEF Remaining, Past
  <2>2. CASE page = {} BY <2>1, <2>2, <1>7 DEF Remaining
  <2>3. CASE page # {}
    <3>1. next.after[1] = visits[last] /\ next.after[2] = last BY <2>3, <1>7
    <3>2. counters[j].after[1] \in Int /\ counters[j].after[2] \in Int BY <1>1 DEF Counter
    <3>3. last \in Visitors /\ Past(last, counters[j].after) BY <2>3, <1>3, <1>4 DEF Remaining
    <3>4. ASSUME NEW v \in Visitors, Past(v, next.after)
          PROVE  Past(v, counters[j].after) /\ v \notin page
      <4>1. visits[v] # Gone /\ (visits[v] > visits[last] \/ (visits[v] = visits[last] /\ v > last))
        BY <3>1, <3>4 DEF Past
      <4>2. Past(v, counters[j].after) BY <4>1, <3>2, <3>3, <1>5 DEF Past
      <4>3. v \notin page BY <4>1, <2>3, <3>3, <1>4, <1>5 DEF Before
      <4> QED BY <4>2, <4>3
    <3> QED BY <3>4, <2>1 DEF Remaining
  <2> QED BY <2>2, <2>3
<1>14. Cardinality(Remaining(j)') + Cardinality(page) <= Cardinality(Remaining(j))
  <2>1. Cardinality(Remaining(j) \ page) = Cardinality(Remaining(j)) - Cardinality(page)
    <3>1. IsFiniteSet(Remaining(j)) BY <1>3, VisitorSets
    <3>2. Remaining(j) \cap page = page BY <1>3
    <3> QED BY <3>1, <3>2, FS_Difference
  <2>2. /\ Cardinality(Remaining(j)') \in Nat
        /\ Cardinality(Remaining(j)') <= Cardinality(Remaining(j) \ page)
        /\ Cardinality(Remaining(j)) \in Nat
    BY <1>3, <1>13, VisitorSets
  <2> QED BY <2>1, <2>2, <1>6
<1>15. \A i \in Counters : i # j => Remaining(i)' = Remaining(i)
  BY <1>1, <1>8 DEF Remaining, Past
<1>16. moved \/ next.total + Cardinality(Remaining(j)') <= Cardinality(came)
  <2>1. moved \/ counters[j].total + Cardinality(Remaining(j)) <= Cardinality(came)
    BY <1>1 DEF AudienceInv, CountsAreApart
  <2>2. /\ counters[j].total \in Nat /\ Cardinality(Remaining(j)) \in Nat
        /\ Cardinality(Remaining(j)') \in Nat /\ Cardinality(came) \in Nat
    BY <1>1, <1>3, <1>13, VisitorSets DEF Counter, AudienceHasShape
  <2> QED BY <2>1, <2>2, <1>6, <1>7, <1>14
<1>17. CountsAreApart'
  <2>1. moved' \/ shown' <= Cardinality(came') BY <1>1 DEF AudienceInv, CountsAreApart
  <2>2. moved' \/ next.total <= Cardinality(came')
    <3>1. /\ next.total \in Nat /\ Cardinality(Remaining(j)') \in Nat
          /\ Cardinality(came) \in Nat
      BY <1>1, <1>3, <1>7, <1>13, VisitorSets DEF Counter, AudienceHasShape
    <3> QED BY <3>1, <1>1, <1>16
  <2> QED BY <2>1, <2>2, <1>1, <1>7, <1>8, <1>9, <1>15, <1>16, CountsStayApart DEF AudienceInv
<1> QED BY <1>9, <1>11, <1>12, <1>17 DEF AudienceInv

\* The count is stored, expired rows go, and the recount comes back or ends.
LEMMA StepStoreCount ==
    ASSUME AudienceInv, NEW j \in Counters, StoreCount(j) PROVE AudienceInv'
<1> USE DEF statsVars
<1> DEFINE seen == counters[j].total
           goesOn == onAir /\ seen > 0
           swept == FirstOf(Expired(counters[j].at), CountPage)
           full == Cardinality(swept) = CountPage
           next == Again(goesOn, full)
<1>1. /\ AudienceHasShape /\ counters[j].phase = "storing" /\ seen \in Nat
      /\ shown' = Stored(seen) /\ counting' = goesOn
      /\ visits' = [v \in Visitors |-> IF v \in swept THEN Gone ELSE visits[v]]
      /\ counters' = [counters EXCEPT ![j] = next]
      /\ backlog' = (backlog \/ (full /\ ~goesOn))
      /\ UNCHANGED <<clock, onAir, came, moved, died>>
  BY DEF AudienceInv, StoreCount, AudienceHasShape, Counter
<1> HIDE DEF swept
<1>2. /\ next \in Counter /\ next.phase \in {"idle", "scheduled"}
      /\ goesOn => next.phase = "scheduled"
      /\ next.phase = "scheduled" => goesOn \/ full
  <2>1. \A t \in Int : Scheduled(t) \in Counter /\ Scheduled(t).phase = "scheduled"
    BY ScheduledIsCounter
  <2>2. clock \in Int /\ clock + CountInterval \in Int
    BY <1>1, AudienceAssumption DEF AudienceHasShape
  <2> QED BY <2>1, <2>2, IdleIsCounter DEF Again
<1> HIDE DEF next, full
<1>3. counters'[j] = next /\ \A i \in Counters : i # j => counters'[i] = counters[i]
  BY <1>1 DEF AudienceHasShape
<1>4. AudienceHasShape'
  <2>1. shown' \in Nat \cup {NoStats} /\ counting' \in BOOLEAN
    BY <1>1 DEF Stored, AudienceHasShape
  <2>2. visits' \in [Visitors -> -1..clock] /\ \A v \in Visitors : visits'[v] # Gone => v \in came
    BY <1>1 DEF AudienceHasShape, Gone
  <2>3. counters' \in [Counters -> Counter] BY <1>1, <1>2 DEF AudienceHasShape
  <2>4. backlog' \in BOOLEAN BY <1>1 DEF AudienceHasShape
  <2> QED BY <2>1, <2>2, <2>3, <2>4, <1>1 DEF AudienceHasShape
<1>5. /\ j \in Active /\ Active' \subseteq Active
      /\ goesOn => j \in Active'
      /\ j \in Active' => goesOn \/ full
  BY <1>1, <1>2, <1>3 DEF Active
<1>6. CountingHasJob' BY <1>1, <1>5 DEF CountingHasJob
<1>7. RowKnowsCounter' BY <1>1, <1>5 DEF AudienceInv, RowKnowsCounter
<1>8. \A i \in Counters : i # j => Remaining(i)' \subseteq Remaining(i)
  BY <1>1, <1>3 DEF Remaining, Past
<1>9. CountsAreApart'
  <2>1. Cardinality(came) \in Nat BY <1>1, VisitorSets DEF AudienceHasShape
  <2>2. moved' \/ shown' <= Cardinality(came')
    BY <2>1, <1>1 DEF AudienceInv, CountsAreApart, Stored, NoStats
  <2> QED BY <2>2, <1>1, <1>2, <1>3, <1>4, <1>8, CountsStayApart DEF AudienceInv
<1> QED BY <1>4, <1>6, <1>7, <1>9 DEF AudienceInv

\* A recount that dies leaves its mark.
LEMMA StepCounterDies ==
    ASSUME AudienceInv, NEW j \in Counters, CounterDies(j) PROVE AudienceInv'
<1> USE DEF statsVars
<1>1. /\ AudienceHasShape /\ counters' = [counters EXCEPT ![j] = Idle] /\ died' = TRUE
      /\ UNCHANGED <<clock, onAir, visits, shown, counting, came, moved, backlog>>
  BY DEF AudienceInv, CounterDies
<1>2. Idle \in Counter /\ Idle.phase = "idle" BY IdleIsCounter
<1>3. counters'[j] = Idle /\ \A i \in Counters : i # j => counters'[i] = counters[i]
  BY <1>1 DEF AudienceHasShape
<1>4. AudienceHasShape' BY <1>1, <1>2 DEF AudienceHasShape
<1>5. CountingHasJob' /\ RowKnowsCounter' BY <1>1 DEF CountingHasJob, RowKnowsCounter
<1>6. \A i \in Counters : i # j => Remaining(i)' = Remaining(i)
  BY <1>1, <1>3 DEF Remaining, Past
<1>7. CountsAreApart'
  <2>1. moved' \/ shown' <= Cardinality(came') BY <1>1 DEF AudienceInv, CountsAreApart
  <2> QED BY <2>1, <1>1, <1>2, <1>3, <1>4, <1>6, CountsStayApart DEF AudienceInv
<1> QED BY <1>4, <1>5, <1>7 DEF AudienceInv

\* Time, the end of the show and stuttering change no row.
LEMMA AudienceSame ==
    ASSUME AudienceInv, clock' \in {clock, clock + 1}, onAir' \in BOOLEAN,
           UNCHANGED <<visits, statsVars, counters, came, moved, backlog, died>>
    PROVE  AudienceInv'
<1> USE DEF statsVars
<1>1. AudienceHasShape'
  <2>1. clock \in Nat /\ visits \in [Visitors -> -1..clock] BY DEF AudienceInv, AudienceHasShape
  <2>2. clock' \in Nat /\ visits' \in [Visitors -> -1..clock'] BY <2>1
  <2> QED BY <2>2 DEF AudienceInv, AudienceHasShape
<1>2. CountingHasJob' BY DEF AudienceInv, CountingHasJob, Active
<1>3. RowKnowsCounter' BY DEF AudienceInv, RowKnowsCounter, Active
<1>4. \A j \in Counters : Remaining(j)' = Remaining(j) BY DEF Remaining, Past
<1>5. CountsAreApart'
  <2>1. moved' \/ shown' <= Cardinality(came') BY DEF AudienceInv, CountsAreApart
  <2> QED BY <2>1, <1>1, <1>4, CountsStayApart DEF AudienceInv
<1> QED BY <1>1, <1>2, <1>3, <1>5 DEF AudienceInv

\* For any visitors, page, intervals and number of recounts: the row says that somebody
\* counts only while somebody does, recounts do not multiply, and the number shown is no
\* larger than that of the people who came, but for the cases the properties name
\* (heartbeat, countVisitors, countPage, storeCount).
THEOREM AudienceSafe == AudienceSpec => []CountIsSound
<1>1. AudienceInit => AudienceInv
  <2> SUFFICES ASSUME AudienceInit PROVE AudienceInv OBVIOUS
  <2> USE DEF AudienceInit
  <2>1. counters \in [Counters -> Counter] BY IdleIsCounter
  <2>2. \A j \in Counters : counters[j].phase = "idle" BY IdleIsCounter
  <2>3. AudienceHasShape
    <3>1. visits \in [Visitors -> -1..clock] /\ \A v \in Visitors : visits[v] = Gone BY DEF Gone
    <3>2. /\ shown \in Nat \cup {NoStats} /\ clock \in Nat /\ onAir \in BOOLEAN
          /\ counting \in BOOLEAN /\ came \subseteq Visitors
      OBVIOUS
    <3>3. moved \in BOOLEAN /\ backlog \in BOOLEAN /\ died \in BOOLEAN OBVIOUS
    <3> QED BY <2>1, <3>1, <3>2, <3>3 DEF AudienceHasShape
  <2>4. CountingHasJob BY DEF CountingHasJob
  <2>5. Active = {} BY <2>2 DEF Active
  <2>6. RowKnowsCounter BY <2>5 DEF RowKnowsCounter
  <2>7. Cardinality(came) = 0 BY FS_EmptySet
  <2>8. CountsAreApart BY <2>2, <2>7 DEF CountsAreApart, NoStats
  <2> QED BY <2>3, <2>4, <2>6, <2>8 DEF AudienceInv
<1>2. AudienceInv /\ [AudienceNext]_audienceVars => AudienceInv'
  <2> SUFFICES ASSUME AudienceInv, [AudienceNext]_audienceVars PROVE AudienceInv' OBVIOUS
  <2>1. CASE GoOffAir BY <2>1, AudienceSame DEF GoOffAir
  <2>2. CASE TimePasses
    BY <2>2, AudienceSame DEF TimePasses, AudienceInv, AudienceHasShape
  <2>3. CASE UNCHANGED audienceVars
    BY <2>3, AudienceSame DEF audienceVars, AudienceInv, AudienceHasShape
  <2>4. CASE \E v \in Visitors : Visit(v) BY <2>4, StepVisit
  <2>5. CASE \E j \in Counters : StartCount(j) BY <2>5, StepStartCount
  <2>6. CASE \E j \in Counters : CountNextPage(j) BY <2>6, StepCountNextPage
  <2>7. CASE \E j \in Counters : StoreCount(j) BY <2>7, StepStoreCount
  <2>8. CASE \E j \in Counters : CounterDies(j) BY <2>8, StepCounterDies
  <2> QED BY <2>1, <2>2, <2>3, <2>4, <2>5, <2>6, <2>7, <2>8 DEF AudienceNext
<1>3. AudienceInv => CountIsSound
  <2> SUFFICES ASSUME AudienceInv PROVE CountIsSound OBVIOUS
  <2>1. AudienceTypeOK BY DEF AudienceInv, AudienceHasShape, AudienceTypeOK, Counter
  <2>2. OneCounter
    <3> SUFFICES ASSUME ~backlog, ~died PROVE Cardinality(Active) <= 1 BY DEF OneCounter
    <3>1. \A i, j \in Active : i = j BY DEF AudienceInv, RowKnowsCounter
    <3>2. CASE Active = {} BY <3>2, FS_EmptySet
    <3>3. CASE Active # {}
      <4>1. PICK i \in Active : TRUE BY <3>3
      <4>2. Active = {i} BY <3>1, <4>1
      <4>3. Cardinality({i}) = 1 BY FS_Singleton
      <4> QED BY <4>2, <4>3
    <3> QED BY <3>2, <3>3
  <2>3. CountedOnce BY DEF AudienceInv, CountsAreApart, CountedOnce
  <2> QED BY <2>1, <2>2, <2>3 DEF AudienceInv, CountIsSound
<1> QED BY <1>1, <1>2, <1>3, PTL DEF AudienceSpec
=============================================================================
