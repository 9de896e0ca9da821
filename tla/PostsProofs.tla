-------------------------------- MODULE PostsProofs --------------------------------
(***************************************************************************)
(* The post with its requests, for every set of requests, users, marks and *)
(* prices: a price set by hand while automatic pricing is off stays, and   *)
(* the answers about the flag are as fresh in this composition as they are *)
(* of FeatureFlags alone; the counts of marks and comments are no further  *)
(* from them than requests overlapped, and a price once computed stays.    *)
(***************************************************************************)
EXTENDS Posts, FiniteSetTheorems, TLAPS

---------------------------------------------------------------------------
(* FeatureFlags, for every Ttl, any number of callers and any time: an     *)
(* answer of isEnabled is never older than the Ttl.  The invariant follows *)
(* a value from the row to the loads that have read it, and from those to  *)
(* the cache: each holds a value that the row had since the time from      *)
(* which its expiry is counted.                                            *)

\* The row has had its value up to now, and each other value before.
HeldNow == held[enabled] = clock /\ \A v \in Settings : held[v] <= clock

\* A load has read a value that the row had when it was asked for, or later.
FillFresh ==
  \A c \in Callers : ask[c].at = "fill" => held[ask[c].value] >= ask[c].since

\* What the cache serves until it expires, the row had at most a Ttl before.
CacheFresh == clock < cache.expires => held[cache.value] + Ttl >= cache.expires

\* No question is from the future.
AskedBefore == \A c \in Callers : ask[c].since <= clock

FlagInv == FlagTypeOK /\ HeldNow /\ FillFresh /\ CacheFresh /\ AskedBefore /\ FlagFresh

\* The initial states satisfy the invariant.
LEMMA FlagInitInv == FlagInit => FlagInv
<1>. SUFFICES ASSUME FlagInit PROVE FlagInv
  OBVIOUS
<1>. USE FlagAssumption DEF FlagInit, NoAsk, NoCache, Settings
<1>1. FlagTypeOK
  BY DEF FlagTypeOK
<1>2. HeldNow
  BY DEF HeldNow
<1>3. FillFresh /\ CacheFresh /\ AskedBefore /\ FlagFresh
  BY DEF FillFresh, CacheFresh, AskedBefore, FlagFresh
<1>. QED
  BY <1>1, <1>2, <1>3 DEF FlagInv

\* Neither the time nor the row moves a question or the cache; the values they
\* hold can only have been held until later.
LEMMA HeldGrows ==
  ASSUME FlagInv, FlagTypeOK', clock' >= clock, UNCHANGED <<cache, ask>>,
         \A v \in Settings : held'[v] >= held[v]
  PROVE  FillFresh' /\ CacheFresh' /\ AskedBefore' /\ FlagFresh'
<1>. USE FlagAssumption DEF FlagInv, FlagTypeOK
<1>1. \A c \in Callers : ask'[c] = ask[c] /\ held'[ask[c].value] >= held[ask[c].value]
  OBVIOUS
<1>2. FillFresh' /\ AskedBefore' /\ FlagFresh'
  BY <1>1 DEF FillFresh, AskedBefore, FlagFresh
<1>3. CacheFresh'
  BY DEF CacheFresh
<1>. QED
  BY <1>2, <1>3

\* Time passes, and the value of the row is held until now.
LEMMA TickInv == FlagInv /\ Tick => FlagInv'
<1>. SUFFICES ASSUME FlagInv, Tick PROVE FlagInv'
  OBVIOUS
<1>1. FlagTypeOK' /\ HeldNow'
  BY DEF FlagInv, FlagTypeOK, HeldNow, Tick, Settings
<1>2. clock' >= clock /\ \A v \in Settings : held'[v] >= held[v]
  BY DEF FlagInv, FlagTypeOK, HeldNow, Tick
<1>3. FillFresh' /\ CacheFresh' /\ AskedBefore' /\ FlagFresh'
  BY <1>1, <1>2, HeldGrows DEF Tick
<1>. QED
  BY <1>1, <1>3 DEF FlagInv

\* The row takes another value now; what was read before stays as old as it was.
LEMMA PatchFlagInv == FlagInv /\ PatchFlag => FlagInv'
<1>. SUFFICES ASSUME FlagInv, PatchFlag PROVE FlagInv'
  OBVIOUS
<1>1. enabled' \in Settings /\ patching' = TRUE /\ clock' = clock
      /\ held' = [held EXCEPT ![enabled'] = clock] /\ UNCHANGED <<cache, ask>>
  BY DEF PatchFlag, Settings
<1>2. FlagTypeOK' /\ HeldNow'
  BY <1>1 DEF FlagInv, FlagTypeOK, HeldNow
<1>3. clock' >= clock /\ \A v \in Settings : held'[v] >= held[v]
  BY <1>1 DEF FlagInv, FlagTypeOK, HeldNow
<1>4. FillFresh' /\ CacheFresh' /\ AskedBefore' /\ FlagFresh'
  BY <1>1, <1>2, <1>3, HeldGrows
<1>. QED
  BY <1>2, <1>4 DEF FlagInv

\* An empty cache serves nothing.
LEMMA BumpCacheInv == FlagInv /\ BumpCache => FlagInv'
<1>. SUFFICES ASSUME FlagInv, BumpCache PROVE FlagInv'
  OBVIOUS
<1>. USE DEF FlagInv, FlagTypeOK
<1>1. UNCHANGED <<clock, enabled, held, ask>> /\ cache'.expires = 0 /\ cache'.value \in Settings
  BY DEF BumpCache, NoCache, Settings
<1>2. FlagTypeOK'
  BY DEF BumpCache, NoCache, Settings
<1>3. HeldNow' /\ FillFresh' /\ CacheFresh' /\ AskedBefore' /\ FlagFresh'
  BY <1>1 DEF HeldNow, FillFresh, CacheFresh, AskedBefore, FlagFresh
<1>. QED
  BY <1>2, <1>3

\* An answer from the cache is as fresh as the cache.
LEMMA AskInv == \A c \in Callers : FlagInv /\ Ask(c) => FlagInv'
<1>. SUFFICES ASSUME NEW c \in Callers, FlagInv, Ask(c) PROVE FlagInv'
  OBVIOUS
<1>. USE FlagAssumption DEF FlagInv, FlagTypeOK
<1>1. UNCHANGED <<clock, enabled, held, cache, patching>>
  BY DEF Ask
<1>2. FlagTypeOK'
  BY DEF Ask, Settings
<1>3. \A d \in Callers \ {c} : ask'[d] = ask[d]
  BY DEF Ask
<1>4. ask'[c].since = clock /\ ask'[c].at \in {"told", "query"}
  BY DEF Ask
<1>5. ask'[c].at = "told" => clock < cache.expires /\ ask'[c].value = cache.value
  BY DEF Ask
<1>6. HeldNow' /\ CacheFresh' /\ AskedBefore' /\ FillFresh'
  BY <1>1, <1>3, <1>4 DEF HeldNow, CacheFresh, AskedBefore, FillFresh
<1>7. ask'[c].at = "told" => held'[ask'[c].value] + Ttl > ask'[c].since
  BY <1>1, <1>4, <1>5 DEF CacheFresh
<1>8. FlagFresh'
  BY <1>1, <1>3, <1>7 DEF FlagFresh
<1>. QED
  BY <1>2, <1>6, <1>8

\* What a load reads, the row has now.
LEMMA QueryInv == \A c \in Callers : FlagInv /\ Query(c) => FlagInv'
<1>. SUFFICES ASSUME NEW c \in Callers, FlagInv, Query(c) PROVE FlagInv'
  OBVIOUS
<1>. USE DEF FlagInv, FlagTypeOK
<1>1. UNCHANGED <<clock, enabled, held, cache, patching>>
  BY DEF Query
<1>2. FlagTypeOK'
  BY DEF Query
<1>3. \A d \in Callers \ {c} : ask'[d] = ask[d]
  BY DEF Query
<1>4. ask'[c].at = "fill" /\ ask'[c].since = ask[c].since /\ ask'[c].value = enabled
  BY DEF Query
<1>5. HeldNow' /\ CacheFresh' /\ AskedBefore' /\ FlagFresh'
  BY <1>1, <1>3, <1>4 DEF HeldNow, CacheFresh, AskedBefore, FlagFresh
<1>6. held'[ask'[c].value] >= ask'[c].since
  BY <1>1, <1>4 DEF HeldNow, AskedBefore
<1>7. FillFresh'
  BY <1>1, <1>3, <1>6 DEF FillFresh
<1>. QED
  BY <1>2, <1>5, <1>7

\* What a load leaves in the cache expires a Ttl after a time at which the row
\* still had it.
LEMMA FillInv == \A c \in Callers : FlagInv /\ Fill(c) => FlagInv'
<1>. SUFFICES ASSUME NEW c \in Callers, FlagInv, Fill(c) PROVE FlagInv'
  OBVIOUS
<1>. USE FlagAssumption DEF FlagInv, FlagTypeOK
<1>1. UNCHANGED <<clock, enabled, held, patching>>
  BY DEF Fill
<1>2. FlagTypeOK'
  BY DEF Fill
<1>3. \A d \in Callers \ {c} : ask'[d] = ask[d]
  BY DEF Fill
<1>4. /\ ask'[c].at = "told" /\ ask'[c].since = ask[c].since /\ ask'[c].value = ask[c].value
      /\ cache'.value = ask[c].value /\ cache'.expires = ask[c].since + Ttl
  BY DEF Fill
<1>5. held[ask[c].value] >= ask[c].since
  BY DEF Fill, FillFresh
<1>6. HeldNow' /\ AskedBefore' /\ FillFresh'
  BY <1>1, <1>3, <1>4 DEF HeldNow, AskedBefore, FillFresh
<1>7. CacheFresh'
  BY <1>1, <1>4, <1>5 DEF CacheFresh
<1>8. held'[ask'[c].value] + Ttl > ask'[c].since
  BY <1>1, <1>4, <1>5
<1>9. FlagFresh'
  BY <1>1, <1>3, <1>8 DEF FlagFresh
<1>. QED
  BY <1>2, <1>6, <1>7, <1>9

\* A question that is over says nothing.
LEMMA ForgetInv == \A c \in Callers : FlagInv /\ Forget(c) => FlagInv'
<1>. SUFFICES ASSUME NEW c \in Callers, FlagInv, Forget(c) PROVE FlagInv'
  OBVIOUS
<1>. USE DEF FlagInv, FlagTypeOK
<1>1. UNCHANGED <<clock, enabled, held, cache, patching>>
  BY DEF Forget
<1>2. FlagTypeOK'
  BY DEF Forget, NoAsk, Settings
<1>3. \A d \in Callers \ {c} : ask'[d] = ask[d]
  BY DEF Forget
<1>4. ask'[c].at = "idle" /\ ask'[c].since = 0
  BY DEF Forget, NoAsk
<1>5. HeldNow' /\ CacheFresh' /\ AskedBefore' /\ FillFresh' /\ FlagFresh'
  BY <1>1, <1>3, <1>4 DEF HeldNow, CacheFresh, AskedBefore, FillFresh, FlagFresh
<1>. QED
  BY <1>2, <1>5

\* No step leaves the invariant.
LEMMA FlagNextInv == FlagInv /\ [FlagNext]_flagVars => FlagInv'
<1>. SUFFICES ASSUME FlagInv, [FlagNext]_flagVars PROVE FlagInv'
  OBVIOUS
<1>1. CASE Tick
  BY <1>1, TickInv
<1>2. CASE PatchFlag
  BY <1>2, PatchFlagInv
<1>3. CASE BumpCache
  BY <1>3, BumpCacheInv
<1>4. CASE \E c \in Callers : Ask(c) \/ Query(c) \/ Fill(c) \/ Forget(c)
  BY <1>4, AskInv, QueryInv, FillInv, ForgetInv
<1>5. CASE UNCHANGED flagVars
  BY <1>5 DEF flagVars, FlagInv, FlagTypeOK, HeldNow, FillFresh, CacheFresh, AskedBefore,
              FlagFresh
<1>. QED
  BY <1>1, <1>2, <1>3, <1>4, <1>5 DEF FlagNext

\* isEnabled never returns a value the row gave up a Ttl or more before it was
\* asked, for every Ttl and any number of overlapping loads and switches.
THEOREM FlagIsFresh == FlagSpec => []FlagFresh
<1>1. FlagInv => FlagFresh
  BY DEF FlagInv
<1>. QED
  BY FlagInitInv, FlagNextInv, <1>1, PTL DEF FlagSpec

---------------------------------------------------------------------------
(* The posts: their requests are the callers.                              *)

USE DEF Requests

\* The requests leave the flag alone, or take a step of FeatureFlags.
LEMMA StepOfFlag == [Next]_vars => [FlagNext]_flagVars
<1>. SUFFICES ASSUME [Next]_vars PROVE [FlagNext]_flagVars
  OBVIOUS
<1>1. CASE FlagStep \/ SwitchFlag
  BY <1>1 DEF FlagStep, SwitchFlag, FlagNext
<1>2. ASSUME NEW r \in Requests, RepriceAllowed(r) \/ SyncFlag(r) \/ Fail(r)
      PROVE  FlagNext
  BY <1>2 DEF RepriceAllowed, SyncFlag, Fail, FlagNext
<1>3. ASSUME NEW r \in Requests, NEW monetized \in BOOLEAN, NEW video \in BOOLEAN,
             CreatePost(r, monetized, video)
      PROVE  UNCHANGED flagVars
  BY <1>3 DEF CreatePost
<1>4. ASSUME NEW r \in Requests,
             UpdatePost(r) \/ MarkFile(r) \/ Reprice(r) \/ CheckMark(r) \/ UpdateMark(r)
             \/ Comment(r) \/ FindParentPost(r) \/ IncrementParentPostCommentCount(r)
             \/ Sync(r) \/ Aggregate(r) \/ WritePrice(r)
      PROVE  UNCHANGED flagVars
  BY <1>4 DEF UpdatePost, MarkFile, Reprice, CheckMark, UpdateMark, Comment, FindParentPost,
              IncrementParentPostCommentCount, Sync, Aggregate, WritePrice
<1>5. ASSUME NEW r \in Requests, NEW u \in Users, NEW k \in Marks,
             NEW on \in {"on", "off", "toggle"}, MarkPost(r, u, k, on)
      PROVE  UNCHANGED flagVars
  BY <1>5 DEF MarkPost
<1>6. CASE \/ FileMoves \/ DeleteComment \/ DeletePost
           \/ \E price \in AdminPrices : AdminPatchPrice(price)
  BY <1>6 DEF FileMoves, DeleteComment, DeletePost, AdminPatchPrice
<1>7. CASE UNCHANGED vars
  BY <1>7 DEF vars
<1>. QED
  BY <1>1, <1>2, <1>3, <1>4, <1>5, <1>6, <1>7 DEF Next

\* In the composition, too, no answer about the flag is older than the Ttl.
THEOREM PostsFlagIsFresh == Spec => []FlagFresh
<1>1. Init => FlagInit
  BY DEF Init
<1>2. Spec => FlagSpec
  BY <1>1, StepOfFlag, PTL DEF Spec, FlagSpec
<1>. QED
  BY <1>2, FlagIsFresh, PTL

---------------------------------------------------------------------------
\* What a request has learnt by the time it uses it: who marks what, and a count
\* of comments.
RequestsKnow ==
  \A r \in Requests :
    /\ req[r].at \in {"check", "update"} => req[r].user \in Users /\ req[r].mark \in Marks
    /\ req[r].at = "comment" => req[r].count \in Nat

PostsTyped == TypeOK /\ RequestsKnow

\* The initial states are typed.
LEMMA PostsInitTyped == Init => PostsTyped
<1>. SUFFICES ASSUME Init PROVE PostsTyped
  OBVIOUS
<1>1. FlagTypeOK
  BY FlagInitInv DEF Init, FlagInv
<1>2. Idle \in RequestRecords
  BY DEF Idle, RequestRecords
<1>3. req \in [Requests -> RequestRecords]
  BY <1>2 DEF Init
<1>4. count \in [Marks -> Int] /\ marked \in [Marks -> SUBSET Users]
  BY DEF Init
<1>5. post \in PostRecords
  BY DEF Init, PostRecords
<1>6. file \in FileRecords
  BY DEF Init, FileRecords
<1>7. TypeOK
  <2>1. /\ comments \in Nat /\ commentCount \in Nat /\ removed \in Nat
        /\ begun \in 0..MaxRequests /\ overlaps \in [Marks -> Nat] /\ override \in AdminPrices \cup {None}
    BY PostAssumption DEF Init
  <2>2. solid \in BOOLEAN
    BY DEF Init
  <2>. QED
    BY <1>1, <1>3, <1>4, <1>5, <1>6, <2>1, <2>2, Zenon DEF TypeOK
<1>8. RequestsKnow
  BY DEF Init, Idle, RequestsKnow
<1>. QED
  BY <1>7, <1>8 DEF PostsTyped

\* A request that has read the count of comments is well typed.
LEMMA CommentRecord ==
  \A q \in RequestRecords, n \in Nat : [q EXCEPT !.at = "comment", !.count = n] \in RequestRecords
<1>1. \A q \in RequestRecords : [q EXCEPT !.at = "comment"] \in RequestRecords
  BY DEF RequestRecords
<1>2. \A q \in RequestRecords, n \in Int : [q EXCEPT !.count = n] \in RequestRecords
  BY DEF RequestRecords
<1>3. \A n \in Nat : n \in Int
  OBVIOUS
<1>. QED
  BY <1>1, <1>2, <1>3, Zenon

\* And so is one that has a price.
LEMMA PricedRecord ==
  \A q \in RequestRecords, price \in {0, AutoPrice} :
    [q EXCEPT !.at = "write", !.price = price] \in RequestRecords
BY DEF RequestRecords

\* Each action keeps the types.
LEMMA PostsStepTyped == FlagInv /\ PostsTyped /\ [Next]_vars => TypeOK'
<1>. SUFFICES ASSUME TypeOK, RequestsKnow, [Next]_vars, FlagTypeOK' PROVE TypeOK'
  BY StepOfFlag, FlagNextInv DEF FlagInv, PostsTyped
<1>. USE PostAssumption DEF TypeOK
<1>a. ASSUME NEW r \in Requests, NEW q \in RequestRecords, req' = [req EXCEPT ![r] = q]
      PROVE  req' \in [Requests -> RequestRecords]
  BY <1>a
<1>b. Idle \in RequestRecords
  BY DEF Idle, RequestRecords
<1>c. ASSUME NEW r \in Requests, End(r)
      PROVE  req' \in [Requests -> RequestRecords]
  BY <1>c, <1>a, <1>b DEF End
<1>d. ASSUME NEW r \in Requests, NEW at \in {"sync", "flag", "videos", "write"}, Goto(r, at)
      PROVE  req' \in [Requests -> RequestRecords]
  <2>1. [req[r] EXCEPT !.at = at] \in RequestRecords
    BY DEF RequestRecords
  <2>. QED
    BY <1>d, <1>a, <2>1 DEF Goto
<1>e. ASSUME NEW r \in Requests, NEW at \in {"file", "sync", "reprice", "parent"}, Begin(r, at)
      PROVE  req' \in [Requests -> RequestRecords] /\ begun' \in 0..MaxRequests
  <2>1. [Idle EXCEPT !.at = at] \in RequestRecords
    BY DEF RequestRecords, Idle
  <2>2. req' \in [Requests -> RequestRecords]
    BY <1>e, <1>a, <2>1 DEF Begin
  <2>. QED
    BY <1>e, <2>2 DEF Begin
<1>1. ASSUME NEW r \in Requests, NEW monetized \in BOOLEAN, NEW video \in BOOLEAN,
             CreatePost(r, monetized, video)
      PROVE  TypeOK'
  <2>1. req' \in [Requests -> RequestRecords] /\ begun' \in 0..MaxRequests
    BY <1>1, <1>e DEF CreatePost
  <2>2. post' \in PostRecords
    BY <1>1 DEF CreatePost, PostRecords
  <2>. QED
    BY <1>1, <2>1, <2>2 DEF CreatePost
<1>2. ASSUME NEW r \in Requests, UpdatePost(r) \/ Reprice(r) \/ Comment(r)
      PROVE  TypeOK'
  <2>1. req' \in [Requests -> RequestRecords] /\ begun' \in 0..MaxRequests
    BY <1>2, <1>e DEF UpdatePost, Reprice, Comment
  <2>. QED
    BY <1>2, <2>1 DEF UpdatePost, Reprice, Comment
<1>3. ASSUME NEW r \in Requests, MarkFile(r)
      PROVE  TypeOK'
  <2>1. req' \in [Requests -> RequestRecords]
    BY <1>3, <1>d DEF MarkFile
  <2>2. file' \in FileRecords
    BY <1>3 DEF MarkFile, FileRecords
  <2>. QED
    BY <1>3, <2>1, <2>2 DEF MarkFile
<1>4. ASSUME NEW r \in Requests, RepriceAllowed(r) \/ SyncFlag(r) \/ Fail(r)
      PROVE  TypeOK'
  <2>1. req' \in [Requests -> RequestRecords]
    BY <1>4, <1>c, <1>d DEF RepriceAllowed, SyncFlag, Fail
  <2>. QED
    BY <1>4, <2>1 DEF RepriceAllowed, SyncFlag, Fail
<1>5. ASSUME NEW r \in Requests, NEW u \in Users, NEW k \in Marks,
             NEW on \in {"on", "off", "toggle"}, MarkPost(r, u, k, on)
      PROVE  TypeOK'
  <2>1. count[k] \in Int
    OBVIOUS
  <2>2. [Idle EXCEPT !.at = "check", !.user = u, !.mark = k, !.on = on, !.count = count[k]]
          \in RequestRecords
    BY <2>1 DEF RequestRecords, Idle
  <2>3. req' \in [Requests -> RequestRecords]
    BY <1>5, <1>a, <2>2 DEF MarkPost
  <2>4. begun' \in 0..MaxRequests /\ overlaps' \in [Marks -> Nat]
    BY <1>5 DEF MarkPost
  <2>. QED
    BY <1>5, <2>3, <2>4 DEF MarkPost
<1>6. ASSUME NEW r \in Requests, CheckMark(r)
      PROVE  TypeOK'
  <2>1. \A on \in {"on", "off"} : [req[r] EXCEPT !.at = "update", !.on = on] \in RequestRecords
    BY DEF RequestRecords
  <2>2. \/ End(r)
        \/ \E on \in {"on", "off"} :
             req' = [req EXCEPT ![r] = [req[r] EXCEPT !.at = "update", !.on = on]]
    BY <1>6 DEF CheckMark
  <2>3. req' \in [Requests -> RequestRecords]
    BY <2>1, <2>2, <1>a, <1>c
  <2>. QED
    BY <1>6, <2>3 DEF CheckMark
<1>7. ASSUME NEW r \in Requests, UpdateMark(r)
      PROVE  TypeOK'
  <2>1. req[r].user \in Users /\ req[r].mark \in Marks /\ req[r].count \in Int
    BY <1>7 DEF UpdateMark, RequestsKnow, RequestRecords
  <2>2. [Idle EXCEPT !.at = "sync"] \in RequestRecords
    BY DEF RequestRecords, Idle
  <2>3. req' \in [Requests -> RequestRecords]
    BY <1>7, <1>a, <2>2 DEF UpdateMark
  <2>4. marked' \in [Marks -> SUBSET Users]
    BY <1>7, <2>1 DEF UpdateMark
  <2>5. count' \in [Marks -> Int]
    BY <1>7, <2>1 DEF UpdateMark
  <2>. QED
    BY <1>7, <2>3, <2>4, <2>5 DEF UpdateMark
<1>8. ASSUME NEW r \in Requests, FindParentPost(r)
      PROVE  TypeOK'
  <2>1. [req[r] EXCEPT !.at = "comment", !.count = commentCount] \in RequestRecords
    BY CommentRecord
  <2>2. req' \in [Requests -> RequestRecords]
    BY <1>8, <1>a, <2>1 DEF FindParentPost
  <2>. QED
    BY <1>8, <2>2 DEF FindParentPost
<1>9. ASSUME NEW r \in Requests, IncrementParentPostCommentCount(r)
      PROVE  TypeOK'
  <2>1. commentCount' \in Nat
    BY <1>9 DEF IncrementParentPostCommentCount, RequestsKnow
  <2>2. req' \in [Requests -> RequestRecords]
    BY <1>9, <1>c DEF IncrementParentPostCommentCount
  <2>. QED
    BY <1>9, <2>1, <2>2 DEF IncrementParentPostCommentCount
<1>10. ASSUME NEW r \in Requests, Sync(r)
       PROVE  TypeOK'
  <2>1. req' \in [Requests -> RequestRecords]
    BY <1>10, <1>c, <1>d DEF Sync
  <2>. QED
    BY <1>10, <2>1 DEF Sync
<1>11. ASSUME NEW r \in Requests, Aggregate(r)
       PROVE  TypeOK'
  <2>1. PICK probed \in BOOLEAN :
          LET found == post.video /\ file.status # "DELETED" /\ (file.known \/ probed)
          IN /\ req' = [req EXCEPT ![r] = [@ EXCEPT !.at = "write",
                                                  !.price = IF found THEN AutoPrice ELSE 0]]
             /\ file' = [file EXCEPT !.known = @ \/ found]
    BY <1>11 DEF Aggregate
  <2>. DEFINE found == post.video /\ file.status # "DELETED" /\ (file.known \/ probed)
              price == IF found THEN AutoPrice ELSE 0
  <2>2. [req[r] EXCEPT !.at = "write", !.price = price] \in RequestRecords
    BY PricedRecord
  <2>3. req' \in [Requests -> RequestRecords]
    BY <1>a, <2>1, <2>2
  <2>4. file.known \in BOOLEAN /\ post.video \in BOOLEAN
    BY DEF FileRecords, PostRecords
  <2>5. [file EXCEPT !.known = file.known \/ found] \in FileRecords
    BY <2>4 DEF FileRecords
  <2>6. file' \in FileRecords
    BY <2>1, <2>5
  <2>. QED
    BY <1>11, <2>3, <2>6 DEF Aggregate
<1>12. ASSUME NEW r \in Requests, WritePrice(r)
       PROVE  TypeOK'
  <2>1. req' \in [Requests -> RequestRecords]
    BY <1>12, <1>c DEF WritePrice
  <2>2. post' \in PostRecords
    BY <1>12 DEF WritePrice, PostRecords, RequestRecords
  <2>3. solid' \in BOOLEAN
    BY <1>12 DEF WritePrice
  <2>. QED
    BY <1>12, <2>1, <2>2, <2>3 DEF WritePrice
<1>13. ASSUME NEW price \in AdminPrices, AdminPatchPrice(price)
       PROVE  TypeOK'
  <2>1. post' \in PostRecords
    BY <1>13 DEF AdminPatchPrice, PostRecords
  <2>2. override' \in AdminPrices \cup {None} /\ solid' \in BOOLEAN
    BY <1>13 DEF AdminPatchPrice
  <2>. QED
    BY <1>13, <2>1, <2>2 DEF AdminPatchPrice
<1>14. CASE DeletePost
  <2>1. post' \in PostRecords
    BY <1>14 DEF DeletePost, PostRecords
  <2>2. marked' \in [Marks -> SUBSET Users] /\ count' \in [Marks -> Int]
    BY <1>14 DEF DeletePost
  <2>. QED
    BY <1>14, <2>1, <2>2 DEF DeletePost
<1>18. CASE DeleteComment
  BY <1>18 DEF DeleteComment
<1>15. CASE FileMoves
  <2>1. file' \in FileRecords
    BY <1>15 DEF FileMoves, FileRecords
  <2>. QED
    BY <1>15, <2>1 DEF FileMoves
<1>16. CASE FlagStep \/ SwitchFlag
  BY <1>16 DEF FlagStep, SwitchFlag, postVars
<1>17. CASE UNCHANGED vars
  BY <1>17 DEF vars, postVars
<1>. QED
  BY <1>1, <1>2, <1>3, <1>4, <1>5, <1>6, <1>7, <1>8, <1>9, <1>10, <1>11, <1>12, <1>13, <1>14,
     <1>15, <1>16, <1>17, <1>18 DEF Next

\* Each action keeps what requests know.
LEMMA RequestsKnowStep == PostsTyped /\ [Next]_vars => RequestsKnow'
<1>. SUFFICES ASSUME TypeOK, RequestsKnow, [Next]_vars PROVE RequestsKnow'
  BY DEF PostsTyped
<1>. USE DEF RequestsKnow
<1>0. req \in [Requests -> RequestRecords] /\ commentCount \in Nat
  BY DEF TypeOK
<1>1. ASSUME NEW r \in Requests,
             \/ \E at \in {"sync", "flag", "videos", "write", "file", "reprice", "parent"} :
                  Goto(r, at) \/ Begin(r, at)
             \/ End(r)
      PROVE  RequestsKnow'
  BY <1>1, <1>0 DEF Goto, Begin, End, Idle, RequestRecords
<1>2. ASSUME NEW r \in Requests, NEW monetized \in BOOLEAN, NEW video \in BOOLEAN,
             CreatePost(r, monetized, video)
      PROVE  RequestsKnow'
  BY <1>2, <1>1 DEF CreatePost
<1>3. ASSUME NEW r \in Requests,
             \/ UpdatePost(r) \/ Reprice(r) \/ Comment(r) \/ MarkFile(r) \/ RepriceAllowed(r)
             \/ SyncFlag(r) \/ Fail(r) \/ IncrementParentPostCommentCount(r) \/ Sync(r)
             \/ WritePrice(r)
      PROVE  RequestsKnow'
  BY <1>3, <1>1 DEF UpdatePost, Reprice, Comment, MarkFile, RepriceAllowed, SyncFlag, Fail,
                    IncrementParentPostCommentCount, Sync, WritePrice
<1>4. ASSUME NEW r \in Requests, NEW u \in Users, NEW k \in Marks,
             NEW on \in {"on", "off", "toggle"}, MarkPost(r, u, k, on)
      PROVE  RequestsKnow'
  BY <1>4, <1>0 DEF MarkPost, Idle
<1>5. ASSUME NEW r \in Requests, CheckMark(r)
      PROVE  RequestsKnow'
  <2>1. CASE End(r)
    BY <2>1, <1>1
  <2>2. CASE \E on \in {"on", "off"} :
               req' = [req EXCEPT ![r] = [req[r] EXCEPT !.at = "update", !.on = on]]
    <3>1. req[r].at = "check" /\ req[r] \in RequestRecords
      BY <1>5, <1>0 DEF CheckMark
    <3>2. req[r].user \in Users /\ req[r].mark \in Marks
      BY <3>1
    <3>3. /\ req'[r].at = "update" /\ req'[r].user = req[r].user /\ req'[r].mark = req[r].mark
          /\ \A s \in Requests \ {r} : req'[s] = req[s]
      BY <2>2, <3>1, <1>0 DEF RequestRecords
    <3>. QED
      BY <3>2, <3>3
  <2>. QED
    BY <1>5, <2>1, <2>2 DEF CheckMark
<1>6. ASSUME NEW r \in Requests, UpdateMark(r)
      PROVE  RequestsKnow'
  BY <1>6, <1>0 DEF UpdateMark, Idle
<1>7. ASSUME NEW r \in Requests, FindParentPost(r)
      PROVE  RequestsKnow'
  <2>1. req[r] \in RequestRecords
    BY <1>0
  <2>2. /\ req'[r].at = "comment" /\ req'[r].count = commentCount
        /\ \A s \in Requests \ {r} : req'[s] = req[s]
    BY <1>7, <1>0, <2>1 DEF FindParentPost, RequestRecords
  <2>. QED
    BY <2>2, <1>0
<1>8. ASSUME NEW r \in Requests, Aggregate(r)
      PROVE  RequestsKnow'
  <2>1. req[r] \in RequestRecords
    BY <1>0
  <2>2. req'[r].at = "write" /\ \A s \in Requests \ {r} : req'[s] = req[s]
    BY <1>8, <1>0, <2>1 DEF Aggregate, RequestRecords
  <2>. QED
    BY <2>2
<1>9. CASE FileMoves \/ DeleteComment \/ DeletePost \/ FlagStep \/ SwitchFlag
           \/ \E price \in AdminPrices : AdminPatchPrice(price)
  BY <1>9 DEF FileMoves, DeleteComment, DeletePost, FlagStep, SwitchFlag, AdminPatchPrice, postVars
<1>10. CASE UNCHANGED vars
  BY <1>10 DEF vars, postVars
<1>. QED
  BY <1>2, <1>3, <1>4, <1>5, <1>6, <1>7, <1>8, <1>9, <1>10 DEF Next

\* Type correctness of the post, its requests and the flag.
THEOREM PostsTypeCorrect == Spec => []TypeOK
<1>1. Init => FlagInv /\ PostsTyped
  BY PostsInitTyped, FlagInitInv DEF Init
<1>2. FlagInv /\ PostsTyped /\ [Next]_vars => (FlagInv /\ PostsTyped)'
  BY PostsStepTyped, RequestsKnowStep, StepOfFlag, FlagNextInv DEF PostsTyped
<1>3. PostsTyped => TypeOK
  BY DEF PostsTyped
<1>. QED
  BY <1>1, <1>2, <1>3, PTL DEF Spec
---------------------------------------------------------------------------
\* Why a price set by hand stays: from the moment it is set the flag is off in
\* the row, in a valid cache and in every answer, and no request is past it.
OverrideKept ==
  override # None =>
    Live /\ post.monetized /\ PricingOff /\ post.price = override

\* No step but switching the flag on makes anything compute the price again.
LEMMA PricingStaysOff ==
  TypeOK /\ PricingOff /\ Live /\ post.monetized /\ [Next]_vars /\ enabled' = "off"
    => PricingOff'
<1>. SUFFICES ASSUME TypeOK, PricingOff, Live, post.monetized, [Next]_vars, enabled' = "off"
              PROVE  PricingOff'
  OBVIOUS
<1>0. /\ req \in [Requests -> RequestRecords]
      /\ ask \in [Requests -> [at: {"idle", "query", "fill", "told"}, since: Nat,
                               value: Settings]]
      /\ clock \in Nat /\ cache.expires \in Nat
  BY DEF TypeOK, FlagTypeOK
<1>. USE DEF PricingOff
<1>1. ASSUME NEW r \in Requests,
             \/ \E at \in {"sync", "flag", "file", "reprice", "parent"} :
                  Goto(r, at) \/ Begin(r, at)
             \/ End(r),
             UNCHANGED flagVars \/ Forget(r)
      PROVE  PricingOff'
  <2>1. \A s \in Requests : req'[s].at \notin {"videos", "write"}
    BY <1>1, <1>0 DEF Goto, Begin, End, Idle, RequestRecords
  <2>2. CASE UNCHANGED flagVars
    BY <2>1, <2>2 DEF flagVars
  <2>3. CASE Forget(r)
    BY <2>1, <2>3, <1>0 DEF Forget, NoAsk
  <2>. QED
    BY <1>1, <2>2, <2>3
<1>2. ASSUME NEW r \in Requests, NEW monetized \in BOOLEAN, NEW video \in BOOLEAN,
             CreatePost(r, monetized, video)
      PROVE  PricingOff'
  BY <1>2, <1>1 DEF CreatePost
<1>3. ASSUME NEW r \in Requests,
             \/ UpdatePost(r) \/ Reprice(r) \/ Comment(r) \/ MarkFile(r)
             \/ RepriceAllowed(r) \/ Fail(r) \/ IncrementParentPostCommentCount(r)
      PROVE  PricingOff'
  BY <1>3, <1>1 DEF UpdatePost, Reprice, Comment, MarkFile, RepriceAllowed, Fail,
                    IncrementParentPostCommentCount
<1>4. ASSUME NEW r \in Requests, SyncFlag(r)
      PROVE  PricingOff'
  <2>1. End(r) /\ Forget(r)
    BY <1>4, <1>0 DEF SyncFlag
  <2>. QED
    BY <2>1, <1>1
<1>5. ASSUME NEW r \in Requests, Sync(r)
      PROVE  PricingOff'
  <2>1. Goto(r, "flag") /\ UNCHANGED flagVars
    BY <1>5 DEF Sync
  <2>. QED
    BY <2>1, <1>1
<1>6. ASSUME NEW r \in Requests, Aggregate(r) \/ WritePrice(r)
      PROVE  FALSE
  BY <1>6 DEF Aggregate, WritePrice
<1>7. ASSUME NEW r \in Requests, NEW u \in Users, NEW k \in Marks,
             NEW on \in {"on", "off", "toggle"}, MarkPost(r, u, k, on)
      PROVE  PricingOff'
  BY <1>7, <1>0 DEF MarkPost, Idle, flagVars
<1>8. ASSUME NEW r \in Requests, CheckMark(r)
      PROVE  PricingOff'
  <2>1. CASE End(r)
    BY <2>1, <1>8, <1>1 DEF CheckMark
  <2>2. CASE \E on \in {"on", "off"} :
               req' = [req EXCEPT ![r] = [req[r] EXCEPT !.at = "update", !.on = on]]
    <3>1. req[r] \in RequestRecords
      BY <1>0
    <3>2. req'[r].at = "update" /\ \A s \in Requests \ {r} : req'[s] = req[s]
      BY <2>2, <3>1, <1>0 DEF RequestRecords
    <3>. QED
      BY <3>2, <1>8 DEF CheckMark, flagVars
  <2>. QED
    BY <1>8, <2>1, <2>2 DEF CheckMark
<1>9. ASSUME NEW r \in Requests, UpdateMark(r)
      PROVE  PricingOff'
  BY <1>9, <1>0 DEF UpdateMark, Idle, flagVars
<1>10. ASSUME NEW r \in Requests, FindParentPost(r)
       PROVE  PricingOff'
  <2>1. req[r] \in RequestRecords
    BY <1>0
  <2>2. req'[r].at = "comment" /\ \A s \in Requests \ {r} : req'[s] = req[s]
    BY <1>10, <1>0, <2>1 DEF FindParentPost, RequestRecords
  <2>. QED
    BY <2>2, <1>10 DEF FindParentPost, flagVars
<1>11. CASE \/ FileMoves \/ DeleteComment \/ DeletePost
            \/ \E price \in AdminPrices : AdminPatchPrice(price)
  BY <1>11 DEF FileMoves, DeleteComment, DeletePost, AdminPatchPrice, flagVars
<1>12. CASE FlagStep
  <2>1. UNCHANGED req
    BY <1>12 DEF FlagStep, postVars
  <2>2. CASE Tick
    BY <2>1, <2>2, <1>0 DEF Tick
  <2>3. CASE BumpCache
    BY <2>1, <2>3, <1>0 DEF BumpCache, NoCache
  <2>4. ASSUME NEW r \in Requests, Ask(r)
        PROVE  PricingOff'
    BY <2>1, <2>4, <1>0 DEF Ask
  <2>5. ASSUME NEW r \in Requests, Query(r)
        PROVE  PricingOff'
    BY <2>1, <2>5, <1>0 DEF Query
  <2>6. ASSUME NEW r \in Requests, Fill(r)
        PROVE  PricingOff'
    BY <2>1, <2>6, <1>0 DEF Fill
  <2>. QED
    BY <1>12, <2>2, <2>3, <2>4, <2>5, <2>6 DEF FlagStep
<1>13. CASE SwitchFlag
  BY <1>13 DEF SwitchFlag, PatchFlag
<1>14. CASE UNCHANGED vars
  BY <1>14 DEF vars, postVars, flagVars
<1>. QED
  BY <1>2, <1>3, <1>4, <1>5, <1>6, <1>7, <1>8, <1>9, <1>10, <1>11, <1>12, <1>13, <1>14 DEF Next

\* A price set by hand is kept by every step.
LEMMA OverrideStep == TypeOK /\ OverrideKept /\ [Next]_vars => OverrideKept'
<1>. SUFFICES ASSUME TypeOK, OverrideKept, [Next]_vars, override' # None
              PROVE  OverrideKept'
  BY DEF OverrideKept
<1>0. post \in PostRecords /\ enabled \in Settings
  BY DEF TypeOK, FlagTypeOK
<1>1. ASSUME NEW price \in AdminPrices, AdminPatchPrice(price)
      PROVE  OverrideKept'
  <2>1. PricingOff /\ Live /\ post.monetized /\ override' = price
    BY <1>1 DEF AdminPatchPrice
  <2>2. enabled' = "off"
    BY <1>1, <2>1 DEF AdminPatchPrice, PricingOff, flagVars
  <2>3. PricingOff'
    BY <2>1, <2>2, PricingStaysOff
  <2>. QED
    BY <1>0, <1>1, <2>1, <2>3 DEF AdminPatchPrice, OverrideKept, Live, PostRecords
<1>2. ASSUME UNCHANGED override PROVE override # None /\ PricingOff /\ Live /\ post.monetized
                                      /\ post.price = override
  BY <1>2 DEF OverrideKept
<1>3. ASSUME UNCHANGED <<post, override>>, enabled' = "off"
      PROVE  OverrideKept'
  BY <1>2, <1>3, PricingStaysOff DEF OverrideKept, Live
<1>4. CASE \E r \in Requests, monetized, video \in BOOLEAN : CreatePost(r, monetized, video)
  <2>1. UNCHANGED override /\ ~Live
    BY <1>4 DEF CreatePost, Live
  <2>. QED
    BY <2>1, <1>2
<1>5. ASSUME NEW r \in Requests,
             \/ UpdatePost(r) \/ Reprice(r) \/ Comment(r) \/ MarkFile(r) \/ RepriceAllowed(r)
             \/ SyncFlag(r) \/ Fail(r) \/ IncrementParentPostCommentCount(r) \/ Sync(r)
             \/ CheckMark(r) \/ UpdateMark(r) \/ FindParentPost(r) \/ Aggregate(r)
      PROVE  OverrideKept'
  <2>1. UNCHANGED <<post, override, enabled>>
    BY <1>5 DEF UpdatePost, Reprice, Comment, MarkFile, RepriceAllowed, SyncFlag, Fail,
                IncrementParentPostCommentCount, Sync, CheckMark, UpdateMark, FindParentPost,
                Aggregate, flagVars, Forget
  <2>. QED
    BY <2>1, <1>2, <1>3 DEF PricingOff
<1>6. ASSUME NEW r \in Requests, NEW u \in Users, NEW k \in Marks,
             NEW on \in {"on", "off", "toggle"}, MarkPost(r, u, k, on)
      PROVE  OverrideKept'
  <2>1. UNCHANGED <<post, override, enabled>>
    BY <1>6 DEF MarkPost, flagVars
  <2>. QED
    BY <2>1, <1>2, <1>3 DEF PricingOff
<1>7. ASSUME NEW r \in Requests, WritePrice(r)
      PROVE  FALSE
  BY <1>7, <1>2 DEF WritePrice, PricingOff
<1>8. CASE DeletePost
  BY <1>8 DEF DeletePost
<1>9. CASE FileMoves \/ DeleteComment \/ FlagStep
  <2>1. UNCHANGED <<post, override, enabled>>
    BY <1>9 DEF FileMoves, DeleteComment, FlagStep, postVars, flagVars, Tick, BumpCache, Ask,
                Query, Fill
  <2>. QED
    BY <2>1, <1>2, <1>3 DEF PricingOff
<1>10. CASE SwitchFlag
  <2>1. enabled' # "on" /\ UNCHANGED override
    BY <1>10 DEF SwitchFlag
  <2>2. enabled = "off"
    BY <2>1, <1>2 DEF PricingOff
  <2>. QED
    BY <1>10, <2>1, <2>2 DEF SwitchFlag, PatchFlag
<1>11. CASE UNCHANGED vars
  <2>1. UNCHANGED <<post, override, enabled>>
    BY <1>11 DEF vars, postVars, flagVars
  <2>. QED
    BY <2>1, <1>2, <1>3 DEF PricingOff
<1>. QED
  BY <1>1, <1>4, <1>5, <1>6, <1>7, <1>8, <1>9, <1>10, <1>11 DEF Next

\* A price that an admin sets while automatic pricing is off, and no request has
\* an older answer, stays until the flag is switched on, whatever requests run.
THEOREM OverrideIsHeld == Spec => []OverrideHolds
<1>1. Init => OverrideKept
  BY DEF Init, OverrideKept
<1>2. TypeOK /\ OverrideKept /\ [Next]_vars => OverrideKept'
  BY OverrideStep
<1>3. OverrideKept => OverrideHolds
  BY DEF OverrideKept, OverrideHolds
<1>. QED
  BY <1>1, <1>2, <1>3, PostsTypeCorrect, PTL DEF Spec
---------------------------------------------------------------------------
(* Counts and prices: what the requests under way have read, and what the  *)
(* row still says.                                                         *)

\* How the request of a step moves; the others stay where they are.
LEMMA RequestMoves ==
  ASSUME TypeOK, NEW r \in Requests
  PROVE  /\ \A at : Goto(r, at) =>
              /\ req'[r].at = at /\ req'[r].price = req[r].price
              /\ \A s \in Requests \ {r} : req'[s] = req[s]
         /\ \A at : Begin(r, at) =>
              /\ req[r].at = "idle" /\ req'[r].at = at /\ req'[r].price = 0
              /\ \A s \in Requests \ {r} : req'[s] = req[s]
         /\ End(r) =>
              /\ req'[r].at = "idle" /\ req'[r].price = 0
              /\ \A s \in Requests \ {r} : req'[s] = req[s]
<1>1. req \in [Requests -> RequestRecords]
  BY DEF TypeOK
<1> QED BY <1>1 DEF Goto, Begin, End, Idle, RequestRecords

\* A post is created once, and once deleted stays so.
LEMMA StateMoves ==
  ASSUME TypeOK, [Next]_vars
  PROVE  post'.state # "deleted" => post.state # "deleted"
<1>1. post \in PostRecords
  BY DEF TypeOK
<1>2. UNCHANGED post \/ post.state # "deleted"
  <2>1. ASSUME NEW r \in Requests, NEW m \in BOOLEAN, NEW v \in BOOLEAN, CreatePost(r, m, v)
        PROVE  post.state # "deleted"
    BY <2>1 DEF CreatePost
  <2>2. ASSUME NEW r \in Requests,
               \/ UpdatePost(r) \/ MarkFile(r) \/ Reprice(r) \/ RepriceAllowed(r) \/ Fail(r)
               \/ CheckMark(r) \/ UpdateMark(r) \/ Comment(r) \/ FindParentPost(r)
               \/ IncrementParentPostCommentCount(r) \/ Sync(r) \/ SyncFlag(r) \/ Aggregate(r)
        PROVE  UNCHANGED post
    BY <2>2 DEF UpdatePost, MarkFile, Reprice, RepriceAllowed, Fail, CheckMark, UpdateMark,
                Comment, FindParentPost, IncrementParentPostCommentCount, Sync, SyncFlag,
                Aggregate
  <2>3. ASSUME NEW r \in Requests, NEW u \in Users, NEW k \in Marks,
               NEW on \in {"on", "off", "toggle"}, MarkPost(r, u, k, on)
        PROVE  UNCHANGED post
    BY <2>3 DEF MarkPost
  <2>4. CASE \/ \E r \in Requests : WritePrice(r)
             \/ \E price \in AdminPrices : AdminPatchPrice(price)
             \/ DeletePost
    BY <2>4 DEF WritePrice, AdminPatchPrice, DeletePost, Live
  <2>5. CASE FileMoves \/ DeleteComment \/ FlagStep \/ SwitchFlag \/ UNCHANGED vars
    BY <2>5 DEF FileMoves, DeleteComment, FlagStep, SwitchFlag, vars, postVars
  <2> QED BY <2>1, <2>2, <2>3, <2>4, <2>5 DEF Next
<1> QED BY <1>1, <1>2

\* What the update of a request makes of a set S of users: at "update" it is known,
\* at "check" the request will find out by looking at S.
After(q, S) == IF q.at = "check" THEN S
               ELSE IF q.on = "on" THEN S \cup {q.user} ELSE S \ {q.user}
Gain(q) == IF q.at = "check" THEN 0 ELSE IF q.on = "on" THEN 1 ELSE -1

\* How far the count is off, and how far it will be if q writes next.
Drift(k) == count[k] - Cardinality(marked[k])
DriftAfter(q, S) == (q.count + Gain(q)) - Cardinality(After(q, S))

\* The overlaps that are not used up by requests still under way.
Slack(k) == overlaps[k] - (IF Marking(k) = {} THEN 0 ELSE Cardinality(Marking(k)) - 1)
Within(x, n) == -n <= x /\ x <= n

\* A request that overlaps no other writes the count it read, changed as it
\* changes the set; every further one under way at the time costs at most one.
MarksInv ==
  \A k \in Marks :
    /\ IsFiniteSet(marked[k]) /\ IsFiniteSet(Marking(k))
    /\ Within(Drift(k), overlaps[k])
    /\ post.state # "deleted" =>
         /\ Within(Drift(k), Slack(k))
         /\ \A r \in Marking(k) : Within(DriftAfter(req[r], marked[k]), Slack(k))

\* A user more or less changes the size of a set by one at most.
LEMMA OneUser ==
  ASSUME NEW S, IsFiniteSet(S), NEW u
  PROVE  /\ IsFiniteSet(S \cup {u}) /\ IsFiniteSet(S \ {u})
         /\ Cardinality(S) \in Nat
         /\ Cardinality(S \cup {u}) - Cardinality(S) \in 0..1
         /\ Cardinality(S) - Cardinality(S \ {u}) \in 0..1
         /\ u \notin S => Cardinality(S \cup {u}) = Cardinality(S) + 1
         /\ u \in S => Cardinality(S \ {u}) = Cardinality(S) - 1
<1>1. IsFiniteSet(S \cup {u}) /\ IsFiniteSet(S \ {u}) /\ Cardinality(S) \in Nat
  BY FS_AddElement, FS_RemoveElement, FS_CardinalityType
<1>2. CASE u \in S
  <2>1. S \cup {u} = S
    BY <1>2
  <2>2. Cardinality(S \ {u}) = Cardinality(S) - 1
    BY <1>2, FS_RemoveElement
  <2>3. Cardinality(S \cup {u}) = Cardinality(S)
    BY <2>1
  <2>4. \A n \in Nat : n - n \in 0..1 /\ n - (n - 1) \in 0..1
    OBVIOUS
  <2> QED BY <1>1, <1>2, <2>2, <2>3, <2>4
<1>3. CASE u \notin S
  <2>1. S \ {u} = S
    BY <1>3
  <2>2. Cardinality(S \cup {u}) = Cardinality(S) + 1
    BY <1>3, FS_AddElement
  <2>3. Cardinality(S \ {u}) = Cardinality(S)
    BY <2>1
  <2>4. \A n \in Nat : n - n \in 0..1 /\ (n + 1) - n \in 0..1
    OBVIOUS
  <2> QED BY <1>1, <1>3, <2>2, <2>3, <2>4
<1> QED BY <1>2, <1>3

\* The update p of another request moves what q will find by at most one.
LEMMA AnotherUpdate ==
  ASSUME NEW S, IsFiniteSet(S), NEW p, NEW q, q.count \in Int
  PROVE  /\ DriftAfter(q, S) \in Int /\ DriftAfter(q, After(p, S)) \in Int
         /\ DriftAfter(q, After(p, S)) - DriftAfter(q, S) \in -1..1
<1> DEFINE T == After(q, S)
           U == After(q, After(p, S))
<1>0. PICK u, v : u = p.user /\ v = q.user
  OBVIOUS
<1>1. /\ IsFiniteSet(S \cup {v}) /\ IsFiniteSet(S \ {v})
      /\ IsFiniteSet(S \cup {u}) /\ IsFiniteSet(S \ {u})
  BY OneUser
<1>2. IsFiniteSet(T)
  BY <1>0, <1>1 DEF After
<1>3. U \in {T, T \cup {u}, T \ {u}}
  <2>1. After(p, S) \in {S, S \cup {u}, S \ {u}}
    BY <1>0 DEF After
  <2>2. T \in {S, S \cup {v}, S \ {v}}
    BY <1>0 DEF After
  <2>3. /\ q.at = "check" => T = S /\ U = After(p, S)
        /\ q.at # "check" /\ q.on = "on" => T = S \cup {v} /\ U = After(p, S) \cup {v}
        /\ q.at # "check" /\ q.on # "on" => T = S \ {v} /\ U = After(p, S) \ {v}
    BY <1>0 DEF After
  <2> HIDE DEF T, U
  <2> DEFINE R == After(p, S)
  <2>4. R \in {S, S \cup {u}, S \ {u}}
    BY <2>1
  <2> HIDE DEF R
  <2>5. CASE q.at = "check"
    BY <2>3, <2>4, <2>5 DEF R
  <2>6. CASE q.at # "check" /\ q.on = "on"
    <3>1. T = S \cup {v} /\ U = R \cup {v}
      BY <2>3, <2>6 DEF R
    <3>2. (S \cup {u}) \cup {v} = (S \cup {v}) \cup {u}
      OBVIOUS
    <3>3. (S \ {u}) \cup {v} = IF u = v THEN S \cup {v} ELSE (S \cup {v}) \ {u}
      OBVIOUS
    <3> QED BY <2>4, <3>1, <3>2, <3>3
  <2>7. CASE q.at # "check" /\ q.on # "on"
    <3>1. T = S \ {v} /\ U = R \ {v}
      BY <2>3, <2>7 DEF R
    <3>2. (S \ {u}) \ {v} = (S \ {v}) \ {u}
      OBVIOUS
    <3>3. (S \cup {u}) \ {v} = IF u = v THEN S \ {v} ELSE (S \ {v}) \cup {u}
      OBVIOUS
    <3> QED BY <2>4, <3>1, <3>2, <3>3
  <2> QED BY <2>5, <2>6, <2>7
<1>4. Gain(q) \in Int
  BY DEF Gain
<1>5. /\ DriftAfter(q, S) = (q.count + Gain(q)) - Cardinality(T)
      /\ DriftAfter(q, After(p, S)) = (q.count + Gain(q)) - Cardinality(U)
  BY DEF DriftAfter
<1> HIDE DEF T, U
<1>6. Cardinality(T) \in Nat /\ Cardinality(U) - Cardinality(T) \in -1..1 /\ Cardinality(U) \in Nat
  <2>1. /\ Cardinality(T) \in Nat
        /\ Cardinality(T \cup {u}) - Cardinality(T) \in 0..1
        /\ Cardinality(T) - Cardinality(T \ {u}) \in 0..1
        /\ IsFiniteSet(T \cup {u}) /\ IsFiniteSet(T \ {u})
    BY <1>2, OneUser
  <2>2. Cardinality(T \cup {u}) \in Nat /\ Cardinality(T \ {u}) \in Nat
    BY <2>1, FS_CardinalityType
  <2>3. CASE U = T
    BY <2>1, <2>3
  <2>4. CASE U = T \cup {u}
    BY <2>1, <2>2, <2>4
  <2>5. CASE U = T \ {u}
    BY <2>1, <2>2, <2>5
  <2> QED BY <1>3, <2>3, <2>4, <2>5
<1> DEFINE c == q.count
           g == Gain(q)
           t == Cardinality(T)
           w == Cardinality(U)
<1>7. c \in Int /\ g \in Int /\ t \in Nat /\ w \in Nat /\ w - t \in -1..1
  BY <1>4, <1>6
<1>8. DriftAfter(q, S) = (c + g) - t /\ DriftAfter(q, After(p, S)) = (c + g) - w
  BY <1>5
<1> HIDE DEF c, g, t, w
<1> QED BY <1>7, <1>8

\* The slack of a mark is a number, and grows when a request for it ends.
LEMMA SlackGrows ==
  ASSUME TypeOK, MarksInv, NEW k \in Marks, UNCHANGED overlaps, Marking(k)' \subseteq Marking(k)
  PROVE  /\ IsFiniteSet(Marking(k)') /\ Slack(k) \in Int /\ Slack(k)' \in Int
         /\ Slack(k) <= Slack(k)' /\ Slack(k)' <= overlaps[k]
         /\ Marking(k) \ Marking(k)' # {} /\ Marking(k)' # {} => Slack(k) + 1 <= Slack(k)'
<1>1. IsFiniteSet(Marking(k)) /\ overlaps[k] \in Nat
  BY DEF MarksInv, TypeOK
<1> DEFINE m == Cardinality(Marking(k))
           n == Cardinality(Marking(k)')
<1>2. /\ IsFiniteSet(Marking(k)') /\ n <= m
      /\ (Marking(k)' # Marking(k) => n < m)
      /\ m \in Nat /\ n \in Nat
  BY <1>1, FS_Subset, FS_CardinalityType
<1>3. (m = 0 <=> Marking(k) = {}) /\ (n = 0 <=> Marking(k)' = {})
  BY <1>1, <1>2, FS_EmptySet
<1>4. /\ Slack(k) = overlaps[k] - (IF Marking(k) = {} THEN 0 ELSE m - 1)
      /\ Slack(k)' = overlaps[k] - (IF Marking(k)' = {} THEN 0 ELSE n - 1)
  BY DEF Slack
<1> HIDE DEF m, n
<1> QED BY <1>1, <1>2, <1>3, <1>4

\* A wider bound holds as well.
LEMMA WithinMore ==
  ASSUME NEW x \in Int, NEW a \in Int, NEW b \in Int, Within(x, a), a <= b
  PROVE  Within(x, b)
BY DEF Within

\* The drifts are numbers.
LEMMA DriftsAreInt ==
  ASSUME TypeOK, MarksInv, NEW k \in Marks
  PROVE  Drift(k) \in Int /\ \A r \in Requests : DriftAfter(req[r], marked[k]) \in Int
<1>1. IsFiniteSet(marked[k]) /\ count[k] \in Int
  BY DEF MarksInv, TypeOK
<1>2. Cardinality(marked[k]) \in Nat
  BY <1>1, FS_CardinalityType
<1>3. \A r \in Requests : req[r].count \in Int
  BY DEF TypeOK, RequestRecords
<1> QED BY <1>1, <1>2, <1>3, AnotherUpdate DEF Drift

\* A step that marks nothing, and starts no marking, keeps the counts.
LEMMA MarksStay ==
  ASSUME TypeOK, MarksInv, UNCHANGED <<marked, count, overlaps>>,
         \A s \in Requests : req'[s] = req[s] \/ req'[s].at \notin {"check", "update"},
         post'.state # "deleted" => post.state # "deleted"
  PROVE  MarksInv'
<1> SUFFICES ASSUME NEW k \in Marks
             PROVE  /\ IsFiniteSet(marked[k]) /\ IsFiniteSet(Marking(k)')
                    /\ Within(Drift(k)', overlaps[k])
                    /\ post'.state # "deleted" =>
                         /\ Within(Drift(k)', Slack(k)')
                         /\ \A r \in Marking(k)' :
                              Within(DriftAfter(req'[r], marked[k]), Slack(k)')
  BY DEF MarksInv, DriftAfter, After, Gain
<1>1. Marking(k)' \subseteq Marking(k) /\ \A s \in Marking(k)' : req'[s] = req[s] /\ s \in Requests
  BY DEF Marking
<1>2. Drift(k)' = Drift(k)
  BY DEF Drift
<1>3. /\ IsFiniteSet(Marking(k)') /\ Slack(k) \in Int /\ Slack(k)' \in Int
      /\ Slack(k) <= Slack(k)'
  BY <1>1, SlackGrows
<1>4. Drift(k) \in Int /\ \A r \in Requests : DriftAfter(req[r], marked[k]) \in Int
  BY DriftsAreInt
<1>5. IsFiniteSet(marked[k]) /\ Within(Drift(k), overlaps[k])
  BY DEF MarksInv
<1>6. ASSUME post'.state # "deleted"
      PROVE  /\ Within(Drift(k), Slack(k))
             /\ \A r \in Marking(k) : Within(DriftAfter(req[r], marked[k]), Slack(k))
  BY <1>6 DEF MarksInv
<1> QED BY <1>1, <1>2, <1>3, <1>4, <1>5, <1>6, WithinMore

\* Every step keeps the counts within what the overlaps allow.
LEMMA MarksStep ==
  ASSUME TypeOK, RequestsKnow, MarksInv, [Next]_vars
  PROVE  MarksInv'
<1>0. /\ req \in [Requests -> RequestRecords] /\ overlaps \in [Marks -> Nat]
      /\ marked \in [Marks -> SUBSET Users] /\ count \in [Marks -> Int]
      /\ post'.state # "deleted" => post.state # "deleted"
  BY StateMoves DEF TypeOK
<1>1. ASSUME NEW r \in Requests,
             \/ \E at : at \notin {"check", "update"} /\ (Goto(r, at) \/ Begin(r, at))
             \/ End(r),
             UNCHANGED <<marked, count, overlaps>>
      PROVE  MarksInv'
  <2>1. \A s \in Requests : req'[s] = req[s] \/ req'[s].at \notin {"check", "update"}
    BY <1>1, RequestMoves
  <2> QED BY <1>0, <1>1, <2>1, MarksStay
<1>2. ASSUME UNCHANGED <<req, marked, count, overlaps>> PROVE MarksInv'
  BY <1>0, <1>2, MarksStay
<1>3. ASSUME NEW r \in Requests, NEW monetized \in BOOLEAN, NEW video \in BOOLEAN,
             CreatePost(r, monetized, video)
      PROVE  MarksInv'
  BY <1>1, <1>3 DEF CreatePost
<1>4. ASSUME NEW r \in Requests,
             \/ UpdatePost(r) \/ MarkFile(r) \/ Reprice(r) \/ RepriceAllowed(r) \/ Fail(r)
             \/ Comment(r) \/ IncrementParentPostCommentCount(r) \/ Sync(r) \/ SyncFlag(r)
             \/ WritePrice(r)
      PROVE  MarksInv'
  BY <1>1, <1>4 DEF UpdatePost, MarkFile, Reprice, RepriceAllowed, Fail, Comment,
                    IncrementParentPostCommentCount, Sync, SyncFlag, WritePrice
<1>5. ASSUME NEW r \in Requests, FindParentPost(r) \/ Aggregate(r) PROVE MarksInv'
  <2>1. \A s \in Requests : req'[s] = req[s] \/ req'[s].at \notin {"check", "update"}
    <3>1. CASE FindParentPost(r)
      BY <1>0, <3>1 DEF FindParentPost, RequestRecords
    <3>2. CASE Aggregate(r)
      BY <1>0, <3>2 DEF Aggregate, RequestRecords
    <3> QED BY <1>5, <3>1, <3>2
  <2>2. UNCHANGED <<marked, count, overlaps>>
    BY <1>5 DEF FindParentPost, Aggregate
  <2> QED BY <1>0, <2>1, <2>2, MarksStay
<1>6. ASSUME NEW r \in Requests, NEW u \in Users, NEW k \in Marks,
             NEW on \in {"on", "off", "toggle"}, MarkPost(r, u, k, on)
      PROVE  MarksInv'
  <2>1. /\ req'[r].at = "check" /\ req'[r].mark = k /\ req'[r].count = count[k]
        /\ \A s \in Requests \ {r} : req'[s] = req[s]
        /\ overlaps' = IF Marking(k) = {} THEN overlaps ELSE [overlaps EXCEPT ![k] = @ + 1]
        /\ UNCHANGED <<post, marked, count>>
    BY <1>0, <1>6 DEF MarkPost, Idle
  <2>0. \A j \in Marks : Drift(j)' = Drift(j)
    BY <2>1 DEF Drift
  <2> SUFFICES ASSUME NEW j \in Marks
               PROVE  /\ IsFiniteSet(Marking(j)') /\ Within(Drift(j), overlaps'[j])
                      /\ post.state # "deleted" =>
                           /\ Within(Drift(j), Slack(j)')
                           /\ \A s \in Marking(j)' :
                                Within(DriftAfter(req'[s], marked[j]), Slack(j)')
    BY <2>0, <2>1 DEF MarksInv, DriftAfter, After, Gain
  <2>2. CASE j = k
    <3>1. Marking(k)' = Marking(k) \cup {r} /\ r \notin Marking(k)
      BY <1>6, <2>1 DEF Marking, MarkPost, Idle
    <3>2. IsFiniteSet(Marking(k)) /\ Cardinality(Marking(k)) \in Nat /\ overlaps[k] \in Nat
      BY <1>0, FS_CardinalityType DEF MarksInv
    <3>3. /\ IsFiniteSet(Marking(k)')
          /\ Cardinality(Marking(k)') = Cardinality(Marking(k)) + 1
      BY <3>1, <3>2, FS_AddElement
    <3>4. overlaps'[k] = IF Marking(k) = {} THEN overlaps[k] ELSE overlaps[k] + 1
      BY <1>0, <2>1
    <3>5. Slack(k)' = Slack(k) /\ Slack(k) \in Int
      <4>1. CASE Marking(k) = {}
        BY <3>1, <3>2, <3>3, <3>4, <4>1, FS_EmptySet DEF Slack
      <4>2. CASE Marking(k) # {}
        BY <3>1, <3>2, <3>3, <3>4, <4>2 DEF Slack
      <4> QED BY <4>1, <4>2
    <3>6. Drift(k) \in Int /\ Within(Drift(k), overlaps'[k])
      BY <3>2, <3>4, DriftsAreInt, WithinMore DEF MarksInv
    <3>7. DriftAfter(req'[r], marked[k]) = Drift(k)
      <4>1. Gain(req'[r]) = 0 /\ After(req'[r], marked[k]) = marked[k] /\ count[k] \in Int
        BY <1>0, <2>1 DEF Gain, After
      <4>2. DriftAfter(req'[r], marked[k]) = (count[k] + 0) - Cardinality(marked[k])
        BY <2>1, <4>1 DEF DriftAfter
      <4>3. count[k] + 0 = count[k]
        BY <4>1
      <4> QED BY <4>2, <4>3 DEF Drift
    <3>8. \A s \in Marking(k) : req'[s] = req[s]
      BY <2>1, <3>1 DEF Marking
    <3> QED BY <2>2, <3>1, <3>3, <3>5, <3>6, <3>7, <3>8 DEF MarksInv
  <2>3. CASE j # k
    <3>1. Marking(j)' = Marking(j) /\ \A s \in Marking(j) : req'[s] = req[s]
      <4>1. r \notin Marking(j) /\ r \notin Marking(j)'
        BY <1>6, <2>1, <2>3 DEF Marking, MarkPost, Idle
      <4> QED BY <2>1, <4>1 DEF Marking
    <3>2. overlaps'[j] = overlaps[j]
      BY <1>0, <2>1, <2>3
    <3>3. Slack(j)' = Slack(j)
      BY <3>1, <3>2 DEF Slack
    <3> QED BY <3>1, <3>2, <3>3 DEF MarksInv
  <2> QED BY <2>2, <2>3
<1>7. ASSUME NEW r \in Requests, CheckMark(r) PROVE MarksInv'
  <2>1. CASE End(r)
    BY <1>1, <1>7, <2>1 DEF CheckMark
  <2>2. CASE ~End(r)
    <3> DEFINE k == req[r].mark
               before == req[r].user \in marked[k]
               to == IF before THEN "off" ELSE "on"
    <3>1. /\ req[r].at = "check" /\ req[r] \in RequestRecords
          /\ UNCHANGED <<post, marked, count, overlaps>>
      BY <1>0, <1>7 DEF CheckMark
    <3>2. req' = [req EXCEPT ![r] = [req[r] EXCEPT !.at = "update", !.on = to]]
      <4> DEFINE after == IF req[r].on = "toggle" THEN ~before ELSE req[r].on = "on"
      <4>1. /\ after # before
            /\ req' = [req EXCEPT ![r] = [req[r] EXCEPT !.at = "update",
                                                       !.on = IF after THEN "on" ELSE "off"]]
        BY <1>7, <2>2, Zenon DEF CheckMark
      <4>2. after \in BOOLEAN
        <5>1. CASE req[r].on = "toggle"
          BY <5>1
        <5>2. CASE req[r].on # "toggle"
          BY <5>2
        <5> QED BY <5>1, <5>2
      <4>3. before \in BOOLEAN
        OBVIOUS
      <4> HIDE DEF after, before
      <4>4. (IF after THEN "on" ELSE "off") = (IF before THEN "off" ELSE "on")
        BY <4>1, <4>2, <4>3
      <4> QED BY <4>1, <4>4
    <3>3. /\ req'[r].at = "update" /\ req'[r].on = to /\ req'[r].mark = k
          /\ req'[r].count = req[r].count /\ req'[r].user = req[r].user
          /\ \A s \in Requests \ {r} : req'[s] = req[s]
      BY <1>0, <3>1, <3>2 DEF RequestRecords
    <3>4. \A j \in Marks : Marking(j)' = Marking(j)
      BY <3>1, <3>3 DEF Marking
    <3> HIDE DEF to
    <3>5. to \in {"on", "off"} /\ (to = "on" <=> req[r].user \notin marked[k])
      BY DEF to
    <3>6. k = req[r].mark
      OBVIOUS
    <3> HIDE DEF k
    <3>9. \A j \in Marks : Drift(j)' = Drift(j) /\ Slack(j)' = Slack(j)
      BY <3>1, <3>4 DEF Drift, Slack
    <3> SUFFICES ASSUME NEW j \in Marks, post.state # "deleted", NEW s \in Marking(j)
                 PROVE  Within(DriftAfter(req'[s], marked[j]), Slack(j))
      BY <3>1, <3>4, <3>9 DEF MarksInv, DriftAfter, After, Gain
    <3>10. Within(DriftAfter(req[s], marked[j]), Slack(j)) /\ IsFiniteSet(marked[j])
      BY DEF MarksInv
    <3>7. CASE s = r
      <4>1. j = k
        BY <3>6, <3>7 DEF Marking
      <4>2. PICK v : v = req[r].user
        OBVIOUS
      <4>3. req[r].count \in Int
        BY <3>1 DEF RequestRecords
      <4>4. DriftAfter(req[r], marked[k]) = req[r].count - Cardinality(marked[k])
        <5>1. Gain(req[r]) = 0 /\ After(req[r], marked[k]) = marked[k]
          BY <3>1 DEF Gain, After
        <5>2. DriftAfter(req[r], marked[k]) = (req[r].count + 0) - Cardinality(marked[k])
          BY <5>1 DEF DriftAfter
        <5>3. req[r].count + 0 = req[r].count
          BY <4>3
        <5> QED BY <5>2, <5>3
      <4>5. CASE v \in marked[k]
        <5>1. to = "off"
          BY <3>5, <4>2, <4>5
        <5>2. Cardinality(marked[k]) \in Nat /\ Cardinality(marked[k] \ {v}) = Cardinality(marked[k]) - 1
          BY <3>10, <4>1, <4>5, OneUser
        <5>3. DriftAfter(req'[r], marked[k]) = (req[r].count + -1) - Cardinality(marked[k] \ {v})
          BY <3>3, <4>2, <5>1 DEF DriftAfter, Gain, After
        <5> QED BY <3>7, <3>10, <4>1, <4>3, <4>4, <5>2, <5>3
      <4>6. CASE v \notin marked[k]
        <5>1. to = "on"
          BY <3>5, <4>2, <4>6
        <5>2. Cardinality(marked[k]) \in Nat /\ Cardinality(marked[k] \cup {v}) = Cardinality(marked[k]) + 1
          BY <3>10, <4>1, <4>6, OneUser
        <5>3. DriftAfter(req'[r], marked[k]) = (req[r].count + 1) - Cardinality(marked[k] \cup {v})
          BY <3>3, <4>2, <5>1 DEF DriftAfter, Gain, After
        <5> QED BY <3>7, <3>10, <4>1, <4>3, <4>4, <5>2, <5>3
      <4> QED BY <4>5, <4>6
    <3>8. CASE s # r
      BY <3>3, <3>8, <3>10 DEF Marking
    <3> QED BY <3>7, <3>8
  <2> QED BY <2>1, <2>2
<1>8. ASSUME NEW r \in Requests, UpdateMark(r) PROVE MarksInv'
  <2> DEFINE k == req[r].mark
             S == marked[k]
  <2>1. /\ req[r].at = "update" /\ Live /\ k \in Marks /\ r \in Marking(k)
        /\ req[r].count \in Int
    BY <1>0, <1>8 DEF UpdateMark, RequestsKnow, Marking, RequestRecords
  <2>2. /\ marked' = [marked EXCEPT ![k] = After(req[r], S)]
        /\ count' = [count EXCEPT ![k] = req[r].count + Gain(req[r])]
        /\ UNCHANGED <<post, overlaps>>
    BY <1>8 DEF UpdateMark, After, Gain
  <2>3. /\ req'[r].at = "sync" /\ \A s \in Requests \ {r} : req'[s] = req[s]
    BY <1>0, <1>8 DEF UpdateMark, Idle
  <2>4. ASSUME NEW j \in Marks
        PROVE  Marking(j)' \subseteq Marking(j) \ {r} /\ \A s \in Marking(j)' : req'[s] = req[s]
    BY <2>3 DEF Marking
  <2>5. post.state # "deleted"
    BY <2>1 DEF Live
  <2>6. IsFiniteSet(After(req[r], S))
    BY <2>1, OneUser DEF MarksInv, After
  <2> HIDE DEF k
  <2> SUFFICES ASSUME NEW j \in Marks
               PROVE  /\ IsFiniteSet(marked'[j]) /\ IsFiniteSet(Marking(j)')
                      /\ Within(Drift(j)', overlaps[j]) /\ Within(Drift(j)', Slack(j)')
                      /\ \A s \in Marking(j)' :
                           Within(DriftAfter(req[s], marked'[j]), Slack(j)')
    BY <2>2, <2>4 DEF MarksInv, DriftAfter, After, Gain
  <2>7. /\ IsFiniteSet(Marking(j)') /\ Slack(j) \in Int /\ Slack(j)' \in Int
        /\ Slack(j) <= Slack(j)' /\ Slack(j)' <= overlaps[j] /\ overlaps[j] \in Int
        /\ Marking(j) \ Marking(j)' # {} /\ Marking(j)' # {} => Slack(j) + 1 <= Slack(j)'
    BY <1>0, <2>2, <2>4, SlackGrows
  <2>8. /\ \A s \in Marking(j) : Within(DriftAfter(req[s], marked[j]), Slack(j))
        /\ Within(Drift(j), Slack(j)) /\ IsFiniteSet(marked[j])
    BY <2>5 DEF MarksInv
  <2>9. Drift(j) \in Int /\ \A s \in Requests : DriftAfter(req[s], marked[j]) \in Int
    BY DriftsAreInt
  <2>10. CASE j # k
    <3>1. marked'[j] = marked[j] /\ count'[j] = count[j]
      BY <1>0, <2>2, <2>10
    <3>2. Drift(j)' = Drift(j)
      BY <3>1 DEF Drift
    <3>3. \A s \in Marking(j)' : s \in Marking(j) /\ s \in Requests
      BY <2>4 DEF Marking
    <3> QED BY <2>7, <2>8, <2>9, <3>1, <3>2, <3>3, WithinMore
  <2>11. CASE j = k
    <3>1. marked'[j] = After(req[r], S) /\ count'[j] = req[r].count + Gain(req[r]) /\ S = marked[j]
      BY <1>0, <2>1, <2>2, <2>11
    <3>2. Drift(j)' = DriftAfter(req[r], marked[j])
      <4>1. DriftAfter(req[r], S) = (req[r].count + Gain(req[r])) - Cardinality(After(req[r], S))
        BY DEF DriftAfter
      <4>2. Drift(j)' = count'[j] - Cardinality(marked'[j])
        BY DEF Drift
      <4> QED BY <3>1, <4>1, <4>2
    <3>3. Within(Drift(j)', Slack(j)') /\ Within(Drift(j)', overlaps[j])
      BY <2>1, <2>7, <2>8, <2>9, <2>11, <3>2, WithinMore
    <3>4. ASSUME NEW s \in Marking(j)'
          PROVE  Within(DriftAfter(req[s], marked'[j]), Slack(j)')
      <4>1. s \in Marking(j) /\ s \in Requests /\ req[s].count \in Int
        BY <1>0, <2>4, <3>4 DEF Marking, RequestRecords
      <4>2. Slack(j) + 1 <= Slack(j)'
        BY <2>1, <2>4, <2>7, <2>11, <3>4
      <4>3. /\ DriftAfter(req[s], marked[j]) \in Int
            /\ DriftAfter(req[s], marked'[j]) \in Int
            /\ DriftAfter(req[s], marked'[j]) - DriftAfter(req[s], marked[j]) \in -1..1
        BY <2>8, <3>1, <4>1, AnotherUpdate
      <4>4. Within(DriftAfter(req[s], marked[j]), Slack(j))
        BY <2>8, <4>1
      <4> QED BY <2>7, <4>2, <4>3, <4>4 DEF Within
    <3> QED BY <2>6, <2>7, <3>1, <3>3, <3>4
  <2> QED BY <2>10, <2>11
<1>9. CASE DeletePost
  <2>1. /\ marked' = [k \in Marks |-> {}] /\ count' = [k \in Marks |-> 0]
        /\ UNCHANGED <<req, overlaps>> /\ post'.state = "deleted"
    BY <1>9 DEF DeletePost, TypeOK, PostRecords
  <2>2. \A k \in Marks : Marking(k)' = Marking(k)
    BY <2>1 DEF Marking
  <2>3. \A k \in Marks : Drift(k)' = 0
    BY <2>1, FS_EmptySet DEF Drift
  <2>4. \A k \in Marks : Within(0, overlaps[k])
    BY <1>0 DEF Within
  <2> QED BY <2>1, <2>2, <2>3, <2>4, FS_EmptySet DEF MarksInv
<1>10. CASE \/ FileMoves \/ DeleteComment \/ FlagStep \/ SwitchFlag
            \/ \E price \in AdminPrices : AdminPatchPrice(price)
  BY <1>2, <1>10 DEF FileMoves, DeleteComment, FlagStep, SwitchFlag, AdminPatchPrice, postVars
<1>11. CASE UNCHANGED vars
  BY <1>2, <1>11 DEF vars, postVars
<1> QED BY <1>3, <1>4, <1>5, <1>6, <1>7, <1>8, <1>9, <1>10, <1>11 DEF Next
---------------------------------------------------------------------------
\* All the comments that were ever stored, and those that are not counted yet.
Written == comments + removed
Commenting == {r \in Requests : req[r].at \in {"parent", "comment"}}

\* Each of them will add one to a count that some state had, and even if all of
\* those under way do, the count is no more than the comments that were stored.
CommentsInv ==
  /\ IsFiniteSet(Commenting)
  /\ commentCount <= Written
  /\ post.state # "deleted" =>
       /\ commentCount + Cardinality(Commenting) <= Written
       /\ \A r \in Commenting :
            req[r].at = "comment" => req[r].count + Cardinality(Commenting) <= Written

\* A step that comments nothing keeps this, whatever comments it ends.
LEMMA CommentsStay ==
  ASSUME TypeOK, RequestsKnow, CommentsInv, UNCHANGED <<comments, commentCount, removed>>,
         \A s \in Requests : req'[s] = req[s] \/ req'[s].at \notin {"parent", "comment"},
         post'.state # "deleted" => post.state # "deleted"
  PROVE  CommentsInv'
<1>0. UNCHANGED Written
  BY DEF Written
<1>1. Commenting' \subseteq Commenting /\ \A s \in Commenting' : req'[s] = req[s]
  BY DEF Commenting
<1>2. /\ IsFiniteSet(Commenting') /\ Cardinality(Commenting') <= Cardinality(Commenting)
      /\ Cardinality(Commenting) \in Nat /\ Cardinality(Commenting') \in Nat
  BY <1>1, FS_Subset, FS_CardinalityType DEF CommentsInv
<1>3. Written \in Nat /\ commentCount \in Nat
      /\ \A s \in Commenting : req[s].at = "comment" => req[s].count \in Nat
  BY DEF TypeOK, RequestsKnow, Commenting, Written
<1> QED BY <1>0, <1>1, <1>2, <1>3 DEF CommentsInv

\* No step counts a comment that is not stored, or counts one twice.
LEMMA CommentsStep ==
  ASSUME TypeOK, RequestsKnow, CommentsInv, [Next]_vars
  PROVE  CommentsInv'
<1>0. /\ req \in [Requests -> RequestRecords] /\ Written \in Nat /\ commentCount \in Nat
      /\ comments \in Nat /\ removed \in Nat
      /\ post'.state # "deleted" => post.state # "deleted"
      /\ \A s \in Requests : req[s].at = "comment" => req[s].count \in Nat
      /\ Cardinality(Commenting) \in Nat /\ IsFiniteSet(Commenting)
  BY StateMoves, FS_CardinalityType DEF TypeOK, RequestsKnow, CommentsInv, Written
<1>1. ASSUME NEW r \in Requests,
             \/ \E at : at \notin {"parent", "comment"} /\ (Goto(r, at) \/ Begin(r, at))
             \/ End(r),
             UNCHANGED <<comments, commentCount, removed>>
      PROVE  CommentsInv'
  <2>1. \A s \in Requests : req'[s] = req[s] \/ req'[s].at \notin {"parent", "comment"}
    BY <1>1, RequestMoves
  <2> QED BY <1>0, <1>1, <2>1, CommentsStay
<1>2. ASSUME UNCHANGED <<req, comments, commentCount, removed>> PROVE CommentsInv'
  BY <1>0, <1>2, CommentsStay
<1>3. ASSUME NEW r \in Requests, NEW monetized \in BOOLEAN, NEW video \in BOOLEAN,
             CreatePost(r, monetized, video)
      PROVE  CommentsInv'
  BY <1>1, <1>3 DEF CreatePost
<1>4. ASSUME NEW r \in Requests,
             \/ UpdatePost(r) \/ MarkFile(r) \/ Reprice(r) \/ RepriceAllowed(r) \/ Fail(r)
             \/ Sync(r) \/ SyncFlag(r) \/ WritePrice(r)
      PROVE  CommentsInv'
  BY <1>1, <1>4 DEF UpdatePost, MarkFile, Reprice, RepriceAllowed, Fail, Sync, SyncFlag,
                    WritePrice
<1>5. ASSUME NEW r \in Requests, CheckMark(r) \/ UpdateMark(r) \/ Aggregate(r)
      PROVE  CommentsInv'
  <2>1. UNCHANGED <<comments, commentCount, removed>>
    BY <1>5 DEF CheckMark, UpdateMark, Aggregate
  <2>2. CASE CheckMark(r)
    <3>1. CASE End(r)
      BY <1>1, <2>1, <3>1
    <3>2. CASE ~End(r)
      <4>1. \E on \in {"on", "off"} :
              req' = [req EXCEPT ![r] = [req[r] EXCEPT !.at = "update", !.on = on]]
        BY <2>2, <3>2 DEF CheckMark
      <4>2. \A s \in Requests : req'[s] = req[s] \/ req'[s].at \notin {"parent", "comment"}
        BY <1>0, <4>1 DEF RequestRecords
      <4> QED BY <1>0, <2>1, <4>2, CommentsStay
    <3> QED BY <3>1, <3>2
  <2>3. CASE UpdateMark(r)
    <3>1. \A s \in Requests : req'[s] = req[s] \/ req'[s].at \notin {"parent", "comment"}
      BY <1>0, <2>3 DEF UpdateMark, Idle
    <3> QED BY <1>0, <2>1, <3>1, CommentsStay
  <2>4. CASE Aggregate(r)
    <3>1. \A s \in Requests : req'[s] = req[s] \/ req'[s].at \notin {"parent", "comment"}
      BY <1>0, <2>4 DEF Aggregate, RequestRecords
    <3> QED BY <1>0, <2>1, <3>1, CommentsStay
  <2> QED BY <1>5, <2>2, <2>3, <2>4
<1>6. ASSUME NEW r \in Requests, NEW u \in Users, NEW k \in Marks,
             NEW on \in {"on", "off", "toggle"}, MarkPost(r, u, k, on)
      PROVE  CommentsInv'
  <2>1. \A s \in Requests : req'[s] = req[s] \/ req'[s].at \notin {"parent", "comment"}
    BY <1>0, <1>6 DEF MarkPost, Idle
  <2>2. UNCHANGED <<comments, commentCount, removed>>
    BY <1>6 DEF MarkPost
  <2> QED BY <1>0, <2>1, <2>2, CommentsStay
<1>7. ASSUME NEW r \in Requests, Comment(r) PROVE CommentsInv'
  <2>1. /\ req[r].at = "idle" /\ req'[r].at = "parent"
        /\ \A s \in Requests \ {r} : req'[s] = req[s]
    BY <1>7, RequestMoves DEF Comment
  <2>2. Written' = Written + 1 /\ UNCHANGED <<post, commentCount>> /\ Live
    BY <1>0, <1>7 DEF Comment, Written
  <2>3. Commenting' = Commenting \cup {r} /\ r \notin Commenting
    BY <2>1 DEF Commenting
  <2>4. IsFiniteSet(Commenting') /\ Cardinality(Commenting') = Cardinality(Commenting) + 1
    BY <1>0, <2>3, FS_AddElement
  <2>5. \A s \in Commenting' : req'[s].at = "comment" => s \in Commenting /\ req'[s] = req[s]
    BY <2>1 DEF Commenting
  <2>6. \A s \in Commenting : req[s].at = "comment" => req[s].count \in Nat
    BY <1>0 DEF Commenting
  <2> QED BY <1>0, <2>2, <2>4, <2>5, <2>6 DEF CommentsInv, Live
<1>8. ASSUME NEW r \in Requests, FindParentPost(r) PROVE CommentsInv'
  <2>1. /\ req[r].at = "parent" /\ req'[r].at = "comment" /\ req'[r].count = commentCount
        /\ \A s \in Requests \ {r} : req'[s] = req[s]
    BY <1>0, <1>8 DEF FindParentPost, RequestRecords
  <2>2. UNCHANGED <<post, Written, commentCount>> /\ Live
    BY <1>8 DEF FindParentPost, Written
  <2>3. Commenting' = Commenting
    BY <2>1 DEF Commenting
  <2>4. \A s \in Commenting : s = r \/ req'[s] = req[s]
    BY <2>1 DEF Commenting
  <2> QED BY <1>0, <2>1, <2>2, <2>3, <2>4 DEF CommentsInv, Live
<1>9. ASSUME NEW r \in Requests, IncrementParentPostCommentCount(r) PROVE CommentsInv'
  <2>1. req'[r].at = "idle" /\ \A s \in Requests \ {r} : req'[s] = req[s]
    BY <1>9, RequestMoves DEF IncrementParentPostCommentCount
  <2>2. /\ req[r].at = "comment" /\ req[r].count \in Nat /\ Live
        /\ commentCount' = req[r].count + 1 /\ UNCHANGED <<post, Written>>
    BY <1>0, <1>9 DEF IncrementParentPostCommentCount, Written
  <2>3. Commenting' = Commenting \ {r} /\ r \in Commenting
    BY <2>1, <2>2 DEF Commenting
  <2>4. IsFiniteSet(Commenting') /\ Cardinality(Commenting') = Cardinality(Commenting) - 1
    BY <1>0, <2>3, FS_RemoveElement
  <2>5. Cardinality(Commenting) # 0
    BY <1>0, <2>3, FS_EmptySet
  <2>6. \A s \in Commenting' : s \in Commenting /\ req'[s] = req[s]
    BY <2>1 DEF Commenting
  <2>7. \A s \in Commenting : req[s].at = "comment" => req[s].count \in Nat
    BY <1>0 DEF Commenting
  <2>8. /\ req[r].count + Cardinality(Commenting) <= Written
        /\ \A s \in Commenting :
             req[s].at = "comment" => req[s].count + Cardinality(Commenting) <= Written
    BY <2>2, <2>3 DEF CommentsInv, Live
  <2>9. commentCount' + Cardinality(Commenting') <= Written' /\ commentCount' <= Written'
    BY <1>0, <2>2, <2>4, <2>5, <2>8
  <2>10. \A s \in Commenting' :
           req'[s].at = "comment" => req'[s].count + Cardinality(Commenting') <= Written'
    BY <1>0, <2>2, <2>4, <2>6, <2>7, <2>8
  <2> QED BY <2>4, <2>9, <2>10 DEF CommentsInv
<1>10. CASE DeletePost
  <2>1. /\ Written' = 0 /\ commentCount' = 0 /\ UNCHANGED req /\ post'.state = "deleted"
    BY <1>10 DEF DeletePost, TypeOK, PostRecords, Written
  <2> QED BY <2>1 DEF CommentsInv, Commenting
<1>11. CASE \/ FileMoves \/ FlagStep \/ SwitchFlag
            \/ \E price \in AdminPrices : AdminPatchPrice(price)
  BY <1>2, <1>11 DEF FileMoves, FlagStep, SwitchFlag, AdminPatchPrice, postVars
<1>12. CASE DeleteComment
  <2>1. UNCHANGED <<req, post, commentCount, Written>>
    BY <1>0, <1>12 DEF DeleteComment, Written
  <2> QED BY <1>0, <2>1 DEF CommentsInv, Commenting
<1>13. CASE UNCHANGED vars
  BY <1>2, <1>13 DEF vars, postVars
<1> QED
  BY <1>3, <1>4, <1>5, <1>6, <1>7, <1>8, <1>9, <1>10, <1>11, <1>12, <1>13 DEF Next

\* However requests to mark and to comment interleave, fail and are sent again, the
\* count of a mark is no further from the users who set it than the requests for it
\* that began while another one was under way; and no comment is counted twice, also
\* when comments are deleted.
THEOREM PostCountsTrack == Spec => []CountsTrack
<1>1. Init => FlagInv /\ PostsTyped
  BY PostsInitTyped, FlagInitInv DEF Init
<1>2. Init => MarksInv
  <2> SUFFICES ASSUME Init PROVE MarksInv
    OBVIOUS
  <2>1. \A k \in Marks : Marking(k) = {} /\ marked[k] = {} /\ count[k] = 0 /\ overlaps[k] = 0
    BY DEF Init, Marking, Idle
  <2>2. \A k \in Marks : Drift(k) = 0 /\ Slack(k) = 0
    BY <2>1, FS_EmptySet DEF Drift, Slack
  <2>3. Within(0, 0)
    BY DEF Within
  <2> QED BY <2>1, <2>2, <2>3, FS_EmptySet DEF MarksInv
<1>3. Init => CommentsInv
  <2> SUFFICES ASSUME Init PROVE CommentsInv
    OBVIOUS
  <2>1. Commenting = {}
    BY DEF Init, Commenting, Idle
  <2> QED BY <2>1, FS_EmptySet DEF Init, CommentsInv, Written
<1>4. FlagInv /\ PostsTyped /\ MarksInv /\ CommentsInv /\ [Next]_vars
        => (FlagInv /\ PostsTyped /\ MarksInv /\ CommentsInv)'
  BY PostsStepTyped, RequestsKnowStep, StepOfFlag, FlagNextInv, MarksStep, CommentsStep
     DEF PostsTyped
<1>5. PostsTyped /\ MarksInv /\ CommentsInv => CountsTrack
  <2> SUFFICES ASSUME TypeOK, MarksInv, CommentsInv PROVE CountsTrack
    BY DEF PostsTyped
  <2>1. ASSUME NEW k \in Marks
        PROVE  count[k] - Cardinality(marked[k]) \in -overlaps[k] .. overlaps[k]
    <3>1. Drift(k) \in Int /\ overlaps[k] \in Nat /\ Within(Drift(k), overlaps[k])
      BY DriftsAreInt DEF TypeOK, MarksInv
    <3> QED BY <3>1 DEF Within, Drift
  <2> QED BY <2>1 DEF CommentsInv, Written, CountsTrack
<1> QED BY <1>1, <1>2, <1>3, <1>4, <1>5, PTL DEF Spec
---------------------------------------------------------------------------
\* Why a price computed from the metadata stays: what a pricing found was there,
\* metadata are never lost, a file that is UPLOADED is not cleaned up, and no
\* pricing under way has missed them.
PricingInv ==
  /\ post.state = "new" => \A r \in Requests : req[r].at = "idle"
  /\ \A r \in Requests :
       /\ req[r].at # "write" => req[r].price = 0
       /\ req[r].at \in {"flag", "videos"} => post.monetized
       /\ req[r].at = "write" /\ req[r].price # 0 => post.monetized /\ post.video /\ file.known
  /\ solid => /\ Live /\ post.price > 0 /\ post.monetized /\ post.video
              /\ file.known /\ file.status = "UPLOADED"
              /\ \A r \in Requests : req[r].at = "write" => req[r].price # 0

\* A step that prices nothing keeps this, as long as the file is kept.
LEMMA PricingStays ==
  ASSUME TypeOK, PricingInv, UNCHANGED <<post, solid>>,
         file.known => file'.known, file.status = "UPLOADED" => file'.status = "UPLOADED",
         post.state = "new" => \A s \in Requests : req'[s].at = "idle",
         \A s \in Requests :
           \/ req'[s] = req[s]
           \/ req'[s].at \notin {"flag", "videos", "write"} /\ req'[s].price = 0
  PROVE  PricingInv'
BY DEF PricingInv, Live

\* Each step keeps the price of a post that has been priced for good.
LEMMA PricingStep ==
  ASSUME TypeOK, PricingInv, [Next]_vars
  PROVE  PricingInv'
<1>0. /\ req \in [Requests -> RequestRecords] /\ post \in PostRecords /\ file \in FileRecords
      /\ AutoPrice \in Nat \ {0} /\ AdminPrices \subseteq Nat /\ solid \in BOOLEAN
  BY PostAssumption DEF TypeOK
<1>1. ASSUME NEW r \in Requests,
             \/ \E at : /\ at \notin {"flag", "videos", "write"}
                        /\ req[r].at # "write"
                        /\ \/ Goto(r, at) /\ req[r].at # "idle"
                           \/ Begin(r, at) /\ Live
             \/ End(r),
             UNCHANGED <<post, solid>>,
             file.known => file'.known, file.status = "UPLOADED" => file'.status = "UPLOADED"
      PROVE  PricingInv'
  <2>1. \A s \in Requests :
           \/ req'[s] = req[s]
           \/ req'[s].at \notin {"flag", "videos", "write"} /\ req'[s].price = 0
    BY <1>1, RequestMoves DEF PricingInv
  <2>2. post.state = "new" => \A s \in Requests : req'[s].at = "idle"
    BY <1>1, RequestMoves DEF PricingInv, Live
  <2> QED BY <1>1, <2>1, <2>2, PricingStays
<1>2. ASSUME UNCHANGED <<req, post, solid>>,
             file.known => file'.known, file.status = "UPLOADED" => file'.status = "UPLOADED"
      PROVE  PricingInv'
  BY <1>2, PricingStays DEF PricingInv
<1>3. ASSUME NEW r \in Requests, NEW monetized \in BOOLEAN, NEW video \in BOOLEAN,
             CreatePost(r, monetized, video)
      PROVE  PricingInv'
  <2>1. /\ \A s \in Requests : req[s].at = "idle" /\ req[s].price = 0
        /\ ~solid
    BY <1>3 DEF CreatePost, PricingInv, Live
  <2>2. /\ req'[r].at \in {"file", "sync"} /\ req'[r].price = 0
        /\ \A s \in Requests \ {r} : req'[s] = req[s]
    BY <1>3, RequestMoves DEF CreatePost
  <2>3. post'.state = "live" /\ UNCHANGED solid
    BY <1>3 DEF CreatePost
  <2> QED BY <2>1, <2>2, <2>3 DEF PricingInv
<1>4. ASSUME NEW r \in Requests,
             UpdatePost(r) \/ Reprice(r) \/ Comment(r)
      PROVE  PricingInv'
  <2>1. req[r].at # "write"
    BY <1>4, RequestMoves DEF UpdatePost, Reprice, Comment
  <2> QED BY <1>1, <1>4, <2>1 DEF UpdatePost, Reprice, Comment
<1>5. ASSUME NEW r \in Requests, RepriceAllowed(r) \/ Fail(r) \/ IncrementParentPostCommentCount(r)
      PROVE  PricingInv'
  BY <1>1, <1>5 DEF RepriceAllowed, Fail, IncrementParentPostCommentCount
<1>6. ASSUME NEW r \in Requests, MarkFile(r) PROVE PricingInv'
  <2>1. (file.known => file'.known) /\ file'.status = "UPLOADED"
    BY <1>0, <1>6 DEF MarkFile, FileRecords
  <2> QED BY <1>1, <1>6, <2>1 DEF MarkFile
<1>7. ASSUME NEW r \in Requests, NEW u \in Users, NEW k \in Marks,
             NEW on \in {"on", "off", "toggle"}, MarkPost(r, u, k, on)
      PROVE  PricingInv'
  <2>1. \A s \in Requests :
           \/ req'[s] = req[s]
           \/ req'[s].at \notin {"flag", "videos", "write"} /\ req'[s].price = 0
    BY <1>0, <1>7 DEF MarkPost, Idle
  <2>2. UNCHANGED <<post, solid, file>> /\ post.state # "new"
    BY <1>7 DEF MarkPost, Live
  <2> QED BY <2>1, <2>2, PricingStays
<1>8. ASSUME NEW r \in Requests, CheckMark(r) \/ UpdateMark(r) \/ FindParentPost(r)
      PROVE  PricingInv'
  <2>1. UNCHANGED <<post, solid, file>> /\ post.state # "new" /\ req[r].price = 0
    BY <1>8 DEF CheckMark, UpdateMark, FindParentPost, PricingInv, Live
  <2>2. \/ End(r)
        \/ \E on \in {"on", "off"} :
             req' = [req EXCEPT ![r] = [req[r] EXCEPT !.at = "update", !.on = on]]
        \/ req' = [req EXCEPT ![r] = [Idle EXCEPT !.at = "sync"]]
        \/ req' = [req EXCEPT ![r] = [req[r] EXCEPT !.at = "comment", !.count = commentCount]]
    <3>1. CASE CheckMark(r)
      BY <3>1 DEF CheckMark
    <3>2. CASE UpdateMark(r) \/ FindParentPost(r)
      BY <3>2 DEF UpdateMark, FindParentPost
    <3> QED BY <1>8, <3>1, <3>2
  <2>3. \A s \in Requests :
           \/ req'[s] = req[s]
           \/ req'[s].at \notin {"flag", "videos", "write"} /\ req'[s].price = 0
    <3>1. req[r] \in RequestRecords
      BY <1>0
    <3>2. CASE End(r)
      BY <3>2, RequestMoves
    <3>3. CASE \E on \in {"on", "off"} :
                 req' = [req EXCEPT ![r] = [req[r] EXCEPT !.at = "update", !.on = on]]
      BY <1>0, <2>1, <3>1, <3>3 DEF RequestRecords
    <3>4. CASE req' = [req EXCEPT ![r] = [Idle EXCEPT !.at = "sync"]]
      BY <1>0, <3>4 DEF Idle
    <3>5. CASE req' = [req EXCEPT ![r] = [req[r] EXCEPT !.at = "comment", !.count = commentCount]]
      BY <1>0, <2>1, <3>1, <3>5 DEF RequestRecords
    <3> QED BY <2>2, <3>2, <3>3, <3>4, <3>5
  <2> QED BY <2>1, <2>3, PricingStays
<1>9. ASSUME NEW r \in Requests, Sync(r) PROVE PricingInv'
  <2>1. CASE ~Live
    BY <1>1, <1>9, <2>1 DEF Sync
  <2>2. CASE Live
    <3>1. /\ req[r].at = "sync" /\ req[r].price = 0 /\ UNCHANGED <<post, file, solid>>
          /\ req'[r].at = IF post.monetized THEN "flag" ELSE "write"
          /\ req'[r].price = 0 /\ \A s \in Requests \ {r} : req'[s] = req[s]
      BY <1>9, <2>2, RequestMoves DEF Sync, PricingInv
    <3> QED BY <2>2, <3>1 DEF PricingInv, Live
  <2> QED BY <2>1, <2>2
<1>10. ASSUME NEW r \in Requests, SyncFlag(r) PROVE PricingInv'
  <2>1. CASE ask[r].value = "on"
    <3>1. /\ req[r].at = "flag" /\ req[r].price = 0 /\ UNCHANGED <<post, file, solid>>
          /\ req'[r].at = "videos" /\ req'[r].price = 0
          /\ \A s \in Requests \ {r} : req'[s] = req[s]
      BY <1>10, <2>1, RequestMoves DEF SyncFlag, PricingInv
    <3> QED BY <3>1 DEF PricingInv, Live
  <2>2. CASE ask[r].value # "on"
    BY <1>1, <1>10, <2>2 DEF SyncFlag
  <2> QED BY <2>1, <2>2
<1>11. ASSUME NEW r \in Requests, Aggregate(r) PROVE PricingInv'
  <2>1. PICK found \in BOOLEAN :
          /\ found => post.video
          /\ post.video /\ file.status # "DELETED" /\ file.known => found
          /\ req' = [req EXCEPT ![r] = [req[r] EXCEPT !.at = "write",
                                                   !.price = IF found THEN AutoPrice ELSE 0]]
          /\ file' = [file EXCEPT !.known = file.known \/ found]
    BY <1>0, <1>11 DEF Aggregate
  <2>2. /\ req[r].at = "videos" /\ post.monetized /\ UNCHANGED <<post, solid>>
    BY <1>11 DEF Aggregate, PricingInv
  <2>3. /\ req'[r].at = "write" /\ req'[r].price = (IF found THEN AutoPrice ELSE 0)
        /\ \A s \in Requests \ {r} : req'[s] = req[s]
    BY <1>0, <2>1 DEF RequestRecords
  <2>4. /\ file'.status = file.status /\ (file.known \/ found => file'.known)
    BY <1>0, <2>1 DEF FileRecords
  <2> QED BY <1>0, <2>1, <2>2, <2>3, <2>4 DEF PricingInv, Live
<1>12. ASSUME NEW r \in Requests, WritePrice(r) PROVE PricingInv'
  <2>1. /\ req'[r].at = "idle" /\ req'[r].price = 0
        /\ \A s \in Requests \ {r} : req'[s] = req[s]
    BY <1>12, RequestMoves DEF WritePrice
  <2>2. /\ post'.state = "live" /\ post'.price = req[r].price
        /\ post'.monetized = post.monetized /\ post'.video = post.video /\ UNCHANGED file
        /\ req[r].at = "write" /\ req[r].price \in Nat
    BY <1>0, <1>12 DEF WritePrice, PostRecords, Live, RequestRecords
  <2>3. solid' => /\ req[r].price # 0 /\ post.monetized /\ post.video /\ file.known
                  /\ file.status = "UPLOADED"
                  /\ \A s \in Requests : req[s].at = "write" => req[s].price # 0
    BY <1>12, <2>2 DEF WritePrice, PricingInv, Missed
  <2> QED BY <2>1, <2>2, <2>3 DEF PricingInv, Live
<1>13. ASSUME NEW price \in AdminPrices, AdminPatchPrice(price) PROVE PricingInv'
  <2>1. /\ post'.state = "live" /\ post.state = "live" /\ post'.price = price
        /\ post'.monetized = post.monetized /\ post'.video = post.video
        /\ UNCHANGED <<req, file>> /\ solid' = (solid /\ price > 0)
    BY <1>0, <1>13 DEF AdminPatchPrice, PostRecords, Live
  <2> QED BY <2>1 DEF PricingInv, Live
<1>14. CASE DeletePost
  <2>1. /\ post'.state = "deleted" /\ post'.monetized = post.monetized
        /\ post'.video = post.video /\ UNCHANGED <<req, file>> /\ ~solid'
    BY <1>0, <1>14 DEF DeletePost, PostRecords
  <2> QED BY <2>1 DEF PricingInv
<1>15. CASE FileMoves
  <2>1. (file.known => file'.known) /\ (file.status = "UPLOADED" => file'.status = "UPLOADED")
    BY <1>0, <1>15 DEF FileMoves, FileRecords
  <2> QED BY <1>2, <1>15, <2>1 DEF FileMoves
<1>16. CASE DeleteComment \/ FlagStep \/ SwitchFlag
  BY <1>2, <1>16 DEF DeleteComment, FlagStep, SwitchFlag, postVars
<1>17. CASE UNCHANGED vars
  BY <1>2, <1>17 DEF vars, postVars
<1> QED
  BY <1>3, <1>4, <1>5, <1>6, <1>7, <1>8, <1>9, <1>10, <1>11, <1>12, <1>13, <1>14, <1>15,
     <1>16, <1>17 DEF Next

\* A post priced from the metadata of its videos has a price from then on, however
\* requests, probes, transcodes, clean-ups and switches of the flag interleave,
\* until an admin clears it.
THEOREM PricesStay == Spec => []PricedStaysPriced
<1>1. Init => PricingInv
  BY DEF Init, PricingInv, Idle
<1>2. TypeOK /\ PricingInv /\ [Next]_vars => PricingInv'
  BY PricingStep
<1>3. PricingInv => PricedStaysPriced
  BY DEF PricingInv, PricedStaysPriced
<1> QED BY <1>1, <1>2, <1>3, PostsTypeCorrect, PTL DEF Spec
=============================================================================
