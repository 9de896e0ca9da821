------------------------------------ MODULE Posts ------------------------------------
(***************************************************************************)
(* One post (src/src/post/post.service.ts): its likes, bookmarks and       *)
(* comments with their counts, and its coin price, which every update of   *)
(* the post computes again (syncMonetizationPricingToDb) while the flag    *)
(* coins.autoPricing is on, and which an admin may set by hand             *)
(* (src/src/admin/admin-posts.controller.ts).                              *)
(*                                                                         *)
(* A request is a chain of awaits on the database, any of which may throw; *)
(* what it read before is used after.  FeatureFlags is a part of it: the   *)
(* callers that ask for the flag are these requests.                       *)
(***************************************************************************)
EXTENDS FeatureFlags, Integers, FiniteSets

CONSTANTS
  Users,
  Marks,         \* like and bookmark
  AutoPrice,     \* the price computeCostMinorForPost gives for the videos
  AdminPrices,   \* prices an admin may set; 0 also stands for null
  None,
  MaxRequests    \* bound: requests begun

Requests == Callers

ASSUME PostAssumption ==
  /\ AutoPrice \in Nat \ {0} /\ AdminPrices \subseteq Nat /\ MaxRequests \in Nat
  /\ None \notin Users \cup Marks \cup AdminPrices

VARIABLES
  post,       \* the row: not created, live or deleted; monetized, has a video, price
  marked, count,           \* likedBy and bookmarkedBy, likeCount and bookmarkCount
  comments, commentCount,  \* comments stored, and the count of the post
  removed,    \* history: comments of the post that were deleted
  file,       \* its video: the status, metadata persisted, bytes on disk
  req,        \* the requests under way
  begun,
  overlaps,   \* history: requests for each mark that began while another one for
              \* it was under way
  override,   \* the price an admin set while nothing could compute it again
  solid       \* the price was computed from the metadata, and nothing that had
              \* missed them was under way

postVars == <<post, marked, count, comments, commentCount, removed, file, req, begun,
              overlaps, override, solid>>
vars == <<flagVars, postVars>>

Live == post.state = "live"
Idle == [at |-> "idle", user |-> None, mark |-> None, on |-> "toggle", count |-> 0, price |-> 0]

PostRecords ==
  [state: {"new", "live", "deleted"}, monetized: BOOLEAN, video: BOOLEAN,
   price: {0, AutoPrice} \cup AdminPrices]

FileRecords ==
  [status: {"PENDING", "UPLOADED", "DELETED"}, known: BOOLEAN, bytes: BOOLEAN]

RequestRecords ==
  [at: {"idle", "check", "update", "file", "sync", "reprice", "flag", "videos", "write",
        "parent", "comment"},
   user: Users \cup {None}, mark: Marks \cup {None}, on: {"on", "off", "toggle"},
   count: Int, price: {0, AutoPrice}]

TypeOK ==
  /\ FlagTypeOK
  /\ post \in PostRecords
  /\ marked \in [Marks -> SUBSET Users] /\ count \in [Marks -> Int]
  /\ comments \in Nat /\ commentCount \in Nat /\ removed \in Nat
  /\ file \in FileRecords
  /\ req \in [Requests -> RequestRecords]
  /\ begun \in 0..MaxRequests
  /\ overlaps \in [Marks -> Nat]
  /\ override \in AdminPrices \cup {None} /\ solid \in BOOLEAN

Init ==
  /\ FlagInit
  /\ post = [state |-> "new", monetized |-> FALSE, video |-> FALSE, price |-> 0]
  /\ marked = [k \in Marks |-> {}] /\ count = [k \in Marks |-> 0]
  /\ comments = 0 /\ commentCount = 0 /\ removed = 0
  /\ file = [status |-> "PENDING", known |-> FALSE, bytes |-> TRUE]
  /\ req = [r \in Requests |-> Idle]
  /\ begun = 0 /\ overlaps = [k \in Marks |-> 0]
  /\ override = None /\ solid = FALSE

---------------------------------------------------------------------------
(* Requests.                                                               *)

Begin(r, first) ==
  /\ req[r] = Idle /\ begun < MaxRequests
  /\ req' = [req EXCEPT ![r] = [Idle EXCEPT !.at = first]]
  /\ begun' = begun + 1

Goto(r, label) == req' = [req EXCEPT ![r].at = label]
End(r) == req' = [req EXCEPT ![r] = Idle]

\* createPost: the row is stored before its files are marked, and whatever
\* throws from there on leaves it.
CreatePost(r, monetized, video) ==
  /\ post.state = "new" /\ (video => file.status # "DELETED")
  /\ Begin(r, IF video THEN "file" ELSE "sync")
  /\ post' = [state |-> "live", monetized |-> monetized, video |-> video, price |-> 0]
  /\ UNCHANGED <<flagVars, marked, count, comments, commentCount, removed, file, overlaps,
                 override, solid>>

MarkFile(r) ==
  /\ req[r].at = "file"
  /\ Goto(r, "sync") /\ file' = [file EXCEPT !.status = "UPLOADED"]
  /\ UNCHANGED <<flagVars, post, marked, count, comments, commentCount, removed, begun,
                 overlaps, override, solid>>

\* publishPost, and an admin's patch of published: updatePost, of which only the
\* pricing matters here.
UpdatePost(r) ==
  /\ Live
  /\ Begin(r, "sync")
  /\ UNCHANGED <<flagVars, post, marked, count, comments, commentCount, removed, file,
                 overlaps, override, solid>>

\* reprice of the admin controller; its guard asks for the flag first.
Reprice(r) ==
  /\ Live /\ post.video
  /\ Begin(r, "reprice")
  /\ UNCHANGED <<flagVars, post, marked, count, comments, commentCount, removed, file,
                 overlaps, override, solid>>

RepriceAllowed(r) ==
  /\ req[r].at = "reprice" /\ ask[r].at = "told"
  /\ IF ask[r].value = "on" THEN Goto(r, "sync") ELSE End(r)
  /\ Forget(r)
  /\ UNCHANGED <<post, marked, count, comments, commentCount, removed, file, begun,
                 overlaps, override, solid>>

\* An await throws, or the process ends.
Fail(r) ==
  /\ req[r] # Idle
  /\ End(r) /\ Forget(r)
  /\ UNCHANGED <<post, marked, count, comments, commentCount, removed, file, begun,
                 overlaps, override, solid>>

---------------------------------------------------------------------------
(* likePost and bookmarkPost.                                              *)

Marking(k) == {r \in Requests : req[r].mark = k /\ req[r].at \in {"check", "update"}}

\* The post is read with its count ...
MarkPost(r, u, k, on) ==
  /\ Live /\ req[r] = Idle /\ begun < MaxRequests
  /\ req' = [req EXCEPT ![r] = [Idle EXCEPT !.at = "check", !.user = u, !.mark = k,
                                           !.on = on, !.count = count[k]]]
  /\ begun' = begun + 1
  /\ overlaps' = IF Marking(k) = {} THEN overlaps ELSE [overlaps EXCEPT ![k] = @ + 1]
  /\ UNCHANGED <<flagVars, post, marked, count, comments, commentCount, removed, file,
                 override, solid>>

\* Mutant: the request goes on whether or not there is anything to change.
CheckMarkAlways(r) ==
  /\ req[r].at = "check" /\ Live
  /\ LET before == req[r].user \in marked[req[r].mark]
         after == IF req[r].on = "toggle" THEN ~before ELSE req[r].on = "on"
     IN req' = [req EXCEPT ![r] = [@ EXCEPT !.at = "update",
                                               !.on = IF after THEN "on" ELSE "off"]]
  /\ UNCHANGED <<flagVars, post, marked, count, comments, commentCount, removed, file,
                 begun, overlaps, override, solid>>

\* ... and once more with the users who marked it, ...
CheckMark(r) ==
  /\ req[r].at = "check" /\ Live
  /\ LET before == req[r].user \in marked[req[r].mark]
         after == IF req[r].on = "toggle" THEN ~before ELSE req[r].on = "on"
     IN IF after = before
        THEN End(r)
        ELSE req' = [req EXCEPT ![r] = [@ EXCEPT !.at = "update",
                                               !.on = IF after THEN "on" ELSE "off"]]
  /\ UNCHANGED <<flagVars, post, marked, count, comments, commentCount, removed, file,
                 begun, overlaps, override, solid>>

\* ... before one update writes the user and the count that was read.
UpdateMark(r) ==
  /\ req[r].at = "update" /\ Live
  /\ LET k == req[r].mark
         on == req[r].on = "on"
     IN /\ marked' = [marked EXCEPT ![k] = IF on THEN @ \cup {req[r].user}
                                            ELSE @ \ {req[r].user}]
        /\ count' = [count EXCEPT ![k] = req[r].count + (IF on THEN 1 ELSE -1)]
  /\ req' = [req EXCEPT ![r] = [Idle EXCEPT !.at = "sync"]]
  /\ UNCHANGED <<flagVars, post, comments, commentCount, removed, file, begun, overlaps,
                 override, solid>>

---------------------------------------------------------------------------
(* A comment on the post: createPost of another one, which is stored first, *)
(* and the count read and written after.                                   *)

Comment(r) ==
  /\ Live
  /\ Begin(r, "parent")
  /\ comments' = comments + 1
  /\ UNCHANGED <<flagVars, post, marked, count, commentCount, removed, file, overlaps,
                 override, solid>>

FindParentPost(r) ==
  /\ req[r].at = "parent" /\ Live
  /\ req' = [req EXCEPT ![r] = [@ EXCEPT !.at = "comment", !.count = commentCount]]
  /\ UNCHANGED <<flagVars, post, marked, count, comments, commentCount, removed, file,
                 begun, overlaps, override, solid>>

IncrementParentPostCommentCount(r) ==
  /\ req[r].at = "comment" /\ Live
  /\ commentCount' = req[r].count + 1
  /\ End(r)
  /\ UNCHANGED <<flagVars, post, marked, count, comments, removed, file, begun, overlaps,
                 override, solid>>

---------------------------------------------------------------------------
(* syncMonetizationPricingToDb, after every update of the post.            *)

\* The price of a post that is not monetized is cleared, and that of another
\* one computed if the flag is on.
Sync(r) ==
  /\ req[r].at = "sync"
  /\ IF ~Live THEN End(r)
     ELSE Goto(r, IF post.monetized THEN "flag" ELSE "write")
  /\ UNCHANGED <<flagVars, post, marked, count, comments, commentCount, removed, file,
                 begun, overlaps, override, solid>>

\* Mutant: the flag is not looked at.
SyncFlagIgnored(r) ==
  /\ req[r].at = "flag" /\ ask[r].at = "told"
  /\ Goto(r, "videos")
  /\ Forget(r)
  /\ UNCHANGED <<post, marked, count, comments, commentCount, removed, file, begun,
                 overlaps, override, solid>>

SyncFlag(r) ==
  /\ req[r].at = "flag" /\ ask[r].at = "told"
  /\ IF ask[r].value = "on" THEN Goto(r, "videos") ELSE End(r)
  /\ Forget(r)
  /\ UNCHANGED <<post, marked, count, comments, commentCount, removed, file, begun,
                 overlaps, override, solid>>

\* Mutant: the video is probed again each time.
AggregateProbing(r) ==
  /\ req[r].at = "videos"
  /\ \E probed \in {p \in BOOLEAN : p => file.bytes} :
       LET found == post.video /\ file.status # "DELETED" /\ probed
       IN /\ req' = [req EXCEPT ![r] = [@ EXCEPT !.at = "write",
                                                     !.price = IF found THEN AutoPrice ELSE 0]]
          /\ file' = [file EXCEPT !.known = @ \/ found]
  /\ UNCHANGED <<flagVars, post, marked, count, comments, commentCount, removed, begun,
                 overlaps, override, solid>>

\* Mutant: a file that matches by its URL and by its path counts twice.
AggregateTwice(r) ==
  /\ req[r].at = "videos"
  /\ LET found == post.video /\ file.status # "DELETED" /\ file.known
     IN req' = [req EXCEPT ![r] = [@ EXCEPT !.at = "write",
                                              !.price = IF found THEN 2 * AutoPrice ELSE 0]]
  /\ UNCHANGED <<flagVars, post, marked, count, comments, commentCount, removed, file,
                 begun, overlaps, override, solid>>

\* aggregateVideoMonetizationInputs: the metadata of the video; if none is
\* persisted yet the video on disk is probed, which may fail.
Aggregate(r) ==
  /\ req[r].at = "videos"
  /\ \E probed \in {p \in BOOLEAN : p => ~file.known /\ file.bytes} :
       LET found == post.video /\ file.status # "DELETED" /\ (file.known \/ probed)
       IN /\ req' = [req EXCEPT ![r] = [@ EXCEPT !.at = "write",
                                                     !.price = IF found THEN AutoPrice ELSE 0]]
          /\ file' = [file EXCEPT !.known = @ \/ found]
  /\ UNCHANGED <<flagVars, post, marked, count, comments, commentCount, removed, begun,
                 overlaps, override, solid>>

\* A pricing under way that has not found the metadata.
Missed == {r \in Requests : req[r].at = "write" /\ req[r].price = 0}

WritePrice(r) ==
  /\ req[r].at = "write" /\ Live
  /\ post' = [post EXCEPT !.price = req[r].price]
  /\ solid' = (solid \/ (req[r].price > 0 /\ file.status = "UPLOADED" /\ Missed = {}))
  /\ End(r)
  /\ UNCHANGED <<flagVars, marked, count, comments, commentCount, removed, file, begun,
                 overlaps, override>>

---------------------------------------------------------------------------
(* The admin, the author, and the file.                                    *)

\* Nothing will compute the price until the flag is switched on again.
PricingOff ==
  /\ enabled = "off" /\ (clock < cache.expires => cache.value = "off")
  /\ \A r \in Requests : /\ ask[r].at \in {"fill", "told"} => ask[r].value = "off"
                         /\ req[r].at \notin {"videos", "write"}

\* patchPublished with a price: only for a post with a video.
AdminPatchPrice(price) ==
  /\ Live /\ post.video
  /\ post' = [post EXCEPT !.price = price]
  /\ override' = IF PricingOff /\ post.monetized THEN price ELSE None
  /\ solid' = (solid /\ price > 0)
  /\ UNCHANGED <<flagVars, marked, count, comments, commentCount, removed, file, req, begun,
                 overlaps>>

\* deletePost of a comment, by its author; the count of its parent stays.
DeleteComment ==
  /\ Live /\ comments > 0
  /\ comments' = comments - 1 /\ removed' = removed + 1
  /\ UNCHANGED <<flagVars, post, marked, count, commentCount, file, req, begun, overlaps,
                 override, solid>>

\* deletePost: the row is removed, and the marks with it; its comments have no
\* parent any more.  Requests under way throw when they come to it.
DeletePost ==
  /\ Live
  /\ post' = [post EXCEPT !.state = "deleted", !.price = 0]
  /\ marked' = [k \in Marks |-> {}] /\ count' = [k \in Marks |-> 0]
  /\ comments' = 0 /\ commentCount' = 0 /\ removed' = 0
  /\ override' = None /\ solid' = FALSE
  /\ UNCHANGED <<flagVars, file, req, begun, overlaps>>

\* The probe of the upload or of the post comes to its end; the transcode job
\* moves the bytes to R2; the clean-up deletes a file that is still PENDING.
FileMoves ==
  /\ Live /\ post.video
  /\ \/ /\ ~file.known /\ file.bytes
        /\ file' = [file EXCEPT !.known = TRUE]
     \/ /\ file.bytes /\ file.status = "UPLOADED"
        /\ file' = [file EXCEPT !.bytes = FALSE]
     \/ /\ file.status = "PENDING"
        /\ file' = [file EXCEPT !.status = "DELETED", !.bytes = FALSE]
  /\ UNCHANGED <<flagVars, post, marked, count, comments, commentCount, removed, req, begun,
                 overlaps, override, solid>>

\* The flag, and a request's question for it.
FlagStep ==
  /\ \/ Tick \/ BumpCache
     \/ \E r \in Requests : \/ req[r].at \in {"flag", "reprice"} /\ Ask(r)
                            \/ Query(r) \/ Fill(r)
  /\ UNCHANGED postVars

SwitchFlag ==
  /\ PatchFlag
  /\ override' = IF enabled' = "on" THEN None ELSE override
  /\ UNCHANGED <<post, marked, count, comments, commentCount, removed, file, req, begun,
                 overlaps, solid>>

Next ==
  \/ \E r \in Requests :
       \/ \E monetized, video \in BOOLEAN : CreatePost(r, monetized, video)
       \/ UpdatePost(r)
       \/ \E u \in Users, k \in Marks, on \in {"on", "off", "toggle"} : MarkPost(r, u, k, on)
       \/ MarkFile(r) \/ Reprice(r) \/ RepriceAllowed(r) \/ Fail(r)
       \/ CheckMark(r) \/ UpdateMark(r)
       \/ Comment(r) \/ FindParentPost(r) \/ IncrementParentPostCommentCount(r)
       \/ Sync(r) \/ SyncFlag(r) \/ Aggregate(r) \/ WritePrice(r)
  \/ \E price \in AdminPrices : AdminPatchPrice(price)
  \/ DeleteComment \/ DeletePost \/ FileMoves \/ FlagStep \/ SwitchFlag

Spec == Init /\ [][Next]_vars

---------------------------------------------------------------------------
(* Properties.                                                             *)

\* likeCount and bookmarkCount miss the number of users who marked the post by no
\* more than the requests for the mark that began while another one was under way,
\* whatever requests fail and are sent again: requests that do not overlap keep
\* them exact, and each that does costs one.  And no comment is counted twice.
CountsTrack ==
  /\ \A k \in Marks :
       count[k] - Cardinality(marked[k]) \in -overlaps[k] .. overlaps[k]
  /\ commentCount <= comments + removed

\* A price the admin sets while automatic pricing is off, and no request has an
\* older answer about the flag, stays until the flag is switched on: no like,
\* bookmark, publication or reprice computes it again.
OverrideHolds == override # None => post.price = override

\* A post that was priced from the metadata of its videos can always be sold
\* from then on, also after the videos left the disk, unless the admin clears
\* the price.
PricedStaysPriced == solid => post.price > 0
=============================================================================
