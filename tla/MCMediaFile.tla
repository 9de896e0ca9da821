-------------------------------- MODULE MCMediaFile --------------------------------
(* Small instances of MediaFile for TLC; the answers to range requests for a file of  *)
(* up to four bytes; and who plays one file of two posts by two users.                *)
EXTENDS MediaFile, Streaming, Paywall

MCRanges ==
  [kind: {"absent", "unusable"}] \cup [kind: {"last"}, n: 0..5]
    \cup [kind: {"from"}, start: 0..5] \cup [kind: {"span"}, start: 0..5, end: 0..5]

ASSUME StreamingChecked ==
  \A range \in MCRanges, fileSize \in 0..4 :
    LET response == Respond(range, fileSize)
    IN /\ response.bytes = Requested(range, fileSize)
       /\ response.status = 416 => response.bytes = {}
       /\ response.status = 206 => response.bytes # {}

\* Small files of one owner, on disk until they are in the object store.
MCFileRows(owner) ==
  {file \in FileRows : file.owner = owner /\ file.path = ~file.ready /\ ~file.large}

MCDatabases ==
  [posts: [PostIds -> PostRows], unlocks: SUBSET (Users \X PostIds),
   files: [Files -> MCFileRows(CHOOSE u \in Users : TRUE)]]

\* The theorems OnlyPaidPlays, LockedIsRefused, ShownIsServed and WatchersSee.
ASSUME PaywallChecked ==
  \A db \in MCDatabases, p \in PostIds, viewer \in Viewers :
    LET locked == GetLockedVideoFileIdsForPostView(db, p, viewer)
        served == {f \in Files : StreamMedia(db, f, viewer) \in {"disk", "object store"}}
        owned == {f \in Files : db.files[f].owner = viewer}
        mayPlay(q) == db.posts[q].author = viewer \/ <<viewer, q>> \in db.unlocks
    IN /\ locked \cap served \subseteq owned
       /\ p \in ForSale(db) /\ ~mayPlay(p) =>
            \A f \in (db.posts[p].media \cap served) \ owned : db.files[f].type \notin Streamed
       /\ viewer # Guest /\ db.posts[p].live =>
            \A f \in db.posts[p].media :
              db.files[f].status = "UPLOADED" /\ MediaPlayback(db, p, f, viewer, TRUE) # "none"
                /\ (\A q \in FindMonetizedPostsReferencingFile(db, f) \ {p} : mayPlay(q))
                => f \in served
       /\ viewer # Guest /\ AssertUserCanAccessPostVideo(db, p, viewer) => locked = {}
=============================================================================
