---------------------------------- MODULE Paywall ----------------------------------
(***************************************************************************)
(* Who may play which media of which post.  The answer is given three      *)
(* times, each time from the database as it is then: when a post is shown  *)
(* (buildMediaPlaybackAndMetadata of src/src/post/post.service.ts), when   *)
(* the bytes of a file are asked for (streamMedia of                       *)
(* src/src/file/file.controller.ts), both by way of                        *)
(* src/src/coins/stream-monetization.service.ts, and when a post is        *)
(* watched together (src/src/watch-together/watch-together.service.ts).    *)
(*                                                                         *)
(* A database db has posts, files and unlocks.  The media of a post are    *)
(* the files whose URL it lists, of its own or of its long post.  They     *)
(* need not be files of its author: createPost looks up the owner of the   *)
(* media of a SHORT post, and of the contents of a LONG one, and stores as *)
(* it came what a request names in the other place.                        *)
(***************************************************************************)
CONSTANTS Users, Guest, PostIds, Files

ASSUME PaywallAssumption == Guest \notin Users

Viewers == Users \cup {Guest}
Streamed == {"video", "audio"}

PostRows ==
  [live: BOOLEAN, published: BOOLEAN, monetized: BOOLEAN, author: Users, media: SUBSET Files]
FileRows ==
  [owner: Users, type: {"video", "audio", "image"}, status: {"PENDING", "UPLOADED", "DELETED"},
   large: BOOLEAN, ready: BOOLEAN, path: BOOLEAN]
Databases ==
  [posts: [PostIds -> PostRows], files: [Files -> FileRows], unlocks: SUBSET (Users \X PostIds)]

\* deletedAt: null, published, monetizationEnabled.
ForSale(db) ==
  {p \in PostIds : db.posts[p].live /\ db.posts[p].published /\ db.posts[p].monetized}

---------------------------------------------------------------------------
(* When the post is shown.                                                 *)

GetMonetizedVideoFileIdsForPost(db, p) ==
  IF p \in ForSale(db)
  THEN {f \in db.posts[p].media : db.files[f].type \in Streamed /\ db.files[f].status # "DELETED"}
  ELSE {}

\* A post is shown to a guest as if it were not for sale.
GetLockedVideoFileIdsForPostView(db, p, viewer) ==
  LET post == db.posts[p]
  IN IF ~post.published \/ ~post.monetized \/ viewer = Guest \/ post.author = viewer
          \/ <<viewer, p>> \in db.unlocks
     THEN {}
     ELSE GetMonetizedVideoFileIdsForPost(db, p)

\* The URL a client is given to play a file: none, the stream, the manifest of the
\* CDN, or that of the file itself.
MediaPlayback(db, p, f, viewer, cdn) ==
  LET file == db.files[f]
  IN CASE file.status = "DELETED" \/ file.type \notin Streamed -> "direct"
       [] OTHER ->
            CASE f \in GetLockedVideoFileIdsForPostView(db, p, viewer) -> "none"
              [] f \notin GetLockedVideoFileIdsForPostView(db, p, viewer) ->
                   IF file.large THEN "stream" ELSE IF file.ready /\ cdn THEN "manifest" ELSE "direct"

---------------------------------------------------------------------------
(* When the bytes are asked for.                                           *)

FindMonetizedPostsReferencingFile(db, f) == {p \in ForSale(db) : f \in db.posts[p].media}

\* A file that several posts offer takes an unlock of each.
ShouldBlockStreamForFile(db, f, viewer) ==
  /\ db.files[f].type \in Streamed
  /\ viewer # Guest => db.files[f].owner # viewer
  /\ \E p \in FindMonetizedPostsReferencingFile(db, f) :
       viewer # Guest => db.posts[p].author # viewer /\ <<viewer, p>> \notin db.unlocks

AssertStreamAccess(db, f, viewer) ==
  db.files[f].status = "UPLOADED" \/ (viewer # Guest /\ db.files[f].owner = viewer)

\* streamMedia, and serveMediaByFilename for the file itself; its trailer is served
\* to anyone.
StreamMedia(db, f, viewer) ==
  LET file == db.files[f]
  IN IF file.status = "DELETED" THEN "not found"
     ELSE IF ~AssertStreamAccess(db, f, viewer) \/ ShouldBlockStreamForFile(db, f, viewer)
     THEN "forbidden"
     ELSE IF file.ready /\ file.status = "UPLOADED" THEN "object store"
     ELSE IF file.path THEN "disk" ELSE "not found"

---------------------------------------------------------------------------
(* When a post is watched together.                                        *)

AssertUserCanAccessPostVideo(db, p, user) ==
  LET post == db.posts[p]
  IN /\ post.live /\ post.published
     /\ \E f \in post.media : db.files[f].type = "video"
     /\ post.author = user \/ ~post.monetized \/ <<user, p>> \in db.unlocks
=============================================================================
