--------------------------------- MODULE MediaProofs ---------------------------------
(***************************************************************************)
(* The answer to a range request, for every header and every file size;    *)
(* who is served the bytes of a file, for every database; and that a file  *)
(* in use stays playable, for any number of posts, trailer runs, attempts  *)
(* of jobs and restarts.                                                   *)
(***************************************************************************)
EXTENDS MediaFile, Streaming, Paywall, FiniteSetTheorems, TLAPS

\* What the parser returns lies within the file, and it returns null when the
\* header is absent or unusable or names no byte of the file.
LEMMA ParseInFile ==
  \A range \in Ranges, fileSize \in Nat :
    LET parsed == ParseSingleByteRange(range, fileSize)
    IN /\ parsed # NoRange =>
            /\ parsed.start \in 0 .. parsed.end /\ parsed.end \in 0 .. fileSize - 1
            /\ parsed.start .. parsed.end = Requested(range, fileSize)
       /\ parsed = NoRange => range.kind = "absent" \/ Requested(range, fileSize) = {}
<1>. SUFFICES ASSUME NEW range \in Ranges, NEW fileSize \in Nat
              PROVE  LET parsed == ParseSingleByteRange(range, fileSize)
                     IN /\ parsed # NoRange =>
                             /\ parsed.start \in 0 .. parsed.end
                             /\ parsed.end \in 0 .. fileSize - 1
                             /\ parsed.start .. parsed.end = Requested(range, fileSize)
                        /\ parsed = NoRange =>
                             range.kind = "absent" \/ Requested(range, fileSize) = {}
  OBVIOUS
<1>. USE DEF ParseSingleByteRange, Requested, Span, NoRange
<1>1. CASE fileSize = 0
  BY <1>1
<1>2. CASE fileSize > 0 /\ range \in [kind: {"absent", "unusable"}]
  BY <1>2
<1>3. CASE fileSize > 0 /\ range \in [kind: {"last"}, n: Nat]
  BY <1>3
<1>4. CASE fileSize > 0 /\ range \in [kind: {"from"}, start: Nat]
  BY <1>4
<1>5. CASE fileSize > 0 /\ range \in [kind: {"span"}, start: Nat, end: Nat]
  BY <1>5
<1>. QED
  BY <1>1, <1>2, <1>3, <1>4, <1>5 DEF Ranges

\* A client is sent exactly the bytes of the file it asked for, or told that there
\* are none, and the length it is told is the number of bytes that follow.
THEOREM SentAsRequested ==
  \A range \in Ranges, fileSize \in Nat :
    LET response == Respond(range, fileSize)
    IN /\ response.bytes = Requested(range, fileSize)
       /\ response.status = 416 => Requested(range, fileSize) = {}
       /\ response.length = Cardinality(response.bytes)
<1>. SUFFICES ASSUME NEW range \in Ranges, NEW fileSize \in Nat
              PROVE  /\ Respond(range, fileSize).bytes = Requested(range, fileSize)
                     /\ Respond(range, fileSize).status = 416
                          => Requested(range, fileSize) = {}
                     /\ Respond(range, fileSize).length
                          = Cardinality(Respond(range, fileSize).bytes)
  OBVIOUS
<1>. DEFINE parsed == ParseSingleByteRange(range, fileSize)
<1>1. /\ parsed # NoRange =>
           /\ parsed.start \in 0 .. parsed.end /\ parsed.end \in 0 .. fileSize - 1
           /\ parsed.start .. parsed.end = Requested(range, fileSize)
      /\ parsed = NoRange => range.kind = "absent" \/ Requested(range, fileSize) = {}
  BY ParseInFile
<1>. HIDE DEF parsed
<1>2. CASE parsed # NoRange
  <2>1. Respond(range, fileSize) = [status |-> 206, bytes |-> parsed.start .. parsed.end,
                                    length |-> parsed.end - parsed.start + 1]
    BY <1>2 DEF Respond, parsed
  <2>2. parsed.start \in Int /\ parsed.end \in Int /\ parsed.start <= parsed.end
    BY <1>1, <1>2
  <2>3. Cardinality(parsed.start .. parsed.end) = parsed.end - parsed.start + 1
    BY <2>2, FS_Interval
  <2>. QED
    BY <1>1, <1>2, <2>1, <2>3
<1>3. CASE parsed = NoRange /\ range.kind # "absent"
  <2>1. Respond(range, fileSize) = [status |-> 416, bytes |-> {}, length |-> 0]
    BY <1>3 DEF Respond, parsed
  <2>. QED
    BY <1>1, <1>3, <2>1, FS_EmptySet
<1>4. CASE parsed = NoRange /\ range.kind = "absent"
  <2>1. Respond(range, fileSize) = [status |-> 200, bytes |-> 0 .. fileSize - 1,
                                    length |-> fileSize]
    BY <1>4 DEF Respond, parsed
  <2>2. Requested(range, fileSize) = 0 .. fileSize - 1
    BY <1>4 DEF Requested
  <2>3. Cardinality(0 .. fileSize - 1) = fileSize
    BY FS_Interval
  <2>. QED
    BY <2>1, <2>2, <2>3
<1>. QED
  BY <1>2, <1>3, <1>4

---------------------------------------------------------------------------
\* What the guard of the stream lets through: the owner of the file and, for every
\* post that sells the file, whoever wrote it or has unlocked it.
LEMMA UnblockedIsPaid ==
  ASSUME NEW db \in Databases,
         NEW p \in ForSale(db), NEW f \in db.posts[p].media, NEW viewer \in Viewers,
         db.files[f].type \in Streamed, db.files[f].owner # viewer, ~ShouldBlockStreamForFile(db, f, viewer)
  PROVE  viewer \in Users /\ (db.posts[p].author = viewer \/ <<viewer, p>> \in db.unlocks)
<1>1. p \in PostIds /\ p \in FindMonetizedPostsReferencingFile(db, f)
  BY DEF ForSale, FindMonetizedPostsReferencingFile
<1>3. CASE viewer = Guest
  BY <1>1, <1>3 DEF ShouldBlockStreamForFile
<1>4. CASE viewer # Guest
  BY <1>1, <1>4 DEF ShouldBlockStreamForFile, Viewers
<1>. QED
  BY <1>3, <1>4

\* The API streams a video or audio file that a post sells only to its owner and
\* to users who, for every post that sells it, have unlocked or written the post;
\* whatever the file's status, and wherever its bytes are.
THEOREM OnlyPaidPlays ==
  ASSUME NEW db \in Databases,
         NEW p \in ForSale(db), NEW f \in db.posts[p].media, NEW viewer \in Viewers,
         db.files[f].type \in Streamed,
         StreamMedia(db, f, viewer) \in {"disk", "object store"}
  PROVE  /\ viewer \in Users
         /\ \/ db.files[f].owner = viewer
            \/ db.posts[p].author = viewer \/ <<viewer, p>> \in db.unlocks
<1>1. ~ShouldBlockStreamForFile(db, f, viewer)
  BY DEF StreamMedia
<1>2. db.files[f].owner \in Users
  BY DEF Databases, FileRows, PostRows, ForSale
<1>. QED
  BY <1>1, <1>2, UnblockedIsPaid

\* Two services agree on what is locked: the API streams no file to a viewer from
\* whom the view of a post withholds it, but to the file's own owner, whom the view
\* of somebody else's post does not know.
THEOREM LockedIsRefused ==
  ASSUME NEW db \in Databases, NEW p \in PostIds, NEW viewer \in Viewers,
         NEW f \in GetLockedVideoFileIdsForPostView(db, p, viewer),
         db.files[f].owner # viewer
  PROVE  StreamMedia(db, f, viewer) \notin {"disk", "object store"}
<1>1. /\ viewer # Guest /\ db.posts[p].author # viewer /\ <<viewer, p>> \notin db.unlocks
      /\ f \in GetMonetizedVideoFileIdsForPost(db, p)
  BY DEF GetLockedVideoFileIdsForPostView
<1>2. p \in ForSale(db) /\ f \in db.posts[p].media /\ db.files[f].type \in Streamed
  BY <1>1 DEF GetMonetizedVideoFileIdsForPost
<1>. QED
  BY <1>1, <1>2, OnlyPaidPlays

\* And on what is not: a user whom the view of a post gives a URL for an uploaded
\* file gets its bytes, unless another post sells the same file and is not the
\* user's to see.
THEOREM ShownIsServed ==
  ASSUME NEW db \in Databases, NEW p \in PostIds, NEW f \in db.posts[p].media,
         NEW viewer \in Users, NEW cdn \in BOOLEAN,
         db.posts[p].live, db.files[f].status = "UPLOADED",
         db.files[f].path \/ db.files[f].ready,
         MediaPlayback(db, p, f, viewer, cdn) # "none",
         \A q \in FindMonetizedPostsReferencingFile(db, f) \ {p} :
           db.posts[q].author = viewer \/ <<viewer, q>> \in db.unlocks
  PROVE  StreamMedia(db, f, viewer) \in {"disk", "object store"}
<1>1. viewer # Guest
  BY PaywallAssumption
<1>2. ~ShouldBlockStreamForFile(db, f, viewer)
  <2>1. SUFFICES ASSUME db.files[f].type \in Streamed, p \in ForSale(db)
                 PROVE  db.posts[p].author = viewer \/ <<viewer, p>> \in db.unlocks
    BY <1>1 DEF ShouldBlockStreamForFile, FindMonetizedPostsReferencingFile
  <2>2. f \notin GetLockedVideoFileIdsForPostView(db, p, viewer)
    BY <2>1 DEF MediaPlayback
  <2>3. f \in GetMonetizedVideoFileIdsForPost(db, p)
    BY <2>1 DEF GetMonetizedVideoFileIdsForPost
  <2>4. db.posts[p].published /\ db.posts[p].monetized
    BY <2>1 DEF ForSale
  <2>. QED
    BY <1>1, <2>2, <2>3, <2>4 DEF GetLockedVideoFileIdsForPostView
<1>. QED
  BY <1>2 DEF StreamMedia, AssertStreamAccess

\* Watching a post together asks for no less than playing it alone: a user let into
\* a session finds nothing of the post locked.
THEOREM WatchersSee ==
  ASSUME NEW db \in Databases, NEW p \in PostIds, NEW user \in Users,
         AssertUserCanAccessPostVideo(db, p, user)
  PROVE  GetLockedVideoFileIdsForPostView(db, p, user) = {}
BY DEF AssertUserCanAccessPostVideo, GetLockedVideoFileIdsForPostView
---------------------------------------------------------------------------
(* The life of one video, for any number of posts that use it, of trailer  *)
(* runs, of restarts and of attempts of a job.                             *)

MediaRows ==
  [status: {"none", "PENDING", "UPLOADED", "DELETED"},
   transcode: {"NOT_APPLICABLE", "PENDING", "READY", "FAILED"},
   path: BOOLEAN, key: BOOLEAN, trailer: Runs \cup {NoTrailer}]
RunRecords ==
  [at: {"new", "read", "encode", "save", "replace", "done"},
   override: BOOLEAN, previous: Runs \cup {NoTrailer}]

\* A trailer run moves, and the others stay where they are.
LEMMA RunMoves ==
  ASSUME TypeOK, NEW x \in Runs
  PROVE  /\ \A override \in BOOLEAN : Start(x, override) =>
              /\ run' \in [Runs -> RunRecords] /\ run[x].at = "new"
              /\ run'[x].at = "read" /\ run'[x].previous = NoTrailer
              /\ \A y \in Runs \ {x} : run'[y] = run[y]
         /\ \A at \in {"save", "replace"} : RunTo(x, at) =>
              /\ run' \in [Runs -> RunRecords]
              /\ run'[x].at = at /\ run'[x].previous = run[x].previous
              /\ \A y \in Runs \ {x} : run'[y] = run[y]
         /\ RunEnds(x) =>
              /\ run' \in [Runs -> RunRecords]
              /\ run'[x].at = "done" /\ run'[x].previous = NoTrailer
              /\ \A y \in Runs \ {x} : run'[y] = run[y]
<1>1. run \in [Runs -> RunRecords] /\ run[x] \in RunRecords
  BY DEF TypeOK, RunRecords
<1>2. ASSUME NEW override \in BOOLEAN
      PROVE  [at |-> "read", override |-> override, previous |-> NoTrailer] \in RunRecords
  BY DEF RunRecords
<1>3. ASSUME NEW at \in {"save", "replace"}
      PROVE  /\ [run[x] EXCEPT !.at = at] \in RunRecords
             /\ [run[x] EXCEPT !.at = at].at = at
             /\ [run[x] EXCEPT !.at = at].previous = run[x].previous
  BY <1>1 DEF RunRecords
<1>4. RunDone \in RunRecords /\ RunDone.at = "done" /\ RunDone.previous = NoTrailer
  BY DEF RunDone, NoRun, RunRecords
<1>5. ASSUME NEW q \in RunRecords, run' = [run EXCEPT ![x] = q]
      PROVE  /\ run' \in [Runs -> RunRecords] /\ run'[x] = q
             /\ \A y \in Runs \ {x} : run'[y] = run[y]
  BY <1>1, <1>5
<1>6. ASSUME NEW override \in BOOLEAN, Start(x, override)
      PROVE  /\ run' \in [Runs -> RunRecords] /\ run[x].at = "new"
             /\ run'[x].at = "read" /\ run'[x].previous = NoTrailer
             /\ \A y \in Runs \ {x} : run'[y] = run[y]
  BY <1>2, <1>5, <1>6 DEF Start
<1>7. ASSUME NEW at \in {"save", "replace"}, RunTo(x, at)
      PROVE  /\ run' \in [Runs -> RunRecords]
             /\ run'[x].at = at /\ run'[x].previous = run[x].previous
             /\ \A y \in Runs \ {x} : run'[y] = run[y]
  <2>1. run' = [run EXCEPT ![x] = [run[x] EXCEPT !.at = at]]
    BY <1>7 DEF RunTo
  <2> QED BY <1>3, <1>5, <2>1
<1>8. ASSUME RunEnds(x)
      PROVE  /\ run' \in [Runs -> RunRecords]
             /\ run'[x].at = "done" /\ run'[x].previous = NoTrailer
             /\ \A y \in Runs \ {x} : run'[y] = run[y]
  BY <1>4, <1>5, <1>8 DEF RunEnds
<1> QED BY <1>6, <1>7, <1>8

\* A job moves.
LEMMA JobMoves ==
  ASSUME TypeOK, NEW p \in Posters, NEW at, JobTo(p, at)
  PROVE  /\ job'[p] = at /\ \A q \in Posters \ {p} : job'[q] = job[q]
         /\ at \in {"none", "waiting", "done"} \cup Active
              => job' \in [Posters -> {"none", "waiting", "done"} \cup Active]
BY DEF TypeOK, JobTo

\* A job is enqueued once, and until it is over it has an attempt left.
Attempted ==
  \A p \in Posters :
    /\ pc[p] # "done" => job[p] = "none"
    /\ job[p] # "done" => failures[p] < Attempts

\* Each action keeps the types.
LEMMA MediaTypeStep == TypeOK /\ Attempted /\ [Next]_vars => TypeOK'
<1> SUFFICES ASSUME TypeOK, Attempted, [Next]_vars PROVE TypeOK'
  OBVIOUS
<1>0. /\ row \in MediaRows /\ run \in [Runs -> RunRecords] /\ trailers \subseteq Runs
      /\ cron \in [at: {"idle", "trailer", "source", "update"}, trailer: Runs \cup {NoTrailer}]
      /\ source \in BOOLEAN /\ objects \in BOOLEAN /\ r2 \in BOOLEAN /\ secured \in BOOLEAN
      /\ pc \in [Posters -> {"new", "mark", "probe", "trailer", "done"}]
      /\ wants \in [Posters -> BOOLEAN]
      /\ job \in [Posters -> {"none", "waiting", "done"} \cup Active]
      /\ skipped \subseteq Posters /\ failures \in [Posters -> 0..Attempts]
      /\ restarts \in 0..MaxRestarts
  BY DEF TypeOK, MediaRows, RunRecords
<1>a. ASSUME row' \in MediaRows, run' \in [Runs -> RunRecords], trailers' \subseteq Runs,
             source' \in BOOLEAN, objects' \in BOOLEAN, secured' \in BOOLEAN,
             UNCHANGED <<r2, postVars, cron, jobVars, restarts>>
      PROVE  TypeOK'
  BY <1>a DEF TypeOK, MediaRows, RunRecords, postVars, jobVars
<1>b. ASSUME row' \in MediaRows, source' \in BOOLEAN, objects' \in BOOLEAN,
             job' \in [Posters -> {"none", "waiting", "done"} \cup Active],
             skipped' \subseteq Posters, failures' \in [Posters -> 0..Attempts],
             UNCHANGED <<r2, trailers, postVars, run, cron, restarts, secured>>
      PROVE  TypeOK'
  BY <1>b DEF TypeOK, MediaRows, postVars
<1>1. CASE Upload
  <2>1. row' \in MediaRows
    BY <1>0, <1>1 DEF Upload, MediaRows
  <2>2. run' \in [Runs -> RunRecords]
    BY <1>0, <1>1, RunMoves DEF Upload, Runs
  <2> QED BY <1>0, <1>1, <1>a, <2>1, <2>2 DEF Upload
<1>2. ASSUME NEW p \in Posters,
             GetFilesUrls(p) \/ MarkFileAsUploaded(p) \/ Probe(p) \/ PosterFails(p) \/ Enqueue(p)
      PROVE  TypeOK'
  <2>1. /\ pc' \in [Posters -> {"new", "mark", "probe", "trailer", "done"}]
    BY <1>0, <1>2 DEF GetFilesUrls, MarkFileAsUploaded, Probe, PosterFails, Enqueue, Goto, Leave
  <2>2. wants' \in [Posters -> BOOLEAN]
    <3>1. CASE MarkFileAsUploaded(p)
      <4> DEFINE w == r2 /\ row.path /\ row.transcode = "PENDING"
      <4>1. w \in BOOLEAN
        BY <1>0 DEF MediaRows
      <4>2. wants' = [wants EXCEPT ![p] = w]
        BY <3>1 DEF MarkFileAsUploaded
      <4> HIDE DEF w
      <4> QED BY <1>0, <4>1, <4>2
    <3>2. CASE ~MarkFileAsUploaded(p)
      BY <1>0, <1>2, <3>2 DEF GetFilesUrls, Probe, PosterFails, Enqueue, Leave
    <3> QED BY <3>1, <3>2
  <2>3. row' \in MediaRows
    BY <1>0, <1>2 DEF GetFilesUrls, MarkFileAsUploaded, Probe, PosterFails, Enqueue, MediaRows
  <2>4. run' \in [Runs -> RunRecords]
    BY <1>0, <1>2, RunMoves DEF GetFilesUrls, MarkFileAsUploaded, Probe, PosterFails, Enqueue, Runs
  <2>5. job' \in [Posters -> {"none", "waiting", "done"} \cup Active]
    BY <1>0, <1>2 DEF GetFilesUrls, MarkFileAsUploaded, Probe, PosterFails, Enqueue, jobVars
  <2>6. secured' \in BOOLEAN
    BY <1>0, <1>2 DEF GetFilesUrls, MarkFileAsUploaded, Probe, PosterFails, Enqueue
  <2>7. UNCHANGED <<r2, diskVars, cron, failures, skipped, restarts>>
    BY <1>2 DEF GetFilesUrls, MarkFileAsUploaded, Probe, PosterFails, Enqueue, jobVars
  <2> QED BY <1>0, <2>1, <2>2, <2>3, <2>4, <2>5, <2>6, <2>7
             DEF TypeOK, MediaRows, RunRecords, diskVars
<1>3. ASSUME NEW x \in Runs,
             \/ \E override \in BOOLEAN : Backfill(x, override)
             \/ TrailerRead(x) \/ TrailerStops(x) \/ TrailerEncode(x)
             \/ TrailerReplace(x)
      PROVE  TypeOK'
  <2>1. run' \in [Runs -> RunRecords]
    <3>1. CASE TrailerRead(x)
      <4> DEFINE q == IF run[x].override THEN row.trailer ELSE NoTrailer
      <4>1. q \in Runs \cup {NoTrailer} /\ run[x] \in RunRecords
        BY <1>0 DEF MediaRows
      <4>2. run' = [run EXCEPT ![x] = [run[x] EXCEPT !.at = "encode", !.previous = q]]
        BY <3>1 DEF TrailerRead
      <4> HIDE DEF q
      <4>3. [run[x] EXCEPT !.at = "encode", !.previous = q] \in RunRecords
        BY <4>1 DEF RunRecords
      <4> QED BY <1>0, <4>2, <4>3
    <3>2. CASE ~TrailerRead(x)
      BY <1>0, <1>3, <3>2, RunMoves
         DEF Backfill, TrailerStops, TrailerEncode, TrailerReplace
    <3> QED BY <3>1, <3>2
  <2>2. /\ trailers' \subseteq Runs
        /\ UNCHANGED <<r2, row, source, objects, secured, postVars, cron, jobVars, restarts>>
    BY <1>0, <1>3 DEF Backfill, TrailerRead, TrailerStops, TrailerEncode, TrailerReplace, diskVars
  <2> QED BY <1>0, <1>a, <2>1, <2>2
<1>4. ASSUME NEW x \in Runs, TrailerSave(x)
      PROVE  TypeOK'
  <2>1. row' \in MediaRows
    BY <1>0, <1>4 DEF TrailerSave, MediaRows
  <2>2. run' \in [Runs -> RunRecords]
    BY <1>4, RunMoves DEF TrailerSave
  <2>3. /\ trailers' \subseteq Runs
        /\ UNCHANGED <<r2, source, objects, secured, postVars, cron, jobVars, restarts>>
    BY <1>0, <1>4 DEF TrailerSave
  <2> QED BY <1>0, <1>a, <2>1, <2>2, <2>3
<1>5. CASE CronFind \/ CronUnlinkTrailer \/ CronUnlinkSource \/ CronUpdate \/ CronFails
  <2>1. cron' \in [at: {"idle", "trailer", "source", "update"}, trailer: Runs \cup {NoTrailer}]
    BY <1>0, <1>5 DEF CronFind, CronUnlinkTrailer, CronUnlinkSource, CronUpdate, CronFails,
                      CronTo, NoCron, MediaRows
  <2>2. row' \in MediaRows
    BY <1>0, <1>5 DEF CronFind, CronUnlinkTrailer, CronUnlinkSource, CronUpdate, CronFails,
                      MediaRows
  <2>3. /\ trailers' \subseteq Runs /\ source' \in BOOLEAN /\ objects' \in BOOLEAN
        /\ UNCHANGED <<r2, postVars, run, jobVars, restarts, secured>>
    BY <1>0, <1>5 DEF CronFind, CronUnlinkTrailer, CronUnlinkSource, CronUpdate, CronFails,
                      diskVars
  <2> QED BY <1>0, <2>1, <2>2, <2>3 DEF TypeOK, MediaRows, RunRecords, postVars, jobVars
<1>6. ASSUME NEW p \in Posters,
             \/ JobStart(p) \/ JobSwitchedOff(p) \/ JobCheck(p) \/ JobAccess(p) \/ JobPut(p)
             \/ JobUnlink(p)
      PROVE  TypeOK'
  <2>1. job' \in [Posters -> {"none", "waiting", "done"} \cup Active]
    BY <1>6, JobMoves DEF JobStart, JobSwitchedOff, JobCheck, JobAccess, JobPut, JobUnlink, Active
  <2>2. /\ source' \in BOOLEAN /\ objects' \in BOOLEAN /\ skipped' \subseteq Posters
        /\ UNCHANGED <<r2, row, trailers, postVars, run, cron, failures, restarts, secured>>
    BY <1>0, <1>6 DEF JobStart, JobSwitchedOff, JobCheck, JobAccess, JobPut, JobUnlink, diskVars
  <2> QED BY <1>0, <1>b, <2>1, <2>2
<1>7. ASSUME NEW p \in Posters, JobFails(p) \/ JobReady(p)
      PROVE  TypeOK'
  <2>1. job' \in [Posters -> {"none", "waiting", "done"} \cup Active]
    BY <1>7, JobMoves DEF JobFails, JobReady, Active
  <2>2. row' \in MediaRows
    BY <1>0, <1>7 DEF JobFails, JobReady, MediaRows
  <2> QED BY <1>0, <1>7, <1>b, <2>1, <2>2 DEF JobFails, JobReady, diskVars
<1>8. ASSUME NEW p \in Posters, JobThrows(p)
      PROVE  TypeOK'
  <2>1. job' \in [Posters -> {"none", "waiting", "done"} \cup Active]
    BY <1>8, JobMoves DEF JobThrows, Active
  <2>2. failures' \in [Posters -> 0..Attempts] /\ skipped' \subseteq Posters
    <3>1. failures[p] < Attempts /\ failures[p] \in 0..Attempts /\ Attempts \in Nat
      BY <1>0, <1>8, MediaAssumption DEF JobThrows, Attempted
    <3>2. failures' = [failures EXCEPT ![p] = failures[p] + 1]
          /\ skipped' \in {skipped, skipped \cup {p}}
      BY <1>8 DEF JobThrows
    <3> QED BY <1>0, <3>1, <3>2
  <2> QED BY <1>0, <1>8, <1>b, <2>1, <2>2 DEF JobThrows, diskVars
<1>9. CASE ServerRestart
  <2>1. /\ pc' \in [Posters -> {"new", "mark", "probe", "trailer", "done"}]
        /\ wants' \in [Posters -> BOOLEAN]
        /\ restarts' \in 0..MaxRestarts
    BY <1>0, <1>9, MediaAssumption DEF ServerRestart
  <2>6. job' \in [Posters -> {"none", "waiting", "done"} \cup Active] /\ skipped' \subseteq Posters
    <3> DEFINE active == {p \in Posters : job[p] \in Active}
    <3>1. PICK redo \in SUBSET active :
            /\ job' = [p \in Posters |-> IF p \in redo THEN "waiting"
                                        ELSE IF p \in active THEN "done" ELSE job[p]]
            /\ skipped' = skipped \cup (active \ redo)
      BY <1>9 DEF ServerRestart
    <3>2. active \subseteq Posters
      OBVIOUS
    <3> HIDE DEF active
    <3> QED BY <1>0, <3>1, <3>2
  <2>2. NoRun \in RunRecords /\ RunDone \in RunRecords
    BY DEF RunDone, NoRun, RunRecords
  <2>3. run' \in [Runs -> RunRecords]
    BY <1>9, <2>2 DEF ServerRestart
  <2>4. cron' \in [at: {"idle", "trailer", "source", "update"}, trailer: Runs \cup {NoTrailer}]
    BY <1>9 DEF ServerRestart, NoCron
  <2>5. UNCHANGED <<r2, row, diskVars, failures, secured>>
    BY <1>9 DEF ServerRestart
  <2> QED BY <1>0, <2>1, <2>3, <2>4, <2>5, <2>6 DEF TypeOK, MediaRows, RunRecords, diskVars
<1>10. CASE UNCHANGED vars
  BY <1>10 DEF vars, TypeOK, diskVars, postVars, jobVars
<1> QED
  BY <1>1, <1>2, <1>3, <1>4, <1>5, <1>6, <1>7, <1>8, <1>9, <1>10 DEF Next, JobStep

\* A job that fails for the last time is over.
LEMMA AttemptsStep == TypeOK /\ Attempted /\ [Next]_vars => Attempted'
<1> SUFFICES ASSUME TypeOK, Attempted, [Next]_vars PROVE Attempted'
  OBVIOUS
<1>0. /\ pc \in [Posters -> {"new", "mark", "probe", "trailer", "done"}]
      /\ job \in [Posters -> {"none", "waiting", "done"} \cup Active]
      /\ failures \in [Posters -> 0..Attempts] /\ Attempts \in Nat
  BY MediaAssumption DEF TypeOK
<1>1. ASSUME NEW p \in Posters,
             GetFilesUrls(p) \/ MarkFileAsUploaded(p) \/ Probe(p) \/ PosterFails(p)
      PROVE  Attempted'
  <2>1. /\ \A q \in Posters \ {p} : pc'[q] = pc[q]
        /\ pc[p] # "done" /\ UNCHANGED <<job, failures>>
    BY <1>0, <1>1 DEF GetFilesUrls, MarkFileAsUploaded, Probe, PosterFails, Goto, Leave, jobVars
  <2> QED BY <2>1 DEF Attempted
<1>2. ASSUME NEW p \in Posters, Enqueue(p)
      PROVE  Attempted'
  <2>1. /\ pc[p] # "done" /\ pc'[p] = "done" /\ \A q \in Posters \ {p} : pc'[q] = pc[q]
        /\ \A q \in Posters \ {p} : job'[q] = job[q]
        /\ UNCHANGED failures
    BY <1>0, <1>2 DEF Enqueue, Goto, Leave
  <2>2. failures[p] < Attempts
    BY <2>1 DEF Attempted
  <2> QED BY <2>1, <2>2 DEF Attempted
<1>3. ASSUME NEW p \in Posters, JobStep(p), ~JobThrows(p)
      PROVE  Attempted'
  <2>1. /\ \A q \in Posters \ {p} : job'[q] = job[q]
        /\ job[p] \notin {"none", "done"} /\ UNCHANGED <<pc, failures>>
    BY <1>3, JobMoves DEF JobStep, JobStart, JobSwitchedOff, JobCheck, JobAccess, JobFails,
                          JobPut, JobReady, JobUnlink, postVars
  <2> QED BY <2>1 DEF Attempted
<1>4. ASSUME NEW p \in Posters, JobThrows(p)
      PROVE  Attempted'
  <2>1. /\ job[p] \notin {"none", "done"} /\ UNCHANGED pc
        /\ \A q \in Posters \ {p} : job'[q] = job[q] /\ failures'[q] = failures[q]
        /\ job'[p] # "done" => failures'[p] < Attempts
    BY <1>0, <1>4, JobMoves DEF JobThrows, postVars
  <2> QED BY <2>1 DEF Attempted
<1>5. CASE ServerRestart
  <2>1. /\ \A q \in Posters : pc'[q] # "done" => pc'[q] = "new" /\ pc[q] = "new"
        /\ \A q \in Posters : job[q] \in {"none", "done"} => job'[q] = job[q]
        /\ UNCHANGED failures
    BY <1>0, <1>5 DEF ServerRestart, Active
  <2> QED BY <2>1 DEF Attempted
<1>6. CASE \/ Upload \/ CronFind \/ CronUnlinkTrailer \/ CronUnlinkSource \/ CronUpdate
           \/ CronFails \/ UNCHANGED vars
  <2>1. UNCHANGED <<pc, job, failures>>
    BY <1>6 DEF Upload, CronFind, CronUnlinkTrailer, CronUnlinkSource, CronUpdate, CronFails,
                vars, postVars, jobVars
  <2> QED BY <2>1 DEF Attempted
<1>7. ASSUME NEW x \in Runs,
             \/ \E override \in BOOLEAN : Backfill(x, override)
             \/ TrailerRead(x) \/ TrailerStops(x) \/ TrailerEncode(x) \/ TrailerSave(x)
             \/ TrailerReplace(x)
      PROVE  Attempted'
  <2>1. UNCHANGED <<pc, job, failures>>
    BY <1>7 DEF Backfill, TrailerRead, TrailerStops, TrailerEncode, TrailerSave, TrailerReplace,
                postVars, jobVars
  <2> QED BY <2>1 DEF Attempted
<1> QED BY <1>1, <1>2, <1>3, <1>4, <1>5, <1>6, <1>7 DEF Next, JobStep
---------------------------------------------------------------------------
\* One job at a time; a job that has found work keeps the row PENDING until it
\* ends; and a row is READY only when the objects are stored.
JobsInv ==
  /\ \A p, q \in Posters : job[p] \in Active /\ job[q] \in Active => p = q
  /\ \A p \in Posters :
       /\ job[p] \in {"access", "put", "ready"} => row.transcode = "PENDING"
       /\ job[p] = "ready" => objects
       /\ job[p] = "unlink" => row.transcode = "READY"
  /\ row.transcode = "READY" => row.key /\ objects
  /\ row.status = "none" => row.transcode = "NOT_APPLICABLE"

\* A step that moves no job keeps this, as long as it does not transcode.
LEMMA JobsStay ==
  ASSUME JobsInv, UNCHANGED objects, row'.transcode = row.transcode, row'.key = row.key,
         row'.status = "none" => row.status = "none",
         \A p \in Posters : job'[p] = job[p] \/ job'[p] \notin Active
  PROVE  JobsInv'
BY DEF JobsInv, Active

\* Every step keeps the one active job and its row in agreement.
LEMMA JobsStep == TypeOK /\ JobsInv /\ [Next]_vars => JobsInv'
<1> SUFFICES ASSUME TypeOK, JobsInv, [Next]_vars PROVE JobsInv'
  OBVIOUS
<1>0. row \in MediaRows /\ job \in [Posters -> {"none", "waiting", "done"} \cup Active]
  BY DEF TypeOK, MediaRows
<1>1. CASE Upload
  <2>1. /\ UNCHANGED <<objects, job>> /\ row.transcode = "NOT_APPLICABLE"
        /\ row'.transcode \in {"NOT_APPLICABLE", "PENDING"} /\ row'.status = "PENDING"
    BY <1>0, <1>1 DEF Upload, JobsInv, MediaRows, jobVars
  <2> QED BY <2>1 DEF JobsInv
<1>2. ASSUME NEW p \in Posters, MarkFileAsUploaded(p)
      PROVE  JobsInv'
  <2>1. /\ UNCHANGED <<objects, job>> /\ row'.status = "UPLOADED"
        /\ row'.transcode = row.transcode /\ row'.key = row.key
    BY <1>0, <1>2 DEF MarkFileAsUploaded, MediaRows, diskVars, jobVars
  <2> QED BY <2>1, JobsStay
<1>3. ASSUME NEW p \in Posters, GetFilesUrls(p) \/ Probe(p) \/ PosterFails(p)
      PROVE  JobsInv'
  BY <1>3, JobsStay DEF GetFilesUrls, Probe, PosterFails, diskVars, jobVars
<1>4. ASSUME NEW p \in Posters, Enqueue(p)
      PROVE  JobsInv'
  <2>1. \A q \in Posters : job'[q] = job[q] \/ job'[q] \notin Active
    BY <1>0, <1>4 DEF Enqueue, Active
  <2> QED BY <1>4, <2>1, JobsStay DEF Enqueue, diskVars
<1>5. ASSUME NEW x \in Runs, TrailerSave(x)
      PROVE  JobsInv'
  <2>1. /\ UNCHANGED <<objects, job>> /\ row'.status = row.status
        /\ row'.transcode = row.transcode /\ row'.key = row.key
    BY <1>0, <1>5 DEF TrailerSave, MediaRows, jobVars
  <2> QED BY <2>1, JobsStay
<1>6. ASSUME NEW x \in Runs,
             \/ \E override \in BOOLEAN : Backfill(x, override)
             \/ TrailerRead(x) \/ TrailerStops(x) \/ TrailerEncode(x) \/ TrailerReplace(x)
      PROVE  JobsInv'
  <2>1. UNCHANGED <<objects, row, job>>
    BY <1>6 DEF Backfill, TrailerRead, TrailerStops, TrailerEncode, TrailerReplace, diskVars,
                jobVars
  <2> QED BY <2>1, JobsStay
<1>7. CASE CronFind \/ CronUnlinkTrailer \/ CronUnlinkSource \/ CronUpdate \/ CronFails
           \/ UNCHANGED vars
  <2>1. /\ UNCHANGED <<objects, job>> /\ row'.transcode = row.transcode /\ row'.key = row.key
        /\ row'.status = "none" => row.status = "none"
    BY <1>0, <1>7 DEF CronFind, CronUnlinkTrailer, CronUnlinkSource, CronUpdate, CronFails, vars,
                      MediaRows, diskVars, jobVars
  <2> QED BY <2>1, JobsStay
<1>8. ASSUME NEW p \in Posters, JobSwitchedOff(p) \/ JobThrows(p) \/ JobUnlink(p)
      PROVE  JobsInv'
  <2>1. /\ \A q \in Posters \ {p} : job'[q] = job[q]
        /\ job'[p] \in {"done", "waiting"} /\ UNCHANGED <<objects, row>>
    BY <1>8, JobMoves DEF JobSwitchedOff, JobThrows, JobUnlink, diskVars
  <2> QED BY <2>1, JobsStay DEF Active
<1>9. ASSUME NEW p \in Posters, JobStart(p)
      PROVE  JobsInv'
  <2>1. /\ \A q \in Posters \ {p} : job'[q] = job[q] /\ job[q] \notin Active
        /\ job'[p] = "check" /\ UNCHANGED <<objects, row>>
    BY <1>9, JobMoves DEF JobStart, diskVars
  <2> QED BY <2>1 DEF JobsInv
\* The job under way goes on.
<1>10. ASSUME NEW p \in Posters, job[p] \in Active, \A q \in Posters \ {p} : job'[q] = job[q]
       PROVE  /\ \A q \in Posters \ {p} : job'[q] \notin Active
              /\ \A q, s \in Posters : job'[q] \in Active /\ job'[s] \in Active => q = s
  BY <1>10 DEF JobsInv
<1>11. ASSUME NEW p \in Posters, JobCheck(p)
       PROVE  JobsInv'
  <2>1. /\ \A q \in Posters \ {p} : job'[q] = job[q] /\ job'[q] \notin Active
        /\ \A q, s \in Posters : job'[q] \in Active /\ job'[s] \in Active => q = s
        /\ job'[p] \in {"access", "done"} /\ UNCHANGED <<objects, row>>
        /\ job'[p] = "access" => row.transcode = "PENDING"
    BY <1>11, <1>10, JobMoves DEF JobCheck, diskVars, Active
  <2> QED BY <2>1 DEF JobsInv, Active
<1>12. ASSUME NEW p \in Posters, JobAccess(p) \/ JobPut(p)
       PROVE  JobsInv'
  <2>1. /\ \A q \in Posters \ {p} : job'[q] = job[q] /\ job'[q] \notin Active
        /\ \A q, s \in Posters : job'[q] \in Active /\ job'[s] \in Active => q = s
        /\ UNCHANGED row
        /\ job[p] \in {"access", "put"} /\ job'[p] \in {"put", "ready"}
        /\ job'[p] = "ready" => objects'
        /\ objects => objects'
    BY <1>12, <1>10, JobMoves DEF JobAccess, JobPut, diskVars, Active
  <2> QED BY <2>1 DEF JobsInv, Active
<1>13. ASSUME NEW p \in Posters, JobFails(p)
       PROVE  JobsInv'
  <2>1. /\ \A q \in Posters \ {p} : job'[q] = job[q] /\ job'[q] \notin Active
        /\ job'[p] = "done" /\ UNCHANGED objects
        /\ job[p] \in {"access", "put", "ready"}
        /\ row'.transcode = "FAILED" /\ row'.status = row.status
    BY <1>0, <1>13, <1>10, JobMoves DEF JobFails, diskVars, MediaRows, Active
  <2>2. row.status # "none"
    BY <2>1 DEF JobsInv
  <2> QED BY <2>1, <2>2 DEF JobsInv, Active
<1>14. ASSUME NEW p \in Posters, JobReady(p)
       PROVE  JobsInv'
  <2>1. /\ \A q \in Posters \ {p} : job'[q] = job[q] /\ job'[q] \notin Active
        /\ \A q, s \in Posters : job'[q] \in Active /\ job'[s] \in Active => q = s
        /\ job[p] = "ready" /\ job'[p] = "unlink" /\ UNCHANGED objects
        /\ row'.transcode = "READY" /\ row'.key /\ row'.status = row.status
    BY <1>0, <1>14, <1>10, JobMoves DEF JobReady, diskVars, MediaRows, Active
  <2>2. row.status # "none" /\ objects
    BY <2>1 DEF JobsInv
  <2> QED BY <2>1, <2>2 DEF JobsInv, Active
<1>15. CASE ServerRestart
  <2>1. \A q \in Posters : job'[q] = job[q] \/ job'[q] \notin Active
    BY <1>15 DEF ServerRestart, Active
  <2> QED BY <1>15, <2>1, JobsStay DEF ServerRestart, diskVars
<1> QED
  BY <1>1, <1>2, <1>3, <1>4, <1>5, <1>6, <1>7, <1>8, <1>9, <1>11, <1>12, <1>13, <1>14, <1>15
     DEF Next, JobStep

---------------------------------------------------------------------------
\* Each run saves its trailer once, so what the row, the clean-up or another run
\* has read is the trailer of a run that will not save it again; and until a run
\* has saved its trailer nobody else removes it.
Settled == {x \in Runs : run[x].at \in {"replace", "done"}} \cup {NoTrailer}

RunsInv ==
  /\ row.trailer \in Settled /\ cron.trailer \in Settled
  /\ \A x \in Runs :
       /\ run[x].previous \in Settled
       /\ run[x].at = "save" => x \in trailers
       /\ run[x].at = "replace" => run[x].previous # row.trailer

\* A step that saves no trailer and replaces none keeps this.
LEMMA RunsStay ==
  ASSUME RunsInv, row'.trailer = row.trailer,
         cron'.trailer \in {cron.trailer, row.trailer, NoTrailer},
         \A x \in Runs :
           \/ run'[x] = run[x] /\ (run[x].at = "save" /\ x \in trailers => x \in trailers')
           \/ /\ run'[x].previous \in Settled
              /\ run[x].at \in {"replace", "done"} => run'[x].at \in {"replace", "done"}
              /\ run'[x].at = "save" => x \in trailers'
              /\ run'[x].at # "replace"
  PROVE  RunsInv'
<1>1. Settled \subseteq Settled'
  BY DEF Settled
<1>2. row'.trailer \in Settled' /\ cron'.trailer \in Settled'
  BY <1>1 DEF RunsInv, Settled
<1>3. \A x \in Runs : run'[x].previous \in Settled'
  BY <1>1 DEF RunsInv
<1> QED BY <1>2, <1>3 DEF RunsInv

\* Every step keeps the trailers of the runs apart.
LEMMA RunsStep == TypeOK /\ RunsInv /\ [Next]_vars => RunsInv'
<1> SUFFICES ASSUME TypeOK, RunsInv, [Next]_vars PROVE RunsInv'
  OBVIOUS
<1>0. /\ row \in MediaRows /\ run \in [Runs -> RunRecords]
      /\ cron \in [at: {"idle", "trailer", "source", "update"}, trailer: Runs \cup {NoTrailer}]
      /\ NoTrailer \notin Runs
  BY MediaAssumption DEF TypeOK, MediaRows, RunRecords, Runs
<1>1. ASSUME UNCHANGED <<run, trailers>>, row'.trailer = row.trailer,
             cron'.trailer \in {cron.trailer, row.trailer, NoTrailer}
      PROVE  RunsInv'
  BY <1>1, RunsStay
<1>2. ASSUME NEW x \in Runs, NEW override \in BOOLEAN, Start(x, override),
             UNCHANGED <<trailers, cron>>, row'.trailer = row.trailer
      PROVE  RunsInv'
  <2>1. /\ run[x].at = "new" /\ run'[x].at = "read" /\ run'[x].previous \in Settled
        /\ \A y \in Runs \ {x} : run'[y] = run[y]
    BY <1>2, RunMoves DEF Settled
  <2> QED BY <1>2, <2>1, RunsStay
<1>3. CASE Upload
  <2>1. row'.trailer = row.trailer /\ UNCHANGED <<trailers, cron>>
    BY <1>0, <1>3 DEF Upload, MediaRows
  <2>2. CASE UNCHANGED run
    BY <1>1, <2>1, <2>2
  <2>3. CASE Start(UploadRun, FALSE)
    BY <1>2, <2>1, <2>3 DEF Runs
  <2> QED BY <1>3, <2>2, <2>3 DEF Upload
<1>4. ASSUME NEW p \in Posters,
             \/ GetFilesUrls(p) \/ MarkFileAsUploaded(p) \/ PosterFails(p) \/ Enqueue(p)
             \/ JobStep(p)
      PROVE  RunsInv'
  <2>1. UNCHANGED <<run, trailers, cron>>
    BY <1>4 DEF GetFilesUrls, MarkFileAsUploaded, PosterFails, Enqueue, JobStep, JobStart,
                JobSwitchedOff, JobCheck, JobAccess, JobFails, JobThrows, JobPut, JobReady,
                JobUnlink, diskVars
  <2>2. row'.trailer = row.trailer
    BY <1>0, <1>4 DEF GetFilesUrls, MarkFileAsUploaded, PosterFails, Enqueue, JobStep, JobStart,
                JobSwitchedOff, JobCheck, JobAccess, JobFails, JobThrows, JobPut, JobReady,
                JobUnlink, MediaRows
  <2> QED BY <1>1, <2>1, <2>2
<1>5. ASSUME NEW p \in Posters, Probe(p)
      PROVE  RunsInv'
  BY <1>2, <1>5 DEF Probe, diskVars, Runs
<1>6. ASSUME NEW x \in Runs, NEW override \in BOOLEAN, Backfill(x, override)
      PROVE  RunsInv'
  BY <1>2, <1>6 DEF Backfill, diskVars
<1>7. ASSUME NEW x \in Runs, TrailerRead(x)
      PROVE  RunsInv'
  <2> DEFINE q == IF run[x].override THEN row.trailer ELSE NoTrailer
  <2>1. /\ run[x].at = "read" /\ UNCHANGED <<row, trailers, cron>>
        /\ run' = [run EXCEPT ![x] = [run[x] EXCEPT !.at = "encode", !.previous = q]]
    BY <1>7 DEF TrailerRead, diskVars
  <2>2. q \in Settled
    BY DEF RunsInv, Settled
  <2> HIDE DEF q
  <2>3. run[x] \in RunRecords
    BY <1>0
  <2>4. /\ run'[x].at = "encode" /\ run'[x].previous = q
        /\ \A y \in Runs \ {x} : run'[y] = run[y]
    BY <1>0, <2>1, <2>3 DEF RunRecords
  <2> QED BY <2>1, <2>2, <2>4, RunsStay
<1>8. ASSUME NEW x \in Runs, TrailerStops(x)
      PROVE  RunsInv'
  <2>1. /\ run'[x].at = "done" /\ run'[x].previous \in Settled
        /\ \A y \in Runs \ {x} : run'[y] = run[y]
    BY <1>8, RunMoves DEF TrailerStops, Settled
  <2> QED BY <1>8, <2>1, RunsStay DEF TrailerStops, diskVars
<1>9. ASSUME NEW x \in Runs, TrailerEncode(x)
      PROVE  RunsInv'
  <2>1. /\ run[x].at = "encode" /\ run'[x].at = "save" /\ run'[x].previous = run[x].previous
        /\ \A y \in Runs \ {x} : run'[y] = run[y]
        /\ trailers' = trailers \cup {x} /\ UNCHANGED <<row, cron>>
    BY <1>9, RunMoves DEF TrailerEncode
  <2>2. run'[x].previous \in Settled
    BY <2>1 DEF RunsInv
  <2> QED BY <2>1, <2>2, RunsStay
<1>10. ASSUME NEW x \in Runs, TrailerSave(x), run[x].override \/ row.trailer = NoTrailer
       PROVE  RunsInv'
  <2>1. /\ run[x].at = "save" /\ row' = [row EXCEPT !.trailer = x]
        /\ IF run[x].previous = NoTrailer THEN RunEnds(x) ELSE RunTo(x, "replace")
        /\ UNCHANGED <<trailers, cron>>
    BY <1>10 DEF TrailerSave
  <2>2. /\ run'[x].at \in {"done", "replace"}
        /\ run'[x].previous \in {run[x].previous, NoTrailer}
        /\ \A y \in Runs \ {x} : run'[y] = run[y]
    BY <2>1, RunMoves
  <2>3. row'.trailer = x
    BY <1>0, <2>1 DEF MediaRows
  <2>4. Settled' = Settled \cup {x} /\ x \notin Settled
    BY <1>0, <2>1, <2>2 DEF Settled
  <2>5. NoTrailer \in Settled
    BY DEF Settled
  <2>6. \A y \in Runs : run'[y].previous \in Settled
    BY <2>2, <2>5 DEF RunsInv
  <2>7. \A y \in Runs : run'[y].at = "save" => y \in trailers'
    BY <2>1, <2>2 DEF RunsInv
  <2> QED BY <2>1, <2>3, <2>4, <2>6, <2>7 DEF RunsInv
<1>11. ASSUME NEW x \in Runs, TrailerSave(x), ~(run[x].override \/ row.trailer = NoTrailer)
       PROVE  RunsInv'
  <2>1. /\ run[x].at = "save" /\ trailers' = trailers \ {x} /\ RunEnds(x)
        /\ UNCHANGED <<row, cron>>
    BY <1>11 DEF TrailerSave
  <2>2. /\ run'[x].at = "done" /\ run'[x].previous \in Settled
        /\ \A y \in Runs \ {x} : run'[y] = run[y]
    BY <2>1, RunMoves DEF Settled
  <2> QED BY <2>1, <2>2, RunsStay
\* What is removed is settled, so no run is about to save it.
<1>12. ASSUME NEW t \in Settled, trailers' = trailers \ {t}
       PROVE  \A y \in Runs : run[y].at = "save" /\ y \in trailers => y \in trailers'
  BY <1>0, <1>12 DEF Settled
<1>13. ASSUME NEW x \in Runs, TrailerReplace(x)
       PROVE  RunsInv'
  <2>1. /\ run[x].at = "replace" /\ trailers' = trailers \ {run[x].previous}
        /\ UNCHANGED <<row, cron>>
        /\ run'[x].at = "done" /\ run'[x].previous \in Settled
        /\ \A y \in Runs \ {x} : run'[y] = run[y]
    BY <1>13, RunMoves DEF TrailerReplace, Settled
  <2>2. \A y \in Runs : run[y].at = "save" /\ y \in trailers => y \in trailers'
    BY <2>1, <1>12 DEF RunsInv
  <2> QED BY <2>1, <2>2, RunsStay
<1>14. CASE CronUnlinkTrailer
  <2>1. trailers' = trailers \ {cron.trailer} /\ UNCHANGED <<row, run>>
        /\ cron'.trailer = cron.trailer
    BY <1>0, <1>14 DEF CronUnlinkTrailer, CronTo
  <2>2. \A y \in Runs : run[y].at = "save" /\ y \in trailers => y \in trailers'
    BY <2>1, <1>12 DEF RunsInv
  <2> QED BY <2>1, <2>2, RunsStay
<1>15. CASE CronFind \/ CronUnlinkSource \/ CronUpdate \/ CronFails
  <2>1. UNCHANGED <<run, trailers>>
    BY <1>15 DEF CronFind, CronUnlinkSource, CronUpdate, CronFails, diskVars
  <2>2. row'.trailer = row.trailer /\ cron'.trailer \in {cron.trailer, row.trailer, NoTrailer}
    BY <1>0, <1>15 DEF CronFind, CronUnlinkSource, CronUpdate, CronFails, CronTo, NoCron, MediaRows
  <2> QED BY <1>1, <2>1, <2>2
<1>16. CASE ServerRestart
  <2>1. /\ UNCHANGED <<row, trailers>> /\ cron'.trailer = NoTrailer
        /\ \A x \in Runs : run'[x] = IF run[x].at = "new" THEN NoRun ELSE RunDone
    BY <1>16 DEF ServerRestart, NoCron, diskVars
  <2>2. \A x \in Runs : /\ run'[x].previous \in Settled
                        /\ run'[x].at = IF run[x].at = "new" THEN "new" ELSE "done"
    BY <2>1 DEF NoRun, RunDone, Settled
  <2> QED BY <2>1, <2>2, RunsStay
<1>17. CASE UNCHANGED vars
  BY <1>1, <1>17 DEF vars, diskVars
<1> QED
  BY <1>3, <1>4, <1>5, <1>6, <1>7, <1>8, <1>9, <1>10, <1>11, <1>13, <1>14, <1>15, <1>16, <1>17
     DEF Next
---------------------------------------------------------------------------
\* Why a file in use stays playable: a clean-up that starts later finds it
\* UPLOADED, and the source goes only when the row already points to the objects.
Secured ==
  secured => /\ row.status = "UPLOADED" /\ Playable(row) /\ cron.at = "idle"
             /\ row.trailer # NoTrailer => row.trailer \in trailers

\* No step takes the bytes or the trailer of a file in use.
LEMMA SecuredStep ==
  TypeOK /\ JobsInv /\ RunsInv /\ Secured /\ [Next]_vars => Secured'
<1> SUFFICES ASSUME TypeOK, JobsInv, RunsInv, Secured, [Next]_vars, secured'
             PROVE  /\ row'.status = "UPLOADED" /\ Playable(row)' /\ cron'.at = "idle"
                    /\ row'.trailer # NoTrailer => row'.trailer \in trailers'
  BY DEF Secured
<1> DEFINE Kept == /\ row'.status = "UPLOADED" /\ Playable(row)' /\ cron'.at = "idle"
                   /\ row'.trailer # NoTrailer => row'.trailer \in trailers'
<1>0. /\ row \in MediaRows /\ NoTrailer \notin Runs /\ trailers \subseteq Runs
  BY MediaAssumption DEF TypeOK, MediaRows, Runs
<1>1. ASSUME secured, UNCHANGED <<row, source, objects, cron>>,
             row.trailer \in trailers => row.trailer \in trailers'
      PROVE  Kept
  BY <1>1 DEF Secured, Playable
<1>2. CASE Upload
  <2>1. secured /\ row.status = "none"
    BY <1>2 DEF Upload
  <2> QED BY <2>1 DEF Secured
<1>3. ASSUME NEW p \in Posters, MarkFileAsUploaded(p)
      PROVE  Kept
  <2>1. /\ row' = [row EXCEPT !.status = "UPLOADED"]
        /\ UNCHANGED <<source, trailers, objects, cron>>
        /\ secured' = (secured \/ /\ cron.at = "idle" /\ row.status # "DELETED"
                                  /\ Playable(row') /\ row.trailer \in trailers \cup {NoTrailer})
    BY <1>3 DEF MarkFileAsUploaded, diskVars
  <2>2. row'.status = "UPLOADED" /\ row'.trailer = row.trailer
        /\ row'.key = row.key /\ row'.transcode = row.transcode /\ row'.path = row.path
    BY <1>0, <2>1 DEF MediaRows
  <2>3. CASE secured
    BY <2>1, <2>2, <2>3 DEF Secured, Playable
  <2>4. CASE ~secured
    <3>1. cron.at = "idle" /\ Playable(row') /\ row.trailer \in trailers \cup {NoTrailer}
      BY <2>1, <2>4
    <3> QED BY <2>1, <2>2, <3>1 DEF Playable
  <2> QED BY <2>3, <2>4
<1>4. ASSUME NEW p \in Posters, GetFilesUrls(p) \/ Probe(p) \/ PosterFails(p) \/ Enqueue(p)
      PROVE  Kept
  <2>1. UNCHANGED <<row, source, trailers, objects, cron, secured>>
    BY <1>4 DEF GetFilesUrls, Probe, PosterFails, Enqueue, diskVars
  <2> QED BY <1>1, <2>1
<1>5. ASSUME NEW x \in Runs,
             \/ \E override \in BOOLEAN : Backfill(x, override)
             \/ TrailerRead(x) \/ TrailerStops(x) \/ TrailerEncode(x)
      PROVE  Kept
  <2>1. /\ UNCHANGED <<row, source, objects, cron, secured>> /\ trailers \subseteq trailers'
    BY <1>5 DEF Backfill, TrailerRead, TrailerStops, TrailerEncode, diskVars
  <2> QED BY <1>1, <2>1
<1>6. ASSUME NEW x \in Runs, TrailerSave(x)
      PROVE  Kept
  <2>1. secured /\ run[x].at = "save" /\ x \in trailers /\ UNCHANGED <<source, objects, cron>>
    BY <1>6 DEF TrailerSave, RunsInv
  <2>2. CASE run[x].override \/ row.trailer = NoTrailer
    <3>1. row' = [row EXCEPT !.trailer = x] /\ UNCHANGED trailers
      BY <1>6, <2>2 DEF TrailerSave
    <3>2. /\ row'.trailer = x /\ row'.status = row.status /\ row'.key = row.key
          /\ row'.transcode = row.transcode /\ row'.path = row.path
      BY <1>0, <3>1 DEF MediaRows
    <3> QED BY <2>1, <3>1, <3>2 DEF Secured, Playable
  <2>3. CASE ~(run[x].override \/ row.trailer = NoTrailer)
    <3>1. trailers' = trailers \ {x} /\ UNCHANGED row
      BY <1>6, <2>3 DEF TrailerSave
    <3>2. row.trailer # x
      BY <1>0, <2>1 DEF RunsInv, Settled
    <3> QED BY <1>1, <2>1, <3>1, <3>2
  <2> QED BY <2>2, <2>3
<1>7. ASSUME NEW x \in Runs, TrailerReplace(x)
      PROVE  Kept
  <2>1. /\ secured /\ UNCHANGED <<row, source, objects, cron>>
        /\ trailers' = trailers \ {run[x].previous} /\ run[x].previous # row.trailer
    BY <1>7 DEF TrailerReplace, RunsInv
  <2> QED BY <1>1, <2>1
<1>8. CASE CronFind \/ CronUnlinkTrailer \/ CronUnlinkSource \/ CronUpdate \/ CronFails
  <2>1. secured /\ (row.status = "PENDING" \/ cron.at # "idle")
    BY <1>8 DEF CronFind, CronUnlinkTrailer, CronUnlinkSource, CronUpdate, CronFails
  <2> QED BY <2>1 DEF Secured
<1>9. ASSUME NEW p \in Posters,
             JobStart(p) \/ JobSwitchedOff(p) \/ JobCheck(p) \/ JobAccess(p) \/ JobThrows(p)
      PROVE  Kept
  <2>1. UNCHANGED <<row, source, trailers, objects, cron, secured>>
    BY <1>9 DEF JobStart, JobSwitchedOff, JobCheck, JobAccess, JobThrows, diskVars
  <2> QED BY <1>1, <2>1
<1>10. ASSUME NEW p \in Posters, JobPut(p)
       PROVE  Kept
  <2>1. UNCHANGED <<row, source, trailers, cron, secured>> /\ objects'
    BY <1>10 DEF JobPut
  <2> QED BY <2>1 DEF Secured, Playable
<1>11. ASSUME NEW p \in Posters, JobFails(p)
       PROVE  Kept
  <2>1. /\ UNCHANGED <<source, trailers, objects, cron, secured>>
        /\ row' = [row EXCEPT !.transcode = "FAILED"] /\ row.transcode = "PENDING"
    BY <1>11 DEF JobFails, diskVars, JobsInv
  <2>2. /\ row'.transcode = "FAILED" /\ row'.status = row.status
        /\ row'.trailer = row.trailer /\ row'.path = row.path
    BY <1>0, <2>1 DEF MediaRows
  <2> QED BY <2>1, <2>2 DEF Secured, Playable
<1>12. ASSUME NEW p \in Posters, JobReady(p)
       PROVE  Kept
  <2>1. /\ UNCHANGED <<source, trailers, objects, cron, secured>> /\ objects
        /\ row' = [row EXCEPT !.transcode = "READY", !.key = TRUE, !.path = FALSE]
    BY <1>12 DEF JobReady, diskVars, JobsInv
  <2>2. row'.status = row.status /\ row'.trailer = row.trailer
        /\ row'.transcode = "READY" /\ row'.key
    BY <1>0, <2>1 DEF MediaRows
  <2> QED BY <2>1, <2>2 DEF Secured, Playable
<1>13. ASSUME NEW p \in Posters, JobUnlink(p)
       PROVE  Kept
  <2>1. /\ UNCHANGED <<row, trailers, objects, cron, secured>>
        /\ row.transcode = "READY" /\ row.key /\ objects
    BY <1>13 DEF JobUnlink, JobsInv
  <2> QED BY <2>1 DEF Secured, Playable
<1>14. CASE ServerRestart
  <2>1. UNCHANGED <<row, source, trailers, objects, secured>> /\ cron'.at = "idle"
    BY <1>14 DEF ServerRestart, NoCron, diskVars
  <2> QED BY <2>1 DEF Secured, Playable
<1>15. CASE UNCHANGED vars
  BY <1>1, <1>15 DEF vars, diskVars
<1> QED
  BY <1>2, <1>3, <1>4, <1>5, <1>6, <1>7, <1>8, <1>9, <1>10, <1>11, <1>12, <1>13, <1>14, <1>15
     DEF Next, JobStep

---------------------------------------------------------------------------
\* What every state of the file satisfies.
MediaInv == TypeOK /\ Attempted /\ JobsInv /\ RunsInv /\ Secured

\* What every state of the file satisfies.
LEMMA MediaInvariance == Spec => []MediaInv
<1>1. Init => MediaInv
  <2> SUFFICES ASSUME Init PROVE MediaInv
    OBVIOUS
  <2> USE MediaAssumption DEF Init
  <2>1. TypeOK
    <3>1. row \in MediaRows
      BY DEF MediaRows
    <3>2. NoRun \in RunRecords
      BY DEF NoRun, RunRecords
    <3>3. run \in [Runs -> RunRecords]
      BY <3>2
    <3>4. cron \in [at: {"idle", "trailer", "source", "update"}, trailer: Runs \cup {NoTrailer}]
      BY DEF NoCron
    <3>5. /\ pc \in [Posters -> {"new", "mark", "probe", "trailer", "done"}]
          /\ wants \in [Posters -> BOOLEAN]
          /\ job \in [Posters -> {"none", "waiting", "done"} \cup Active]
          /\ failures \in [Posters -> 0..Attempts]
      OBVIOUS
    <3>6. /\ source \in BOOLEAN /\ objects \in BOOLEAN /\ r2 \in BOOLEAN /\ secured \in BOOLEAN
      OBVIOUS
    <3>7. trailers \subseteq Runs /\ skipped \subseteq Posters /\ restarts \in 0..MaxRestarts
      OBVIOUS
    <3> QED BY <3>1, <3>3, <3>4, <3>5, <3>6, <3>7 DEF TypeOK, MediaRows, RunRecords
  <2>2. Attempted
    BY DEF Attempted
  <2>3. JobsInv
    BY DEF JobsInv, Active
  <2>4. RunsInv
    BY DEF RunsInv, Settled, NoRun, NoCron
  <2>5. Secured
    BY DEF Secured
  <2> QED BY <2>1, <2>2, <2>3, <2>4, <2>5 DEF MediaInv
<1>2. MediaInv /\ [Next]_vars => MediaInv'
  BY MediaTypeStep, AttemptsStep, JobsStep, RunsStep, SecuredStep DEF MediaInv
<1> QED BY <1>1, <1>2, PTL DEF Spec

\* Type correctness of the file, its posts, trailer runs and jobs.
THEOREM MediaTypeCorrect == Spec => []TypeOK
<1>1. MediaInv => TypeOK
  BY DEF MediaInv
<1> QED BY <1>1, MediaInvariance, PTL

\* A file put to use with its bytes there, and no clean-up on its way, can be
\* streamed from then on, through every clean-up, transcode, attempt, redelivery,
\* restart and trailer run.
THEOREM PublishedStaysPlayable == Spec => []PublishedPlayable
<1>1. MediaInv => PublishedPlayable
  BY DEF MediaInv, Secured, PublishedPlayable
<1> QED BY <1>1, MediaInvariance, PTL

\* And the trailer its row names is on disk, whichever run saved it last.
THEOREM TrailerStaysOnDisk == Spec => []TrailerOnDisk
<1>1. MediaInv => TrailerOnDisk
  BY DEF MediaInv, Secured, TrailerOnDisk
<1> QED BY <1>1, MediaInvariance, PTL
=============================================================================
