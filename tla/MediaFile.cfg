\* Two posts use the file, one backfill run (with or without the override), the
\* two attempts of a transcode job, and a restart that may strike anything.
SPECIFICATION FairSpec
CONSTANTS
  Posters = {p1, p2}
  Backfills = {b1}
  UploadRun = u
  NoTrailer = NoTrailer
  MaxRestarts = 1
  Attempts = 2
  Users = {ann, bob}
  Guest = Guest
  PostIds = {q1, q2}
  Files = {f1}
CHECK_DEADLOCK FALSE
INVARIANTS
  TypeOK
  PublishedPlayable
  TrailerOnDisk
PROPERTIES
  JobsSettle
