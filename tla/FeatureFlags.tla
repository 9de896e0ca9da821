-------------------------------- MODULE FeatureFlags --------------------------------
(***************************************************************************)
(* FeatureFlagService (src/src/feature-flag/feature-flag.service.ts): one  *)
(* feature flag in the database, the cache in front of it, the admin who   *)
(* switches it, and the callers that ask whether it is enabled.  A caller  *)
(* that finds the cache expired queries the database and fills the cache,  *)
(* which other callers and the admin may do in between.                    *)
(***************************************************************************)
EXTENDS Naturals

CONSTANTS
  Callers,    \* requests that ask for the flag
  Ttl,        \* cacheTtlMs, in ticks of the clock
  MaxClock    \* bound: ticks

ASSUME FlagAssumption == Ttl \in Nat \ {0} /\ MaxClock \in Nat

VARIABLES
  clock,
  enabled,    \* the row of the flag: on or off
  held,       \* when the row last had each of its values
  cache,      \* the value in the cache, and when it expires
  patching,   \* an admin has written the row and not yet cleared the cache
  ask         \* isEnabled per caller: when it asked, and what it has learnt

flagVars == <<clock, enabled, held, cache, patching, ask>>

Settings == {"on", "off"}
NoCache == [value |-> "on", expires |-> 0]
NoAsk == [at |-> "idle", since |-> 0, value |-> "on"]

FlagTypeOK ==
  /\ clock \in Nat /\ enabled \in Settings /\ patching \in BOOLEAN
  /\ held \in [Settings -> Nat]
  /\ cache \in [value: Settings, expires: Nat]
  /\ ask \in [Callers -> [at: {"idle", "query", "fill", "told"}, since: Nat, value: Settings]]

\* The row is created enabled; a restart never overwrites it.
FlagInit ==
  /\ clock = Ttl /\ enabled \in Settings /\ patching = FALSE
  /\ held = [v \in Settings |-> IF v = enabled THEN Ttl ELSE 0]
  /\ cache = NoCache
  /\ ask = [c \in Callers |-> NoAsk]

Tick ==
  /\ clock < MaxClock
  /\ clock' = clock + 1
  /\ held' = [held EXCEPT ![enabled] = clock + 1]
  /\ UNCHANGED <<enabled, cache, patching, ask>>

\* patchFlag: the row first, ...
PatchFlag ==
  /\ ~patching
  /\ enabled' = (IF enabled = "on" THEN "off" ELSE "on") /\ patching' = TRUE
  /\ held' = [held EXCEPT ![enabled'] = clock]
  /\ UNCHANGED <<clock, cache, ask>>

\* ... then bumpCache.  A process that starts does the same.
BumpCache ==
  /\ cache' = NoCache /\ patching' = FALSE
  /\ UNCHANGED <<clock, enabled, held, ask>>

\* loadEnabledMap: from the cache while it lasts, ...
Ask(c) ==
  /\ ask[c].at = "idle"
  /\ ask' = [ask EXCEPT ![c] = IF clock < cache.expires
                               THEN [at |-> "told", since |-> clock, value |-> cache.value]
                               ELSE [at |-> "query", since |-> clock, value |-> "on"]]
  /\ UNCHANGED <<clock, enabled, held, cache, patching>>

\* ... otherwise from the database, ...
Query(c) ==
  /\ ask[c].at = "query"
  /\ ask' = [ask EXCEPT ![c].at = "fill", ![c].value = enabled]
  /\ UNCHANGED <<clock, enabled, held, cache, patching>>

\* Mutant: the cache expires a Ttl after the answer, not after the question.
FillFromNow(c) ==
  /\ ask[c].at = "fill"
  /\ cache' = [value |-> ask[c].value, expires |-> clock + Ttl]
  /\ ask' = [ask EXCEPT ![c].at = "told"]
  /\ UNCHANGED <<clock, enabled, held, patching>>

\* ... which replaces whatever is in the cache by then, for a Ttl from the time
\* the question was asked.
Fill(c) ==
  /\ ask[c].at = "fill"
  /\ cache' = [value |-> ask[c].value, expires |-> ask[c].since + Ttl]
  /\ ask' = [ask EXCEPT ![c].at = "told"]
  /\ UNCHANGED <<clock, enabled, held, patching>>

\* The caller goes on with the answer, or its request ended before it came.
Forget(c) ==
  /\ ask' = [ask EXCEPT ![c] = NoAsk]
  /\ UNCHANGED <<clock, enabled, held, cache, patching>>

FlagNext ==
  \/ Tick \/ PatchFlag \/ BumpCache
  \/ \E c \in Callers : Ask(c) \/ Query(c) \/ Fill(c) \/ Forget(c)

FlagSpec == FlagInit /\ [][FlagNext]_flagVars

\* An answer is never older than the Ttl: whatever loads overlap and whenever
\* the admin clears the cache, the row had the value that isEnabled returns at
\* a time less than a Ttl before the caller asked, or later.
FlagFresh ==
  \A c \in Callers : ask[c].at = "told" => held[ask[c].value] + Ttl > ask[c].since
=============================================================================
