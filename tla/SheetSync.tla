------------------------------ MODULE SheetSync ------------------------------
(***************************************************************************)
(* Scheduled reading of the Google Sheet: the one row of                   *)
(* google_sheet_configs, which administrators edit by version              *)
(* (SaveConfig) and the schedulers advance (ScheduleDue), and the previews *)
(* that come of it.  A scheduler commits the next time before it fetches;  *)
(* Preview then reads the configuration again, fetches and stores, with    *)
(* other processes running in between.  What becomes of an import's rows   *)
(* is the business of module Inventory.                                    *)
(***************************************************************************)
EXTENDS Naturals

CONSTANTS
  Syncers,        \* schedulers
  Editors,        \* administrators with the configuration page open
  Spreadsheets,   \* sheets that can be configured
  Contents,       \* hashes of what they may hold
  SyncInterval,
  MaxConfig,      \* bound on the versions of the configuration
  SyncHorizon     \* bound on time

ASSUME SheetSyncAssumption ==
  /\ SyncInterval \in Nat \ {0} /\ MaxConfig \in Nat \ {0} /\ SyncHorizon \in Nat \ {0}
  /\ "none" \notin Spreadsheets \cup Contents

VARIABLES
  syncTime,
  config,     \* google_sheet_configs; version 0 when there is no row; since: the version that enabled it
  page,       \* per editor: the version its page shows
  content,    \* what a sheet holds now
  sync,       \* per scheduler: the call of ScheduleDue
  imports,    \* google_sheet_imports of this source
  claims      \* the due times taken: when, and of which enabling

syncVars == <<syncTime, config, page, content, sync, imports, claims>>

SyncTimes == 0 .. SyncHorizon + SyncInterval
NotSet == 0   \* NULL next_sync_at
Nobody == "none"
NoSync == [phase |-> "idle", due |-> NotSet, sheet |-> Nobody, hash |-> Nobody]
NoConfig == [version |-> 0, sheet |-> Nobody, enabled |-> FALSE, next |-> NotSet, since |-> 0]

SheetSyncTypeOK ==
  /\ syncTime \in 1 .. SyncHorizon
  /\ config \in [version : 0 .. MaxConfig, sheet : Spreadsheets \cup {Nobody}, enabled : BOOLEAN,
                 next : SyncTimes, since : 0 .. MaxConfig]
  /\ page \in [Editors -> 0 .. MaxConfig]
  /\ content \in [Spreadsheets -> Contents]
  /\ sync \in [Syncers -> [phase : {"idle", "claiming", "claimed", "fetching", "storing"}, due : SyncTimes,
                           sheet : Spreadsheets \cup {Nobody}, hash : Contents \cup {Nobody}]]
  /\ imports \subseteq [key : SyncTimes, sheet : Spreadsheets, hash : Contents, open : BOOLEAN]
  /\ claims \subseteq [due : SyncTimes, at : SyncTimes, by : Syncers, since : 0 .. MaxConfig]

SheetSyncInit ==
  /\ syncTime = 1
  /\ config = NoConfig
  /\ page = [e \in Editors |-> 0]
  /\ content \in [Spreadsheets -> Contents]
  /\ sync = [r \in Syncers |-> NoSync]
  /\ imports = {} /\ claims = {}

-----------------------------------------------------------------------------
(* The configuration                                                       *)

\* GetConfig, for the page of an editor.
OpenPage(e) ==
  /\ page[e] # config.version
  /\ page' = [page EXCEPT ![e] = config.version]
  /\ UNCHANGED <<syncTime, config, content, sync, imports, claims>>

\* No scheduler is between its SELECT ... FOR UPDATE and its commit.
ConfigUnlocked == \A r \in Syncers : sync[r].phase # "claiming"

NextOnSave(enabled) ==
  IF ~enabled THEN NotSet
  ELSE IF ~config.enabled \/ config.next = NotSet THEN syncTime ELSE config.next

PageIsCurrent(e) == page[e] = config.version

\* A page that is out of date is refused; so is a first configuration, when there is one.
SaveConfig(e, sheet, enabled) ==
  /\ ConfigUnlocked
  /\ PageIsCurrent(e)
  /\ config.version < MaxConfig
  /\ config' = [version |-> config.version + 1, sheet |-> sheet, enabled |-> enabled,
                next |-> NextOnSave(enabled),
                since |-> IF enabled /\ ~config.enabled THEN config.version + 1 ELSE config.since]
  /\ page' = [page EXCEPT ![e] = config.version + 1]
  /\ UNCHANGED <<syncTime, content, sync, imports, claims>>

-----------------------------------------------------------------------------
(* ScheduleDue                                                             *)

\* SELECT ... WHERE enabled AND next_sync_at <= now() FOR UPDATE SKIP LOCKED
ClaimRead(r) ==
  /\ sync[r].phase = "idle" /\ ConfigUnlocked
  /\ config.enabled /\ config.next # NotSet /\ config.next <= syncTime
  /\ config.version < MaxConfig
  /\ sync' = [sync EXCEPT ![r] = [NoSync EXCEPT !.phase = "claiming", !.due = config.next]]
  /\ UNCHANGED <<syncTime, config, page, content, imports, claims>>

FromDue(r) == sync[r].due + 1
FromNow(r) == syncTime + SyncInterval

ClaimCommit(r) ==
  /\ sync[r].phase = "claiming"
  /\ config' = [config EXCEPT !.next = FromNow(r), !.version = @ + 1]
  /\ claims' = claims \cup {[due |-> sync[r].due, at |-> syncTime, by |-> r, since |-> config.since]}
  /\ sync' = [sync EXCEPT ![r].phase = "claimed"]
  /\ UNCHANGED <<syncTime, page, content, imports>>

\* Preview reads the configuration anew, enabled or not.
ReadConfig(r) ==
  /\ sync[r].phase = "claimed"
  /\ sync' = [sync EXCEPT ![r].phase = "fetching", ![r].sheet = config.sheet]
  /\ UNCHANGED <<syncTime, config, page, content, imports, claims>>

\* previewSnapshot returns the import of this key, or the open one of this content.
Existing(r, hash) ==
  \E i \in imports : i.key = sync[r].due \/ (i.open /\ i.sheet = sync[r].sheet /\ i.hash = hash)

Fetch(r) ==
  LET hash == content[sync[r].sheet] IN
  /\ sync[r].phase = "fetching"
  /\ sync' = [sync EXCEPT ![r] = IF Existing(r, hash) THEN NoSync
                                 ELSE [sync[r] EXCEPT !.phase = "storing", !.hash = hash]]
  /\ UNCHANGED <<syncTime, config, page, content, imports, claims>>

Refused(r) == Existing(r, sync[r].hash)

\* The two unique indexes turn a preview stored meanwhile into the answer.
StorePreview(r) ==
  /\ sync[r].phase = "storing"
  /\ imports' = IF Refused(r) THEN imports
                ELSE imports \cup {[key |-> sync[r].due, sheet |-> sync[r].sheet,
                                    hash |-> sync[r].hash, open |-> TRUE]}
  /\ sync' = [sync EXCEPT ![r] = NoSync]
  /\ UNCHANGED <<syncTime, config, page, content, claims>>

\* The sheet cannot be read, or the scheduler dies: the interval is skipped.
SyncFails(r) ==
  /\ sync[r].phase # "idle"
  /\ sync' = [sync EXCEPT ![r] = NoSync]
  /\ UNCHANGED <<syncTime, config, page, content, imports, claims>>

-----------------------------------------------------------------------------
(* Surroundings                                                            *)

\* Apply or Reject
CloseImport(i) ==
  /\ i.open
  /\ imports' = (imports \ {i}) \cup {[i EXCEPT !.open = FALSE]}
  /\ UNCHANGED <<syncTime, config, page, content, sync, claims>>

EditSheet(s, hash) ==
  /\ content[s] # hash
  /\ content' = [content EXCEPT ![s] = hash]
  /\ UNCHANGED <<syncTime, config, page, sync, imports, claims>>

SyncTick ==
  /\ syncTime < SyncHorizon
  /\ syncTime' = syncTime + 1
  /\ UNCHANGED <<config, page, content, sync, imports, claims>>

SheetSyncNext ==
  \/ \E e \in Editors :
       \/ OpenPage(e)
       \/ \E s \in Spreadsheets, enabled \in BOOLEAN : SaveConfig(e, s, enabled)
  \/ \E r \in Syncers :
       \/ ClaimRead(r) \/ ClaimCommit(r) \/ ReadConfig(r) \/ Fetch(r) \/ StorePreview(r) \/ SyncFails(r)
  \/ \E i \in imports : CloseImport(i)
  \/ \E s \in Spreadsheets, hash \in Contents : EditSheet(s, hash)
  \/ SyncTick

SheetSyncSpec == SheetSyncInit /\ [][SheetSyncNext]_syncVars

-----------------------------------------------------------------------------
(***************************************************************************)
(* The configuration has a next time exactly while it is enabled, though   *)
(* SaveConfig and ScheduleDue both write it: a scheduler does not set a    *)
(* time again that an administrator has just cleared.                      *)
(***************************************************************************)
NextExactlyIfEnabled == config.enabled <=> config.next # NotSet

(***************************************************************************)
(* Two readings of the sheet under one enabling of the schedule are        *)
(* SyncInterval apart, whichever schedulers take them and however often    *)
(* the configuration is edited meanwhile.                                  *)
(***************************************************************************)
SyncsAreSpaced ==
  \A c, d \in claims :
    c # d /\ c.since = d.since => c.at >= d.at + SyncInterval \/ d.at >= c.at + SyncInterval

(***************************************************************************)
(* Of one content of a sheet at most one preview is open, and a due time   *)
(* has at most one, whichever schedulers stored them.                      *)
(***************************************************************************)
OneOpenPreview ==
  \A i, j \in imports : i.key = j.key \/ (i.open /\ j.open /\ i.sheet = j.sheet /\ i.hash = j.hash) => i = j
=============================================================================
