-------------------------- MODULE ExecutionJournal --------------------------
(***************************************************************************)
(* The execution journal of the research record                           *)
(* (scripts/research/execution_journal.py): one live file to which events  *)
(* are appended, an archive directory of immutable segments with a          *)
(* manifest, and the `migrate` command that moves events from the first to  *)
(* the second.  The file operations of a migration are separate steps, so    *)
(* an event may be appended and the process may fail or be killed between    *)
(* any two of them.                                                          *)
(*                                                                         *)
(* An event is [day, seq, n]: its printed ID is <<day, seq>>, and n (its     *)
(* place in the history of appends) stands for its text.  A payload is the   *)
(* sequence of its events; two payloads are the same bytes exactly when they *)
(* are the same sequence.                                                    *)
(***************************************************************************)
EXTENDS Integers, Sequences, FiniteSets, SequencesExt

CONSTANTS MaxEvents,      \* events ever appended
          MaxDays,        \* days their IDs run over
          ShardSizes,     \* values of --shard-size
          MaxMigrations,  \* `migrate` commands
          MaxFaults       \* failed file operations and killed processes

ASSUME JournalBounds == /\ MaxEvents \in Nat \ {0} /\ MaxDays \in Nat \ {0}
                        /\ ShardSizes \subseteq Nat \ {0}
                        /\ MaxMigrations \in Nat /\ MaxFaults \in Nat

VARIABLES
  published,   \* every event ever appended, oldest first
  raced,       \* events appended where a migration no longer looks
  live,        \* [index, events]: the live journal file
  manifest,    \* the archive's manifest, NoManifest before the first migration
  segments,    \* the segment files of the archive directory: name -> payload
  mig          \* the running `migrate` command, Idle otherwise

jvars == <<published, raced, live, manifest, segments, mig>>

NoManifest == [segments |-> <<>>, whole |-> <<>>, last |-> <<>>, count |-> 0]
Idle == [pc |-> "idle", runs |-> 0, faults |-> 0]

----------------------------------------------------------------------------
(* The shape of payloads.                                                   *)

IdOf(e) == <<e.day, e.seq>>
IdsOf(events) == [i \in DOMAIN events |-> IdOf(events[i])]

(* current follows previous on the same day, or opens a later one. *)
Follows(previous, current) ==
  \/ current[1] = previous[1] /\ current[2] = previous[2] + 1
  \/ current[1] > previous[1] /\ current[2] = 1

(* Mutant: any later ID may follow. *)
Increasing(ids) ==
  /\ ids # <<>>
  /\ \A i \in 1 .. Len(ids) - 1 : ids[i][1] <= ids[i + 1][1]

Contiguous(ids) ==
  /\ ids # <<>>
  /\ \A i \in 1 .. Len(ids) - 1 : Follows(ids[i], ids[i + 1])

(* The places at which a new segment starts: the first event, a new day, and *)
(* the event after a full segment.                                          *)
StartsOf(events, size) ==
  {starts \in SUBSET DOMAIN events :
     starts = {i \in DOMAIN events :
                 \/ i = 1
                 \/ events[i].day # events[i - 1].day
                 \/ /\ i - size \in starts
                    /\ \A j \in i - size + 1 .. i - 1 : j \notin starts}}

InOrder(places) ==
  {list \in [1 .. Cardinality(places) -> places] :
     /\ Range(list) = places
     /\ \A g, h \in DOMAIN list : g < h => list[g] < list[h]}

(* The groups that begin at the places of a list: how many events of the     *)
(* payload come before each, and its own.                                   *)
CutAt(events, list) ==
  [g \in DOMAIN list |->
     [offset |-> list[g] - 1,
      events |-> SubSeq(events, list[g],
                        IF g = Len(list) THEN Len(events) ELSE list[g + 1] - 1)]]

(* A set of one element, the segments of a payload. *)
Grouped(events, size) ==
  UNION {{CutAt(events, list) : list \in InOrder(starts)} : starts \in StartsOf(events, size)}

(* The segment's file name: day, first and last sequence number. *)
NameOf(group) == <<group[1].day, group[1].seq, group[Len(group)].seq>>
Prologue == <<0, 0, 0>>

(* The manifest's record of a segment: its name, the digest of its bytes and, *)
(* for its place in the list, how much of the archive comes before it.        *)
RecordOf(group, before) ==
  [path |-> NameOf(group.events), digest |-> group.events, at |-> before + group.offset]
PrologueRecord == [path |-> Prologue, digest |-> <<>>, at |-> 0]
RecordsOf(groups, before) == [i \in DOMAIN groups |-> RecordOf(groups[i], before)]
PathsOf(records) == {records[i].path : i \in DOMAIN records}

(* What the manifest records of an archive: its segments in order and the   *)
(* digest and bounds of their concatenation.                                *)
ManifestOf(records, whole) ==
  [segments |-> records, whole |-> whole, count |-> Len(whole),
   last |-> IdOf(whole[Len(whole)])]

(* The regenerated live file: the index of the archive, then the tail. *)
LiveOf(m, tail) == [index |-> m.count, events |-> tail]

----------------------------------------------------------------------------
(* verify_journal on the current files.                                     *)

(* Laid end to end in the order of the list, the parts are the archive.     *)
Reconstructs(m, parts) ==
  \A i \in DOMAIN m.segments :
    LET record == m.segments[i]
        end == record.at + Len(parts[i])
    IN /\ parts[i] = SubSeq(m.whole, record.at + 1, end)
       /\ i = 1 => record.at = 0
       /\ end = IF i = Len(m.segments) THEN Len(m.whole) ELSE m.segments[i + 1].at

PartsOf(m, files) == [i \in DOMAIN m.segments |-> files[m.segments[i].path]]

(* Every listed segment is a file with the recorded digest. *)
SegmentsIntact(m, files) ==
  \A i \in DOMAIN m.segments :
    /\ m.segments[i].path \in DOMAIN files
    /\ files[m.segments[i].path] = m.segments[i].digest

Verified(l, m, files) ==
  /\ m # NoManifest
  /\ SegmentsIntact(m, files)
  /\ Reconstructs(m, PartsOf(m, files))
  /\ Contiguous(IdsOf(m.whole))
  /\ m.count = Len(m.whole) /\ m.last = IdOf(m.whole[Len(m.whole)])
  /\ Contiguous(IdsOf(m.whole \o l.events))

----------------------------------------------------------------------------
JInit ==
  /\ published = <<[day |-> 1, seq |-> 1, n |-> 1]>>
  /\ raced = {}
  /\ live = [index |-> 0, events |-> published]
  /\ manifest = NoManifest
  /\ segments = <<>>
  /\ mig = Idle

(* The last ID of archive and current volume taken as one sequence, as the  *)
(* recording contract in the index asks of whoever appends.                 *)
LastId == IF live.events # <<>> THEN IdOf(Last(live.events)) ELSE manifest.last

(* Steps at which a migration holds a copy of the live file that it may     *)
(* still write back without looking again.                                  *)
Overwrites == {"swap", "install", "manifest", "journal", "restoreManifest", "restoreJournal"}

AppendEvent ==
  /\ Len(published) < MaxEvents
  /\ \E id \in {<<LastId[1], LastId[2] + 1>>} \cup
               {<<d, 1>> : d \in LastId[1] + 1 .. MaxDays} :
       LET e == [day |-> id[1], seq |-> id[2], n |-> Len(published) + 1]
       IN /\ published' = Append(published, e)
          /\ live' = [live EXCEPT !.events = Append(@, e)]
          /\ raced' = IF mig.pc \in Overwrites THEN raced \cup {e} ELSE raced
  /\ UNCHANGED <<manifest, segments, mig>>

----------------------------------------------------------------------------
(* `migrate` when there is no archive yet.                                  *)

Ended == [pc |-> "idle", runs |-> mig.runs + 1, faults |-> mig.faults]

(* The journal is read; its last event must be the cutoff.  The staged       *)
(* archive is written beside its final name, where nothing reads it.        *)
StartCreate ==
  /\ mig.pc = "idle" /\ mig.runs < MaxMigrations /\ manifest = NoManifest
  /\ Contiguous(IdsOf(live.events))
  /\ \E size \in ShardSizes : \E groups \in Grouped(live.events, size) :
       mig' = [pc |-> "publish", runs |-> mig.runs, faults |-> mig.faults,
               live |-> live, groups |-> groups]
  /\ UNCHANGED <<published, raced, live, manifest, segments>>

PublishArchive ==
  /\ mig.pc = "publish"
  /\ LET records == <<PrologueRecord>> \o RecordsOf(mig.groups, 0)
     IN /\ segments' = [s \in PathsOf(records) |->
                          (CHOOSE r \in Range(records) : r.path = s).digest]
        /\ manifest' = ManifestOf(records, mig.live.events)
  /\ mig' = [mig EXCEPT !.pc = "recheck"]
  /\ UNCHANGED <<published, raced, live>>

(* Mutant: the journal is replaced without a second look. *)
NoRecheck ==
  /\ mig.pc = "recheck"
  /\ mig' = [mig EXCEPT !.pc = "swap"]
  /\ UNCHANGED <<published, raced, live, manifest, segments>>

(* The journal is compared with what was read before it is replaced; when   *)
(* it changed, the command stops with the archive already in place.         *)
Recheck ==
  /\ mig.pc = "recheck"
  /\ mig' = IF live = mig.live THEN [mig EXCEPT !.pc = "swap"] ELSE Ended
  /\ UNCHANGED <<published, raced, live, manifest, segments>>

SwapCreated ==
  /\ mig.pc = "swap"
  /\ live' = LiveOf(manifest, <<>>)
  /\ mig' = Ended
  /\ UNCHANGED <<published, raced, manifest, segments>>

----------------------------------------------------------------------------
(* `migrate` when the archive exists.                                       *)

StartAppend ==
  /\ mig.pc = "idle" /\ mig.runs < MaxMigrations
  /\ Verified(live, manifest, segments)
  /\ \E size \in ShardSizes, cut \in 1 .. Len(live.events) :
       \E groups \in Grouped(SubSeq(live.events, 1, cut), size) :
         LET additions == RecordsOf(groups, manifest.count)
         IN /\ Follows(manifest.last, IdOf(live.events[1]))
            /\ PathsOf(additions) \cap PathsOf(manifest.segments) = {}
            /\ mig' = [pc |-> "install", runs |-> mig.runs, faults |-> mig.faults,
                       live |-> live, old |-> manifest, groups |-> groups, installed |-> 0,
                       new |-> ManifestOf(manifest.segments \o additions,
                                          manifest.whole \o SubSeq(live.events, 1, cut)),
                       tail |-> SubSeq(live.events, cut + 1, Len(live.events)), temps |-> {}]
  /\ UNCHANGED <<published, raced, live, manifest, segments>>

(* Segments are created exclusively: a name left by a killed migration      *)
(* sends the command to its rollback.                                       *)
InstallSegment ==
  /\ mig.pc = "install"
  /\ IF mig.installed = Len(mig.groups)
     THEN mig' = [mig EXCEPT !.pc = "manifest"] /\ UNCHANGED segments
     ELSE LET group == mig.groups[mig.installed + 1].events
          IN IF NameOf(group) \in DOMAIN segments
             THEN mig' = [mig EXCEPT !.pc = "restoreManifest"] /\ UNCHANGED segments
             ELSE /\ segments' = [s \in DOMAIN segments \cup {NameOf(group)} |->
                                    IF s = NameOf(group) THEN group ELSE segments[s]]
                  /\ mig' = [mig EXCEPT !.installed = @ + 1]
  /\ UNCHANGED <<published, raced, live, manifest>>

ReplaceManifest ==
  /\ mig.pc = "manifest"
  /\ manifest' = mig.new
  /\ mig' = [mig EXCEPT !.pc = "journal"]
  /\ UNCHANGED <<published, raced, live, segments>>

ReplaceJournal ==
  /\ mig.pc = "journal"
  /\ live' = LiveOf(mig.new, mig.tail)
  /\ mig' = [mig EXCEPT !.pc = "verify"]
  /\ UNCHANGED <<published, raced, manifest, segments>>

VerifyAppended ==
  /\ mig.pc = "verify"
  /\ mig' = IF Verified(live, manifest, segments) THEN Ended
            ELSE [mig EXCEPT !.pc = "restoreManifest"]
  /\ UNCHANGED <<published, raced, live, manifest, segments>>

----------------------------------------------------------------------------
(* The rollback of a failed append.  A temporary file that the failed        *)
(* operation left under this process's name makes _replace_bytes refuse,     *)
(* and the rollback stops there.                                            *)

RestoreManifest ==
  /\ mig.pc = "restoreManifest"
  /\ IF "manifest" \in mig.temps
     THEN mig' = Ended /\ UNCHANGED manifest
     ELSE manifest' = mig.old /\ mig' = [mig EXCEPT !.pc = "restoreJournal"]
  /\ UNCHANGED <<published, raced, live, segments>>

RestoreJournal ==
  /\ mig.pc = "restoreJournal"
  /\ IF "journal" \in mig.temps
     THEN mig' = Ended /\ UNCHANGED live
     ELSE live' = mig.live /\ mig' = [mig EXCEPT !.pc = "unlink"]
  /\ UNCHANGED <<published, raced, manifest, segments>>

UnlinkInstalled ==
  /\ mig.pc = "unlink"
  /\ segments' = [s \in DOMAIN segments \
                     {NameOf(mig.groups[i].events) : i \in 1 .. mig.installed} |-> segments[s]]
  /\ mig' = Ended
  /\ UNCHANGED <<published, raced, live, manifest>>

----------------------------------------------------------------------------
(* Faults.                                                                  *)

(* A file operation of the migration fails.  Before the archive is in place *)
(* and at the swap the command just stops; in an append the rollback runs,   *)
(* a segment being written stays behind as torn, and the temporary of a       *)
(* failed replacement may stay behind too.                                   *)
Fault(pc) ==
  /\ mig.pc = pc /\ mig.faults < MaxFaults
  /\ UNCHANGED <<published, raced, live, manifest>>

TornSegment ==
  /\ mig.installed < Len(mig.groups)
  /\ NameOf(mig.groups[mig.installed + 1].events) \notin DOMAIN segments
  /\ segments' = [s \in DOMAIN segments \cup {NameOf(mig.groups[mig.installed + 1].events)} |->
                    IF s \in DOMAIN segments THEN segments[s] ELSE <<>>]

FailCreate ==
  /\ \E pc \in {"publish", "recheck", "swap"} : Fault(pc)
  /\ mig' = [Ended EXCEPT !.faults = @ + 1]
  /\ UNCHANGED segments

FailInstall ==
  /\ Fault("install")
  /\ TornSegment
  /\ mig' = [mig EXCEPT !.pc = "restoreManifest", !.faults = @ + 1]

FailReplace ==
  /\ \E pc \in {"manifest", "journal"} :
       /\ Fault(pc)
       /\ \E left \in {{}, {pc}} :
            mig' = [mig EXCEPT !.pc = "restoreManifest", !.temps = left, !.faults = @ + 1]
  /\ UNCHANGED segments

Kill ==
  /\ mig.pc # "idle" /\ mig.faults < MaxFaults
  /\ mig' = [Ended EXCEPT !.faults = @ + 1]
  /\ (mig.pc = "install" /\ TornSegment) \/ UNCHANGED segments
  /\ UNCHANGED <<published, raced, live, manifest>>

JNext ==
  \/ AppendEvent
  \/ StartCreate \/ PublishArchive \/ Recheck \/ SwapCreated
  \/ StartAppend \/ InstallSegment \/ ReplaceManifest \/ ReplaceJournal \/ VerifyAppended
  \/ RestoreManifest \/ RestoreJournal \/ UnlinkInstalled
  \/ FailCreate \/ FailInstall \/ FailReplace \/ Kill

----------------------------------------------------------------------------
JTypeOK ==
  /\ Len(published) <= MaxEvents
  /\ raced \subseteq Range(published)
  /\ live.index \in Nat /\ Range(live.events) \subseteq Range(published)
  /\ PathsOf(manifest.segments) \subseteq {Prologue} \cup (1 .. MaxDays) \X Nat \X Nat
  /\ mig.runs \in 0 .. MaxMigrations /\ mig.faults \in 0 .. MaxFaults

(* The events a reader finds: those of the segments the manifest lists, and *)
(* those of the live file.                                                  *)
Found ==
  Range(live.events) \cup
  UNION {Range(segments[s]) : s \in PathsOf(manifest.segments) \cap DOMAIN segments}

(* No published event disappears, whatever fails or is killed and whenever: *)
(* an event is in the live file or in a segment of the manifest at every     *)
(* moment of a migration, of its rollback and of what follows, unless it was *)
(* appended after the migration took the copy it writes back                 *)
(* (execution_journal.py, migrate_journal and _append_journal_archive).      *)
EventsKept == Range(published) \ raced \subseteq Found

(* Whenever `check` passes, archive and current volume together are the     *)
(* published history, without gap, duplicate or torn segment (every event     *)
(* that was not raced, and nothing else but raced ones, in the order of       *)
(* publication), and the index heading the live file counts exactly the       *)
(* archived events: a half-done migration never passes (verify_journal).     *)
CheckedIsHistory ==
  Verified(live, manifest, segments) =>
    LET history == manifest.whole \o live.events
    IN /\ Range(published) \ raced \subseteq Range(history)
       /\ Range(history) \subseteq Range(published)
       /\ \A i, j \in DOMAIN history : i < j => history[i].n < history[j].n
       /\ live.index = manifest.count

(* Whatever fails or is killed between two replacements, the journal keeps   *)
(* every published event and never checks as anything but the history.       *)
JournalKept == EventsKept /\ CheckedIsHistory

JSpec == JInit /\ [][JNext]_jvars
=============================================================================
