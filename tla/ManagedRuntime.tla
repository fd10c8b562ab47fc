---------------------------- MODULE ManagedRuntime ----------------------------
(***************************************************************************)
(* A runtime the application owns, as src/runtime/managed-runtime.ts keeps *)
(* it on disk: the build in use and the one it replaced, a manifest for    *)
(* each, and the install that tries its sources in order, proves a build   *)
(* in staging, promotes it with two moves and two writes, and rolls it     *)
(* back when the promoted build does not answer.                           *)
(*                                                                         *)
(* A build is known by its version.  What a source offers, whether a       *)
(* download, a checksum, an extraction or the first run of a staged build  *)
(* succeeds, and whether a promoted build answers are the nondeterminism   *)
(* of the actions.  The file system can refuse any move, removal or write  *)
(* (an antivirus that holds the executable for longer than fs-retry.ts     *)
(* retries, a full disk), and the application can be closed between any    *)
(* two changes of the disk.  RuntimeService lets one install of a runtime  *)
(* run at a time.                                                          *)
(***************************************************************************)
EXTENDS Naturals

CONSTANTS
  MaxVersion,     \* Versions are 1..MaxVersion, in the order of compareVersions
  Tested,         \* RUNTIME_COMPATIBILITY: testedVersion
  Minimum,        \* RUNTIME_COMPATIBILITY: minVersion
  Sources,        \* The number of sources, tried in the order of orderedSources
  DiskRefuses,    \* TRUE when a move, a removal or a write may fail
  Crashes         \* TRUE when the application may be closed at any point

ASSUME RuntimeAssumption ==
  /\ MaxVersion \in Nat /\ Sources \in Nat
  /\ Minimum \in Nat /\ Tested \in Minimum..MaxVersion
  /\ DiskRefuses \in BOOLEAN /\ Crashes \in BOOLEAN

Version == 1..MaxVersion
None == 0
Disk == Version \cup {None}

(* evaluateCompatibility under the policy "compatible". *)
Compatible(v) == v >= Minimum

Phase == {"idle", "resolving", "staging", "removing", "keeping", "noting",
          "placing", "recording", "health", "discarding", "restoring",
          "rewriting", "forgetting", "sweeping"}
(* The phases that leave the disk changed when the file system refuses them. *)
Harmful == {"noting", "placing", "recording", "discarding", "restoring", "rewriting"}

Result == {"none", "installed", "unhealthy", "rolled-back", "failed", "cancelled"}

VARIABLES
  current, previous, discard,    \* The builds in the runtime's directories
  manifest, previousManifest,    \* runtime.json and previous.json, None if unreadable
  phase,         \* Where the install is; "idle" when none runs
  request,       \* VersionRequest: "tested" or "latest"
  source,        \* The source being tried
  version,       \* The version that source resolved
  oldManifest,   \* previousManifest of installFrom, read before the promotion
  aborted,       \* The signal of the install
  result,        \* How the last install ended
  proved,        \* The builds that passed their check in staging
  before,        \* The build and the manifest this install found
  displaced,     \* The build the promotion of this source found in `current`
  harm           \* What refusals did to this install: see Harm

(***************************************************************************)
(* "none" while every refusal left the disk as it was; "refused" once one  *)
(* cut a promotion or a roll back in two; "retried" when another source    *)
(* has then begun a promotion of its own over what that left.              *)
(***************************************************************************)
Harm == {"none", "refused", "retried"}

disk == <<current, previous, discard, manifest, previousManifest>>
install == <<request, source, version, oldManifest>>
history == <<proved, before, displaced, harm>>
vars == <<disk, phase, install, aborted, result, history>>

TypeOK ==
  /\ current \in Disk /\ previous \in Disk /\ discard \in Disk
  /\ manifest \in Disk /\ previousManifest \in Disk
  /\ phase \in Phase
  /\ request \in {"tested", "latest"}
  /\ source \in 1..(Sources + 1)
  /\ version \in Disk /\ oldManifest \in Disk
  /\ aborted \in BOOLEAN /\ result \in Result
  /\ proved \subseteq Version
  /\ before \in [build : Disk, manifest : Disk]
  /\ displaced \in Disk /\ harm \in Harm

(* Nothing installed, or a build of an earlier release of the application. *)
Init ==
  /\ current \in Disk
  /\ manifest = current
  /\ previous = None /\ discard = None /\ previousManifest = None
  /\ phase = "idle" /\ request = "tested" /\ source = 1
  /\ version = None /\ oldManifest = None
  /\ aborted = FALSE /\ result = "none"
  /\ proved = {current} \ {None}
  /\ before = [build |-> current, manifest |-> manifest]
  /\ displaced = None /\ harm = "none"

-----------------------------------------------------------------------------
(* detect: the managed build is what the manifest names, if it is there.   *)
Detected == IF manifest # None /\ current # None THEN manifest ELSE None

CanRollBack == previousManifest # None /\ previous # None

Starts(r) ==
  /\ phase = "idle"
  /\ phase' = "resolving"
  /\ request' = r
  /\ source' = 1 /\ version' = None /\ oldManifest' = None
  /\ aborted' = FALSE /\ result' = "none"
  /\ displaced' = None /\ harm' = "none"
  /\ UNCHANGED proved

(* A mutant: an install starts from an empty directory. *)
InstallAfresh ==
  /\ Starts("tested")
  /\ before' = [build |-> current, manifest |-> manifest]
  /\ current' = None /\ previous' = None
  /\ UNCHANGED <<discard, manifest, previousManifest>>

(* install, and upgradeOutdated, which installs the tested version too. *)
Install ==
  /\ Starts("tested")
  /\ before' = [build |-> current, manifest |-> manifest]
  /\ UNCHANGED disk

(* repair: whatever is there is removed first. *)
Repair ==
  /\ Starts("tested")
  /\ before' = [build |-> None, manifest |-> None]
  /\ current' = None /\ previous' = None /\ discard' = None
  /\ manifest' = None /\ previousManifest' = None

(* update: only when some source has a newer build inside the window. *)
Update ==
  /\ \E available \in Version : available > manifest /\ Compatible(available)
  /\ Starts("latest")
  /\ before' = [build |-> current, manifest |-> manifest]
  /\ UNCHANGED disk

CancelInstall ==
  /\ phase # "idle"
  /\ ~aborted
  /\ aborted' = TRUE
  /\ UNCHANGED <<disk, phase, install, result, history>>

Ends(r) == phase' = "idle" /\ result' = r

-----------------------------------------------------------------------------
(* acquire: the sources in order                                           *)

NextSource == phase' = "resolving" /\ source' = source + 1

(* A source that cannot be asked, has nothing, or has what is not allowed. *)
SourcePassed ==
  /\ phase = "resolving" /\ source <= Sources /\ ~aborted
  /\ NextSource
  /\ UNCHANGED <<disk, request, version, oldManifest, aborted, result, history>>

Resolved(v) ==
  /\ phase = "resolving" /\ source <= Sources /\ ~aborted
  /\ request = "tested" => v = Tested
  /\ Compatible(v)
  /\ phase' = "staging"
  /\ version' = v
  /\ UNCHANGED <<disk, request, source, oldManifest, aborted, result, history>>

(* throwIfCancelled: before every source, and after the last one. *)
Cancelled ==
  /\ phase = "resolving" /\ aborted
  /\ Ends("cancelled")
  /\ UNCHANGED <<disk, install, aborted, history>>

SourcesExhausted ==
  /\ phase = "resolving" /\ source > Sources /\ ~aborted
  /\ Ends("failed")
  /\ UNCHANGED <<disk, install, aborted, history>>

(***************************************************************************)
(* installFrom up to the capability check.  An abort fails the download,   *)
(* or comes too late for it; a build this machine cannot run is not looked *)
(* for in another source.                                                  *)
(***************************************************************************)
PromotionBegins ==
  /\ phase = "staging"
  /\ phase' = "removing"
  /\ oldManifest' = manifest
  /\ displaced' = current
  /\ harm' = IF harm = "none" THEN "none" ELSE "retried"
  /\ UNCHANGED <<disk, request, source, version, aborted, result, before>>

(* A mutant: the staged build is promoted before it is tried. *)
StagedUnproved == PromotionBegins /\ UNCHANGED proved

StagedProved == PromotionBegins /\ proved' = proved \cup {version}

StagingFails ==
  /\ phase = "staging"
  /\ NextSource
  /\ UNCHANGED <<disk, request, version, oldManifest, aborted, result, history>>

StagedCannotRun ==
  /\ phase = "staging"
  /\ Ends(IF aborted THEN "cancelled" ELSE "failed")
  /\ UNCHANGED <<disk, install, aborted, history>>

-----------------------------------------------------------------------------
(* promote, and the manifest                                               *)

RemovePrevious ==
  /\ phase = "removing"
  /\ previous' = None
  /\ phase' = "keeping"
  /\ UNCHANGED <<current, discard, manifest, previousManifest, install, aborted,
                 result, history>>

KeepCurrent ==
  /\ phase = "keeping"
  /\ IF current = None
       THEN phase' = "placing" /\ UNCHANGED <<current, previous>>
       ELSE phase' = "noting" /\ previous' = current /\ current' = None
  /\ UNCHANGED <<discard, manifest, previousManifest, install, aborted, result, history>>

NotePrevious ==
  /\ phase = "noting"
  /\ previousManifest' = IF oldManifest = None THEN previousManifest ELSE oldManifest
  /\ phase' = "placing"
  /\ UNCHANGED <<current, previous, discard, manifest, install, aborted, result, history>>

PlaceStaged ==
  /\ phase = "placing"
  /\ current' = version
  /\ phase' = "recording"
  /\ UNCHANGED <<previous, discard, manifest, previousManifest, install, aborted,
                 result, history>>

(* A mutant: a manifest that is there already is kept. *)
RecordFirst ==
  /\ phase = "recording"
  /\ manifest' = IF manifest = None THEN version ELSE manifest
  /\ phase' = "health"
  /\ UNCHANGED <<current, previous, discard, previousManifest, install, aborted,
                 result, history>>

Record ==
  /\ phase = "recording"
  /\ manifest' = version
  /\ phase' = "health"
  /\ UNCHANGED <<current, previous, discard, previousManifest, install, aborted,
                 result, history>>

Answers ==
  /\ phase = "health"
  /\ Ends("installed")
  /\ UNCHANGED <<disk, install, aborted, history>>

(* A promoted build that does not answer is undone, if there is a previous. *)
DoesNotAnswer ==
  /\ phase = "health"
  /\ IF CanRollBack THEN phase' = "discarding" /\ UNCHANGED result ELSE Ends("unhealthy")
  /\ UNCHANGED <<disk, install, aborted, history>>

-----------------------------------------------------------------------------
(* rollBack: renames, which are not retried                                *)

Discard ==
  /\ phase = "discarding"
  /\ discard' = current
  /\ current' = None
  /\ phase' = "restoring"
  /\ UNCHANGED <<previous, manifest, previousManifest, install, aborted, result, history>>

(* A mutant: the discarded build is put back. *)
RestoreDiscarded ==
  /\ phase = "restoring"
  /\ current' = discard
  /\ previous' = None
  /\ phase' = "rewriting"
  /\ UNCHANGED <<discard, manifest, previousManifest, install, aborted, result, history>>

Restore ==
  /\ phase = "restoring"
  /\ current' = previous
  /\ previous' = None
  /\ phase' = "rewriting"
  /\ UNCHANGED <<discard, manifest, previousManifest, install, aborted, result, history>>

Rewrite ==
  /\ phase = "rewriting"
  /\ manifest' = previousManifest
  /\ phase' = "forgetting"
  /\ UNCHANGED <<current, previous, discard, previousManifest, install, aborted,
                 result, history>>

Forget ==
  /\ phase = "forgetting"
  /\ previousManifest' = None
  /\ phase' = "sweeping"
  /\ UNCHANGED <<current, previous, discard, manifest, install, aborted, result, history>>

Sweep ==
  /\ phase = "sweeping"
  /\ discard' = None
  /\ Ends("rolled-back")
  /\ UNCHANGED <<current, previous, manifest, previousManifest, install, aborted, history>>

(* What a removal or a write that does not end well may leave of its file. *)
Torn(file, during) == {file} \cup (IF phase \in during THEN {None} ELSE {})

(***************************************************************************)
(* A move, a removal or a write that throws, in the promotion, the         *)
(* manifest or the roll back, is one more failed source: the next one      *)
(* starts from what the disk then holds.                                   *)
(***************************************************************************)
Refused ==
  /\ DiskRefuses
  /\ phase \in Harmful \cup {"removing", "keeping", "forgetting", "sweeping"}
  /\ NextSource
  /\ previous' \in Torn(previous, {"removing"})
  /\ previousManifest' \in Torn(previousManifest, {"noting"})
  /\ manifest' \in Torn(manifest, {"recording", "rewriting"})
  /\ harm' = IF harm = "none" /\ phase \in Harmful THEN "refused" ELSE harm
  /\ UNCHANGED <<current, discard, request, version, oldManifest, aborted, result,
                 proved, before, displaced>>

(***************************************************************************)
(* The application is closed: nothing of the install is remembered, and a  *)
(* manifest that was being written may not be readable any more.           *)
(***************************************************************************)
Crash ==
  /\ Crashes
  /\ phase # "idle"
  /\ manifest' \in Torn(manifest, {"recording", "rewriting"})
  /\ previousManifest' \in Torn(previousManifest, {"noting"})
  /\ phase' = "idle" /\ result' = "none" /\ aborted' = FALSE
  /\ before' = [build |-> current, manifest |-> manifest']
  /\ UNCHANGED <<current, previous, discard, install, proved, displaced, harm>>

-----------------------------------------------------------------------------
Step ==
  \/ SourcePassed \/ (\E v \in Version : Resolved(v)) \/ Cancelled \/ SourcesExhausted
  \/ StagedProved \/ StagingFails \/ StagedCannotRun
  \/ RemovePrevious \/ KeepCurrent \/ NotePrevious \/ PlaceStaged \/ Record
  \/ Answers \/ DoesNotAnswer
  \/ Discard \/ Restore \/ Rewrite \/ Forget \/ Sweep \/ Refused

Next == Install \/ Repair \/ Update \/ CancelInstall \/ Crash \/ Step

Spec == Init /\ [][Next]_vars

-----------------------------------------------------------------------------
(***************************************************************************)
(* "Only a build that has already proved itself in staging is promoted":   *)
(* whatever fails and whenever the application is closed, the build in use *)
(* and the one kept for rollback passed their check on this machine.       *)
(***************************************************************************)
CurrentWasProved == {current, previous} \ {None} \subseteq proved

(***************************************************************************)
(* An install that reports success left what it says: the build it         *)
(* resolved is in use and the manifest names that build, however the disk  *)
(* was left by the installs, the failures and the crashes before it.       *)
(***************************************************************************)
InstalledIsDetected ==
  result \in {"installed", "unhealthy"} => current = version /\ Detected = version

(***************************************************************************)
(* What a failed or cancelled install costs.  A source that serves a bad   *)
(* build, a person who cancels at any point, and a refusal before the      *)
(* first move or after a roll back is complete cost nothing: build and     *)
(* manifest are the ones it found.  A promotion or a roll back the file    *)
(* system cut in two leaves the build it found in use or kept to go back   *)
(* to, for as long as no other source begins a promotion.                  *)
(***************************************************************************)
FailureLeavesBuild ==
  result \in {"failed", "cancelled"} =>
    /\ harm = "none" => /\ current = before.build
                        /\ before.manifest # None => manifest = before.manifest
    /\ harm = "refused" => before.build \in {None, current, previous}

(***************************************************************************)
(* An install that says it was rolled back restored the build its          *)
(* promotion displaced, with the manifest that was read beside it, and     *)
(* detection finds it, whatever was refused before; with no promotion or   *)
(* roll back cut in two before, that is the build the install found.       *)
(***************************************************************************)
RollBackRestores ==
  result = "rolled-back" =>
    /\ current = displaced
    /\ oldManifest # None => manifest = oldManifest
    /\ Detected # None
    /\ harm = "none" => current = before.build

=============================================================================
