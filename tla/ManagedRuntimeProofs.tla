------------------------- MODULE ManagedRuntimeProofs -------------------------
(***************************************************************************)
(* Proofs about ManagedRuntime, for any versions, window and sources, with *)
(* moves, removals and writes refused and the application closed at any    *)
(* point.                                                                  *)
(***************************************************************************)
EXTENDS ManagedRuntime, TLAPS

-----------------------------------------------------------------------------
(* Type correctness                                                        *)

(* Past the choice of a source, it is one of the list and resolved a version. *)
SourceKnown == phase \notin {"idle", "resolving"} => source <= Sources /\ version \in Version

Typed == TypeOK /\ SourceKnown

LEMMA FirstSource == 1 \in 1..(Sources + 1)
  BY RuntimeAssumption

LEMMA NextSourceType ==
    ASSUME source \in 1..(Sources + 1), source <= Sources
    PROVE  source + 1 \in 1..(Sources + 1)
  BY RuntimeAssumption

LEMMA InitTyped == Init => Typed
<1> SUFFICES ASSUME Init PROVE Typed
  OBVIOUS
<1>1. source \in 1..(Sources + 1)
  BY FirstSource DEF Init
<1>2. proved \subseteq Version
  BY DEF Init, Disk
<1>3. before \in [build : Disk, manifest : Disk]
  BY DEF Init
<1> QED
  BY <1>1, <1>2, <1>3 DEF Init, Typed, TypeOK, SourceKnown, Disk, Phase, Result,
                              Harm

LEMMA StepTyped == Typed /\ [Next]_vars => Typed'
<1> SUFFICES ASSUME Typed, [Next]_vars PROVE Typed'
  OBVIOUS
<1> USE DEF Typed, TypeOK, SourceKnown, disk, install, history
<1>1. CASE Install \/ Repair \/ Update
  <2>1. source' \in 1..(Sources + 1)
    BY <1>1, FirstSource DEF Install, Repair, Update, Starts
  <2>2. None \in Disk
    BY DEF Disk
  <2>3. before' \in [build : Disk, manifest : Disk]
    BY <1>1, <2>2 DEF Install, Repair, Update
  <2> QED
    BY <1>1, <2>1, <2>2, <2>3 DEF Install, Repair, Update, Starts, Phase, Result,
                                Harm
<1>2. CASE CancelInstall
  BY <1>2 DEF CancelInstall
<1>3. CASE Crash
  <2>1. None \in Disk
    BY DEF Disk
  <2> QED
    BY <1>3, <2>1 DEF Crash, Torn, Phase, Result
<1>4. CASE SourcePassed \/ StagingFails
  <2>1. source <= Sources
    BY <1>4 DEF SourcePassed, StagingFails
  <2> QED
    BY <1>4, <2>1, NextSourceType DEF SourcePassed, StagingFails, NextSource, Phase
<1>5. CASE \E v \in Version : Resolved(v)
  BY <1>5 DEF Resolved, Disk, Phase
<1>6. CASE Cancelled \/ SourcesExhausted \/ StagedCannotRun \/ Answers \/ DoesNotAnswer
  BY <1>6 DEF Cancelled, SourcesExhausted, StagedCannotRun, Answers, DoesNotAnswer,
              Ends, Phase, Result
<1>7. CASE StagedProved
  BY <1>7 DEF StagedProved, PromotionBegins, Phase, Harm
<1>8. CASE RemovePrevious \/ KeepCurrent \/ NotePrevious \/ PlaceStaged \/ Record
  BY <1>8 DEF RemovePrevious, KeepCurrent, NotePrevious, PlaceStaged, Record, Disk, Phase
<1>9. CASE Discard \/ Restore \/ Rewrite \/ Forget \/ Sweep
  BY <1>9 DEF Discard, Restore, Rewrite, Forget, Sweep, Ends, Disk, Phase, Result
<1>10. CASE Refused
  <2>1. source <= Sources
    BY <1>10 DEF Refused, Harmful
  <2>2. source' \in 1..(Sources + 1)
    BY <1>10, <2>1, NextSourceType DEF Refused, NextSource
  <2>3. previous' \in Disk /\ previousManifest' \in Disk /\ manifest' \in Disk
    BY <1>10 DEF Refused, Torn, Disk
  <2> QED
    BY <1>10, <2>2, <2>3 DEF Refused, NextSource, Phase, Harm
<1>11. CASE UNCHANGED vars
  BY <1>11 DEF vars
<1> QED
  BY <1>1, <1>2, <1>3, <1>4, <1>5, <1>6, <1>7, <1>8, <1>9, <1>10, <1>11 DEF Next, Step

(* Every variable of a runtime keeps its type, over any history of crashes. *)
THEOREM TypeCorrect == Spec => []TypeOK
<1>1. Typed => TypeOK
  BY DEF Typed
<1> QED
  BY InitTyped, StepTyped, <1>1, PTL DEF Spec

-----------------------------------------------------------------------------
(***************************************************************************)
(* What is on disk was proved: the invariant also speaks of the build      *)
(* between staging and its place, and of the one a rollback discards.      *)
(***************************************************************************)
StagedWasProved ==
  phase \in {"removing", "keeping", "noting", "placing"} => version \in proved

ProvedInv == CurrentWasProved /\ StagedWasProved

LEMMA InitProved == Init => ProvedInv
  BY DEF Init, ProvedInv, CurrentWasProved, StagedWasProved

LEMMA StepProved == ProvedInv /\ [Next]_vars => ProvedInv'
<1> SUFFICES ASSUME ProvedInv, [Next]_vars PROVE ProvedInv'
  OBVIOUS
<1> USE DEF ProvedInv, CurrentWasProved, StagedWasProved, disk, install, history
<1>1. CASE Install \/ Repair \/ Update \/ CancelInstall \/ Crash
  BY <1>1 DEF Install, Repair, Update, Starts, CancelInstall, Crash
<1>2. CASE SourcePassed \/ StagingFails \/ Refused \/ \E v \in Version : Resolved(v)
  BY <1>2 DEF SourcePassed, StagingFails, Refused, Torn, Resolved, NextSource
<1>3. CASE Cancelled \/ SourcesExhausted \/ StagedCannotRun \/ Answers \/ DoesNotAnswer
  BY <1>3 DEF Cancelled, SourcesExhausted, StagedCannotRun, Answers, DoesNotAnswer, Ends
<1>4. CASE StagedProved
  BY <1>4 DEF StagedProved, PromotionBegins
<1>5. CASE RemovePrevious \/ KeepCurrent \/ NotePrevious \/ PlaceStaged \/ Record
  BY <1>5 DEF RemovePrevious, KeepCurrent, NotePrevious, PlaceStaged, Record
<1>6. CASE Discard \/ Restore \/ Rewrite \/ Forget \/ Sweep
  BY <1>6 DEF Discard, Restore, Rewrite, Forget, Sweep, Ends
<1>7. CASE UNCHANGED vars
  BY <1>7 DEF vars
<1> QED
  BY <1>1, <1>2, <1>3, <1>4, <1>5, <1>6, <1>7 DEF Next, Step

(* Nothing is ever in use, or kept for a rollback, that was not proved first. *)
THEOREM OnlyProvedBuilds == Spec => []CurrentWasProved
<1>1. ProvedInv => CurrentWasProved
  BY DEF ProvedInv
<1> QED
  BY InitProved, StepProved, <1>1, PTL DEF Spec

-----------------------------------------------------------------------------
(***************************************************************************)
(* Where the build that this source's promotion displaces is, phase by     *)
(* phase: in its place until it is kept as the previous one, there with    *)
(* its manifest until it is restored, and in its place again.              *)
(***************************************************************************)
PreviousNoted == oldManifest # None => previousManifest = oldManifest
ManifestBack == manifest # None /\ (oldManifest # None => manifest = oldManifest)

Promoting ==
  /\ phase \in {"removing", "keeping"} => current = displaced /\ manifest = oldManifest
  /\ phase = "keeping" => previous = None
  /\ phase \in {"noting", "placing", "recording", "health"} => previous = displaced
  /\ phase \in {"placing", "recording", "health"} /\ displaced # None => PreviousNoted
RollingBack ==
  /\ phase \in {"discarding", "restoring", "rewriting"}
       => displaced # None /\ previousManifest # None /\ PreviousNoted
  /\ phase \in {"discarding", "restoring"} => previous = displaced
  /\ phase \in {"rewriting", "forgetting", "sweeping"} => current = displaced
  /\ phase \in {"forgetting", "sweeping"} => displaced # None /\ ManifestBack

(***************************************************************************)
(* Where the build the install found is: it is what is in place between    *)
(* two sources and what a promotion displaces while no refusal cut one in  *)
(* two, and in place or kept between the refusal that did and the next     *)
(* promotion.                                                              *)
(***************************************************************************)
Choosing == phase \in {"resolving", "staging"}

Unharmed ==
  phase # "idle" =>
    IF Choosing
      THEN current = before.build /\ (before.manifest # None => manifest = before.manifest)
      ELSE displaced = before.build /\ (before.manifest # None => oldManifest = before.manifest)
CutInTwo == phase # "idle" => Choosing /\ before.build \in {None, current, previous}

Running == phase # "idle" => result = "none"

BuildInv ==
  /\ Running
  /\ Promoting
  /\ RollingBack
  /\ harm = "none" => Unharmed
  /\ harm = "refused" => CutInTwo
  /\ FailureLeavesBuild
  /\ RollBackRestores

LEMMA InitBuild == Init => BuildInv
  BY DEF Init, BuildInv, Running, Promoting, RollingBack, Unharmed, CutInTwo,
         FailureLeavesBuild, RollBackRestores

LEMMA StepBuild == BuildInv /\ [Next]_vars => BuildInv'
<1> SUFFICES ASSUME BuildInv, [Next]_vars PROVE BuildInv'
  OBVIOUS
<1> USE DEF BuildInv, Running, Promoting, PreviousNoted, RollingBack, ManifestBack,
            Unharmed, CutInTwo, Choosing, FailureLeavesBuild, RollBackRestores, disk,
            install, history
<1>1. CASE Install \/ Repair \/ Update
  BY <1>1 DEF Install, Repair, Update, Starts
<1>2. CASE CancelInstall
  BY <1>2 DEF CancelInstall
<1>3. CASE Crash
  BY <1>3 DEF Crash
<1>4. CASE SourcePassed \/ StagingFails \/ \E v \in Version : Resolved(v)
  BY <1>4 DEF SourcePassed, StagingFails, Resolved, NextSource
<1>5. CASE Cancelled \/ SourcesExhausted \/ StagedCannotRun
  BY <1>5 DEF Cancelled, SourcesExhausted, StagedCannotRun, Ends
<1>6. CASE StagedProved
  BY <1>6 DEF StagedProved, PromotionBegins
<1>7. CASE RemovePrevious
  BY <1>7 DEF RemovePrevious
<1>8. CASE KeepCurrent
  BY <1>8 DEF KeepCurrent
<1>9. CASE NotePrevious
  BY <1>9 DEF NotePrevious
<1>10. CASE PlaceStaged \/ Record \/ Answers
  BY <1>10 DEF PlaceStaged, Record, Answers, Ends
<1>11. CASE DoesNotAnswer
  BY <1>11 DEF DoesNotAnswer, CanRollBack, Ends
<1>12. CASE Discard
  BY <1>12 DEF Discard
<1>13. CASE Restore
  BY <1>13 DEF Restore
<1>14. CASE Rewrite
  BY <1>14 DEF Rewrite
<1>15. CASE Forget
  BY <1>15 DEF Forget
<1>16. CASE Sweep
  BY <1>16 DEF Sweep, Ends, Detected
<1>17. CASE Refused
  <2>1. CASE phase \in Harmful
    BY <1>17, <2>1 DEF Refused, Torn, NextSource, Harmful
  <2>2. CASE phase \notin Harmful
    BY <1>17, <2>2 DEF Refused, Torn, NextSource, Harmful
  <2> QED
    BY <2>1, <2>2
<1>18. CASE UNCHANGED vars
  BY <1>18 DEF vars, Detected
<1> QED
  BY <1>1, <1>2, <1>3, <1>4, <1>5, <1>6, <1>7, <1>8, <1>9, <1>10, <1>11, <1>12, <1>13,
     <1>14, <1>15, <1>16, <1>17, <1>18 DEF Next, Step

(***************************************************************************)
(* A failed or cancelled install costs nothing unless the file system cut  *)
(* a promotion or a roll back in two, and then not the build it found      *)
(* until another source is promoted over what was left.                    *)
(***************************************************************************)
THEOREM FailureIsHarmless == Spec => []FailureLeavesBuild
<1>1. BuildInv => FailureLeavesBuild
  BY DEF BuildInv
<1> QED
  BY InitBuild, StepBuild, <1>1, PTL DEF Spec

(* A roll back restores what its own promotion displaced, whatever was refused. *)
THEOREM RollBackIsExact == Spec => []RollBackRestores
<1>1. BuildInv => RollBackRestores
  BY DEF BuildInv
<1> QED
  BY InitBuild, StepBuild, <1>1, PTL DEF Spec

-----------------------------------------------------------------------------
(***************************************************************************)
(* A success is what it says: the build is placed before its manifest is   *)
(* written, and nothing moves between the two and the answer.              *)
(***************************************************************************)
Placed ==
  /\ phase \in {"recording", "health", "discarding"} => current = version
  /\ phase \in {"health", "discarding"} => manifest = version

SuccessInv == Running /\ Placed /\ InstalledIsDetected

LEMMA InitSuccess == Init => SuccessInv
  BY DEF Init, SuccessInv, Running, Placed, InstalledIsDetected

LEMMA StepSuccess == Typed /\ SuccessInv /\ [Next]_vars => SuccessInv'
<1> SUFFICES ASSUME Typed, SuccessInv, [Next]_vars PROVE SuccessInv'
  OBVIOUS
<1> USE DEF SuccessInv, Running, Placed, InstalledIsDetected, Detected, disk, install,
            history
<1>1. CASE Install \/ Repair \/ Update \/ CancelInstall \/ Crash
  BY <1>1 DEF Install, Repair, Update, Starts, CancelInstall, Crash
<1>2. CASE SourcePassed \/ StagingFails \/ Refused \/ \E v \in Version : Resolved(v)
  BY <1>2 DEF SourcePassed, StagingFails, Refused, Harmful, Resolved, NextSource
<1>3. CASE Cancelled \/ SourcesExhausted \/ StagedCannotRun
  BY <1>3 DEF Cancelled, SourcesExhausted, StagedCannotRun, Ends
<1>4. CASE StagedProved \/ RemovePrevious \/ KeepCurrent \/ NotePrevious
  BY <1>4 DEF StagedProved, PromotionBegins, RemovePrevious, KeepCurrent, NotePrevious
<1>5. CASE PlaceStaged \/ Record
  BY <1>5 DEF PlaceStaged, Record
<1>6. CASE Answers \/ DoesNotAnswer
  <2>1. version \in Version /\ version # None
    BY <1>6, RuntimeAssumption DEF Typed, SourceKnown, Answers, DoesNotAnswer, Version, None
  <2> QED
    BY <1>6, <2>1 DEF Answers, DoesNotAnswer, Ends
<1>7. CASE Discard \/ Restore \/ Rewrite \/ Forget \/ Sweep
  BY <1>7 DEF Discard, Restore, Rewrite, Forget, Sweep, Ends
<1>8. CASE UNCHANGED vars
  BY <1>8 DEF vars
<1> QED
  BY <1>1, <1>2, <1>3, <1>4, <1>5, <1>6, <1>7, <1>8 DEF Next, Step

(* After a success, what detect answers is the build the install resolved. *)
THEOREM SuccessIsDetected == Spec => []InstalledIsDetected
<1>1. SuccessInv => InstalledIsDetected
  BY DEF SuccessInv
<1> QED
  BY InitTyped, StepTyped, InitSuccess, StepSuccess, <1>1, PTL DEF Spec

=============================================================================
