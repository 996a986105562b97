----------------------------- MODULE GoldenImage -----------------------------
(***************************************************************************)
(* The golden Windows image over the lives of the process: bake, by hand   *)
(* or as a rebuild, the metadata sidecar beside the image, housekeeping at *)
(* every start with its rearm of the evaluation licence.  Dates are days.  *)
(***************************************************************************)
EXTENDS Naturals, Integers

CONSTANTS
  Tools,      \* fingerprints of toolsets (ToolsHash)
  EvalDays,   \* the evaluation window
  Threshold,  \* Policy.ThresholdDays
  MaxRearms,  \* how often slmgr /rearm works
  LastDay,    \* bound: days
  Mishaps     \* bound: how often the process dies, or a rearm happens or ends in spite of an error

GoldenAssumption ==
  /\ Tools \cap {"absent", "blank", "half"} = {}
  /\ EvalDays \in Nat \ {0} /\ Threshold \in 0..EvalDays /\ MaxRearms \in Nat
  /\ LastDay \in Nat /\ Mishaps \in Nat

VARIABLES
  phase,    \* where the process is
  byHand,   \* whether the bake under way is the bake command
  want,     \* the toolset of the configuration
  iso,      \* whether the configuration has a bake_iso
  licensed, \* whether the configuration has a licence
  image,    \* what the golden disk holds
  serial,   \* what the serial log of the golden says
  meta,     \* the sidecar: absent, cut short, or a GoldenMeta
  rearmed,  \* how often the guest of this image was rearmed
  today,
  checked,  \* history: the last check ended without an error
  begun,    \* history: a bake has begun that the sidecar does not record
  mishaps

vars == <<phase, byHand, want, iso, licensed, image, serial, meta, rearmed, today, checked, begun, mishaps>>
config == <<want, iso, licensed>>
disk == <<image, serial, meta, rearmed>>

Absent == [kind |-> "absent"]
CutShort == [kind |-> "cut"]

Init ==
  /\ phase = "down" /\ byHand = FALSE /\ want \in Tools /\ iso \in BOOLEAN /\ licensed \in BOOLEAN
  /\ image = "absent" /\ serial = "none" /\ meta = Absent /\ rearmed = 0
  /\ today = 0 /\ checked = FALSE /\ begun = FALSE /\ mishaps = 0

-----------------------------------------------------------------------------
(* Policy.Decide. *)

DaysLeft(m) == EvalDays - (today - m.created)

\* The fingerprint is computed only with a bake_iso; without one, drift is not seen.
Decide(m) ==
  IF iso /\ want # m.hash THEN "rebuild"
  ELSE IF m.licensed \/ DaysLeft(m) >= Threshold THEN "none"
  ELSE IF m.rearms < MaxRearms THEN "rearm" ELSE "rebuild"

\* What a bake or a check that has ended goes on with.
Ends(ok) == phase' = (IF byHand THEN "down" ELSE "ping") /\ byHand' = FALSE /\ checked' = ok

-----------------------------------------------------------------------------
(* The process. *)

\* run, with the configuration as it is now.
Start ==
  /\ phase = "down" /\ phase' = "check" /\ checked' = FALSE
  /\ UNCHANGED <<byHand, config, disk, today, begun, mishaps>>

\* The disk is created, over the golden there is, and the old markers are removed.
Create == image' = "blank" /\ serial' = "none" /\ begun' = TRUE

\* CheckOnce: nothing to do, nothing it can do, or on to the action.
CheckOnce ==
  /\ phase = "check"
  /\ \/ /\ \/ meta.kind # "meta" /\ Ends(meta = Absent)
           \/ meta.kind = "meta" /\ Decide(meta) = "none" /\ Ends(TRUE)
           \/ meta.kind = "meta" /\ Decide(meta) = "rebuild" /\ ~iso /\ Ends(FALSE)
           \/ meta.kind = "meta" /\ Decide(meta) = "rearm" /\ phase' = "rearm" /\ UNCHANGED <<byHand, checked>>
        /\ UNCHANGED <<image, serial, begun>>
     \/ /\ meta.kind = "meta" /\ Decide(meta) = "rebuild" /\ iso
        /\ phase' = "install" /\ Create /\ UNCHANGED <<byHand, checked>>
  /\ UNCHANGED <<config, meta, rearmed, today, mishaps>>

\* Mutant: the serial log of an earlier bake is left in place.
StaleMarkers ==
  /\ phase = "down" /\ iso /\ phase' = "install" /\ byHand' = TRUE /\ image' = "blank" /\ begun' = TRUE
  /\ UNCHANGED <<config, serial, meta, rearmed, today, checked, mishaps>>
\* The bake command.
Prepare ==
  /\ phase = "down" /\ iso /\ phase' = "install" /\ byHand' = TRUE /\ Create
  /\ UNCHANGED <<config, meta, rearmed, today, checked, mishaps>>

\* Windows Setup and install-golden.ps1, up to its last step, the GOLDEN_OK marker.
Install ==
  /\ phase = "install"
  /\ \/ image = "blank" /\ image' = "half" /\ serial' = (IF serial = "ok" THEN serial ELSE "progress")
     \/ image = "half" /\ image' = want /\ serial' = "ok"
  /\ rearmed' = 0
  /\ UNCHANGED <<phase, byHand, config, meta, today, checked, begun, mishaps>>

\* The guest powers off, at any point; or QEMU fails, or hangs and is killed after the timeout.
QEMUExits ==
  /\ phase = "install"
  /\ \/ phase' = "exited" /\ UNCHANGED <<byHand, checked>>
     \/ Ends(FALSE)
  /\ UNCHANGED <<config, disk, today, begun, mishaps>>

\* Bake: the marker of this bake, or an error.
Verify ==
  /\ phase = "exited"
  /\ IF serial = "ok" THEN phase' = "verified" /\ UNCHANGED <<byHand, checked>> ELSE Ends(FALSE)
  /\ UNCHANGED <<config, disk, today, begun, mishaps>>

\* The metadata of a bake, and of a rearm.
Baked == [kind |-> "meta", created |-> today, rearms |-> 0, hash |-> want, licensed |-> licensed]
\* Mutant: a rearm does not reset the clock.
ClockRunsOn(m) == [m EXCEPT !.rearms = @ + 1]
ApplyRearm(m) == [m EXCEPT !.created = today, !.rearms = @ + 1]

\* SaveMeta writes the sidecar in place: one that cannot be written may be left cut short.
SaveMetaFails == meta' \in {meta, CutShort} /\ Ends(FALSE)

\* The record of a bake.
SaveBaked ==
  /\ phase = "verified"
  /\ \/ meta' = Baked /\ Ends(TRUE) /\ begun' = FALSE
     \/ SaveMetaFails /\ UNCHANGED begun
  /\ UNCHANGED <<config, image, serial, rearmed, today, mishaps>>

Mishap == mishaps < Mishaps /\ mishaps' = mishaps + 1

\* RearmGolden: the golden boots writable; slmgr is not verified, only QEMU's exit is, and an
\* error may come after the guest was rearmed.
Rearm ==
  /\ phase = "rearm" /\ serial' = "progress"
  /\ \/ phase' = "rearmed" /\ rearmed' = rearmed + 1 /\ UNCHANGED <<byHand, checked, mishaps>>
     \/ Ends(FALSE) /\ UNCHANGED <<rearmed, mishaps>>
     \/ Ends(FALSE) /\ rearmed' = rearmed + 1 /\ Mishap
  /\ UNCHANGED <<config, image, meta, today, begun>>
\* The record of a rearm: LoadMeta or SaveMeta may fail.
SaveRearm ==
  /\ phase = "rearmed"
  /\ \/ meta' = ApplyRearm(meta) /\ Ends(TRUE) /\ UNCHANGED mishaps
     \/ SaveMetaFails /\ Mishap
  /\ UNCHANGED <<config, image, serial, rearmed, today, begun>>

\* preparePool: the image must be there.
Ping ==
  /\ phase = "ping" /\ phase' = IF image = "absent" THEN "down" ELSE "serving"
  /\ UNCHANGED <<byHand, config, disk, today, checked, begun, mishaps>>

\* A stop; a crash, which cuts short a sidecar being written or comes when the guest is rearmed.
Stop ==
  /\ phase = "serving" /\ phase' = "down"
  /\ UNCHANGED <<byHand, config, disk, today, checked, begun, mishaps>>
Crash ==
  /\ phase # "down" /\ Mishap
  /\ phase' = "down" /\ byHand' = FALSE /\ checked' = FALSE
  /\ meta' \in IF phase \in {"verified", "rearmed"} THEN {meta, CutShort} ELSE {meta}
  /\ rearmed' \in IF phase = "rearm" THEN {rearmed, rearmed + 1} ELSE {rearmed}
  /\ UNCHANGED <<config, image, serial, today, begun>>

\* The operator edits the configuration; time passes.
Edit ==
  /\ phase = "down" /\ want' \in Tools /\ iso' \in BOOLEAN /\ checked' = FALSE
  /\ UNCHANGED <<phase, byHand, licensed, disk, today, begun, mishaps>>
Day ==
  /\ today < LastDay /\ phase \in {"down", "serving"} /\ today' = today + 1 /\ checked' = FALSE
  /\ UNCHANGED <<phase, byHand, config, disk, begun, mishaps>>

Next ==
  \/ Start \/ CheckOnce \/ Prepare \/ Install \/ QEMUExits \/ Verify \/ SaveBaked
  \/ Rearm \/ SaveRearm \/ Ping \/ Stop \/ Crash \/ Edit \/ Day

Spec == Init /\ [][Next]_vars

-----------------------------------------------------------------------------
\* The sidecar describes what is on the disk: only a bake whose guest finished is recorded,
\* whatever an earlier one left in the serial log. The exception is the time from the beginning
\* of the next bake until that is recorded, for good when it fails: Prepare overwrites the disk
\* and leaves the sidecar, so that a golden without a guest counts as the one before.
RecordIsTrue ==
  meta.kind = "meta" /\ ~begun => image = meta.hash

\* A check that ended without an error leaves nothing to do that it could have done: one rearm
\* or rebuild is enough.
CheckConverges ==
  phase = "ping" /\ checked /\ meta.kind = "meta" => Decide(meta) = "none"

\* The guest is never rearmed more often than Windows allows, but for one rearm for each time the
\* process died, the boot failed after slmgr had run or the sidecar could not be written.
RearmsAreBounded ==
  /\ rearmed <= MaxRearms + mishaps
  /\ meta.kind = "meta" => meta.rearms <= MaxRearms
=============================================================================
