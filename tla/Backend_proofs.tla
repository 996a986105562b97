---------------------------- MODULE Backend_proofs ----------------------------
(***************************************************************************)
(* What every caller of a backend may rely on, proved from the contract    *)
(* alone and so inherited by every backend that implements it.  The        *)
(* argument: an instance is started only by a launch that has not          *)
(* returned, and what is told is only ever told of an instance that does   *)
(* not run; both together are inductive with the types.                    *)
(***************************************************************************)
EXTENDS Backend, TLAPS

Instances == {"none", "pending", "made", "live", "dead", "late", "gone"}

Inv == TypeOK /\ EndedDoesNotRun

USE DEF Absent, Instances

LEMMA InitInv == Init => Inv
  BY DEF Init, Inv, TypeOK, EndedDoesNotRun

\* A step of one launch keeps the invariant if what it makes of that launch does.
LEMMA BecomesInv ==
  ASSUME Inv, NEW r \in Runners,
         NEW i \in Instances,
         NEW t \in {"nothing", "handle", "ended", "over", "lost"},
         Becomes(r, i, t), t = "ended" => i # "live", t = "over" => i \in {"gone", "pending", "late"}
  PROVE  Inv'
  <1>1. TypeOK'  BY DEF Inv, TypeOK, Becomes
  <1>2. EndedDoesNotRun'  BY DEF Inv, TypeOK, EndedDoesNotRun, Becomes
  <1> QED  BY <1>1, <1>2 DEF Inv

LEMMA NextInv == Inv /\ [Next]_vars => Inv'
  <1> SUFFICES ASSUME Inv, [Next]_vars PROVE Inv'
    OBVIOUS
  <1>1. ASSUME NEW r \in Runners, Launch(r) PROVE Inv'
    <2>1. PICK i \in Made(inst[r]), t \in {"nothing", "handle"} : Becomes(r, i, t)
      BY <1>1 DEF Launch
    <2>2. i \in Instances
      BY <2>1 DEF Made, Inv, TypeOK
    <2> QED  BY <2>1, <2>2, BecomesInv
  <1>2. ASSUME NEW r \in Runners, FailedLaunch(r) PROVE Inv'
    <2>1. CASE Becomes(r, "gone", "over")
      BY <2>1, BecomesInv
    <2>2. CASE \E i \in After(inst[r]) \ {"live", "gone"} : Becomes(r, i, "lost")
      <3>1. PICK i \in After(inst[r]) \ {"live", "gone"} : Becomes(r, i, "lost")
        BY <2>2
      <3>2. i \in Instances
        BY <3>1 DEF After, Inv, TypeOK
      <3> QED  BY <3>1, <3>2, BecomesInv
    <2> QED  BY <1>2, <2>1, <2>2 DEF FailedLaunch
  <1>3. ASSUME NEW r \in Runners, Ended(r) PROVE Inv'
    <2>1. PICK i \in After(inst[r]) \ {"live"} :
             Becomes(r, i, "ended") \/ (Absent(i) /\ Becomes(r, i, "over"))
      BY <1>3 DEF Ended
    <2>2. i \in Instances
      BY <2>1 DEF After, Inv, TypeOK
    <2>3. CASE Becomes(r, i, "ended")
      BY <2>2, <2>3, BecomesInv
    <2>4. CASE Absent(i) /\ Becomes(r, i, "over")
      BY <2>2, <2>4, BecomesInv
    <2> QED  BY <2>1, <2>3, <2>4
  <1>4. ASSUME NEW r \in Runners, Discharged(r) PROVE Inv'
    BY <1>4, BecomesInv DEF Discharged
  <1>9. ASSUME NEW r \in Runners, MadeLate(r) PROVE Inv'
    <2>1. PICK i \in {"made", "late"} : Becomes(r, i, told[r]) /\ (i = "made" => told[r] = "handle")
      BY <1>9 DEF MadeLate
    <2>2. told[r] \in {"nothing", "handle", "ended", "over", "lost"}
      BY DEF Inv, TypeOK
    <2> QED  BY <2>1, <2>2, BecomesInv
  <1>5. ASSUME NEW r \in Runners, Vanishes(r) PROVE Inv'
    <2>1. told[r] \in {"nothing", "handle", "ended", "over", "lost"} /\ Becomes(r, "gone", told[r])
      BY <1>5 DEF Vanishes, Inv, TypeOK
    <2> QED  BY <2>1, BecomesInv
  <1>6. CASE Die
    BY <1>6 DEF Die, Inv, TypeOK, EndedDoesNotRun
  <1>7. CASE Crash
    BY <1>7 DEF Crash, Inv, TypeOK, EndedDoesNotRun
  <1>8. CASE UNCHANGED vars
    BY <1>8 DEF vars, Inv, TypeOK, EndedDoesNotRun
  <1> QED  BY <1>1, <1>2, <1>3, <1>4, <1>5, <1>6, <1>7, <1>8, <1>9 DEF Next

\* A caller that was told that its runner has ended, or that nothing is left of it, may release
\* its registration: the instance does not run then and never runs again, and what a pending
\* request still makes of it does not run either.
THEOREM EndedDoesNotRunAlways == Spec => []EndedDoesNotRun
  <1>1. Inv => EndedDoesNotRun  BY DEF Inv
  <1> QED  BY InitInv, NextInv, <1>1, PTL DEF Spec

\* A step of one launch starts its instance only within Launch.
LEMMA BecomesOnce ==
  ASSUME Inv, NEW r \in Runners, NEW i, NEW t, Becomes(r, i, t),
         inst[r] \in {"dead", "gone", "pending", "late"} => i # "live",
         inst[r] # "live" /\ i = "live" => told[r] = "nothing"
  PROVE  StartsWithinLaunch
  BY DEF Inv, TypeOK, Becomes, StartsWithinLaunch

\* An instance runs at most once, and none is started after Launch has returned.
THEOREM RunsOnceAlways == Spec => RunsOnce
  <1>1. ASSUME Inv, [Next]_vars PROVE [StartsWithinLaunch]_vars
    <2> USE <1>1
    <2>1. ASSUME NEW r \in Runners, Launch(r) PROVE StartsWithinLaunch
      <3>1. PICK i \in Made(inst[r]), t \in {"nothing", "handle"} : Becomes(r, i, t)
        BY <2>1 DEF Launch
      <3>2. inst[r] \in {"dead", "gone", "pending", "late"} => i # "live"
        BY <3>1 DEF Made
      <3> QED  BY <2>1, <3>1, <3>2, BecomesOnce DEF Launch
    <2>2. ASSUME NEW r \in Runners, FailedLaunch(r) PROVE StartsWithinLaunch
      <3>1. PICK i, t : Becomes(r, i, t) /\ i # "live"
        BY <2>2 DEF FailedLaunch
      <3> QED  BY <3>1, BecomesOnce
    <2>3. ASSUME NEW r \in Runners, Ended(r) PROVE StartsWithinLaunch
      <3>1. PICK i, t : Becomes(r, i, t) /\ i # "live"
        BY <2>3 DEF Ended
      <3> QED  BY <3>1, BecomesOnce
    <2>4. ASSUME NEW r \in Runners, Discharged(r) \/ MadeLate(r) \/ Vanishes(r) PROVE StartsWithinLaunch
      <3>1. PICK i, t : Becomes(r, i, t) /\ i # "live"
        BY <2>4 DEF Discharged, MadeLate, Vanishes
      <3> QED  BY <3>1, BecomesOnce
    <2>5. CASE Die
      BY <2>5 DEF Die, Inv, TypeOK, StartsWithinLaunch
    <2>6. CASE Crash
      BY <2>6 DEF Crash, StartsWithinLaunch
    <2> QED  BY <2>1, <2>2, <2>3, <2>4, <2>5, <2>6 DEF Next
  <1> QED  BY InitInv, NextInv, <1>1, PTL DEF Spec, RunsOnce
==============================================================================
