----------------------- MODULE ContainerBackend_proofs -----------------------
(***************************************************************************)
(* Both container backends implement the contract of module Backend, for   *)
(* every set of launches and bystanders, all names and labels and any      *)
(* number of lost answers.                                                 *)
(*                                                                         *)
(* The argument: launches have different names, so a call of one launch    *)
(* touches no container of another one (OneAtATime); while its caller may  *)
(* still start a container nobody else touches it, and what a caller has   *)
(* been told of a container is never undone (PhaseOf), except that a       *)
(* create still pending is carried out late, to a container that never     *)
(* runs.  The reconciler acts only on launches nobody has a handle of.     *)
(***************************************************************************)
EXTENDS ContainerBackend, TLAPS

States == {"absent", "pending", "created", "running", "exited", "late"}
Phases == {"idle", "created", "up", "kill", "stopped", "stopfailed", "inspected",
           "killed", "abandoned", "ended", "removed", "lost"}

\* What is known of a launch's container when its caller is so far.
PhaseOf(l) ==
  /\ ph[l] = "idle" => ctr[l] = "absent"
  /\ ph[l] = "created" => ctr[l] = "created"
  /\ ph[l] \in {"stopped", "stopfailed"} => l \notin Owned
  /\ ph[l] \in {"ended", "killed"} => ctr[l] # "running"
  /\ ph[l] = "killed" /\ l \notin Owned => ctr[l] \in {"absent", "pending", "late"}
  /\ ph[l] = "removed" => ctr[l] \in {"absent", "pending", "late"} /\ l \in Owned
  /\ crashed => ph[l] \in {"idle", "lost"}

Lists == [st : {"none", "inspect", "remove"}, ids : SUBSET Cids, found : SUBSET Cids]

\* The reconciler has listed an owned launch only after its handle was given up.
Given(l) == l \in Owned => ph[l] \in {"lost", "removed"}

Inv ==
  /\ ctr \in [Cids -> States] /\ ph \in [Launches -> Phases]
  /\ \A l \in Launches : PhaseOf(l)
  /\ lst \in Lists /\ \A l \in Launches \cap (lst.ids \cup lst.found) : Given(l)
  /\ \A l \in Launches \cap lst.found : l \in Owned

USE BackendAssumption DEF Cids

\* Only launch l changes.
Only(l) == \A k \in Launches \ {l} : ctr'[k] = ctr[k] /\ ph'[k] = ph[k]

\* The names of launches differ, so a name means no launch but its own, and means that one
\* if its container is there.
LEMMA OneAtATime ==
  ASSUME Inv, NEW l \in Launches
  PROVE  /\ Target(l) \cap Launches \subseteq {l} /\ Resource(l) \cap Launches \subseteq {l}
         /\ ctr[l] \notin {"absent", "pending"} => l \in Target(l) /\ l \in Resource(l) /\ l \in ByName(l)
         /\ Target(l) \subseteq Cids /\ Resource(l) \subseteq Cids
  BY DEF Target, Resource, ByName, Present

\* What a call that stops or removes containers leaves, answered or not.
LEMMA CallOf ==
  ASSUME Inv, NEW l \in Launches, NEW after, NEW ok \in Phases, NEW err \in Phases,
         after \in {ctr, Stopped(Target(l)), Removed(Target(l)), Removed(Resource(l))}, Call(l, after, ok, err)
  PROVE  /\ ctr' \in [Cids -> States] /\ ph' \in [Launches -> Phases] /\ Only(l)
         /\ UNCHANGED <<crashed, lst>>
         /\ \/ ctr' = after /\ ph'[l] = ok
            \/ ctr' \in {ctr, after} /\ ph'[l] = err
  <1>1. after \in [Cids -> States]  BY DEF Stopped, Removed, Inv, States
  <1>2. \A k \in Launches \ {l} : after[k] = ctr[k]  BY OneAtATime DEF Stopped, Removed, Inv
  <1> QED  BY <1>1, <1>2 DEF Call, Inv, Only

LEMMA StoppedOrRemoved ==
  ASSUME Inv, NEW l \in Launches
  PROVE  /\ Stopped(Target(l))[l] = IF ctr[l] = "running" THEN "exited" ELSE ctr[l]
         /\ Removed(Target(l))[l] = IF ctr[l] = "pending" THEN "pending" ELSE "absent"
         /\ Removed(Resource(l))[l] = IF ctr[l] = "pending" THEN "pending" ELSE "absent"
  BY OneAtATime DEF Stopped, Removed, Present, Inv

\* A step that only changes one launch is a step of the contract if it is one for that launch.
LEMMA BecomesOf ==
  ASSUME NEW l \in Launches, Only(l)
  PROVE  Contract!Becomes(l, instance'[l], returned'[l])
  BY DEF Only, Contract!Becomes, instance, returned

-----------------------------------------------------------------------------
(* The steps of the contract, for a step that changes one launch. *)

LEMMA LaunchStep ==
  ASSUME NEW l \in Launches, Only(l), returned[l] = "nothing",
         instance'[l] \in Contract!Made(instance[l]), returned'[l] \in {"nothing", "handle"},
         instance'[l] \in {"gone", "pending"} => returned'[l] = "handle"
  PROVE  Contract!Next
  BY BecomesOf DEF Contract!Next, Contract!Launch, Contract!Absent

LEMMA EndedStep ==
  ASSUME NEW l \in Launches, Only(l), returned[l] = "handle",
         instance'[l] \in Contract!After(instance[l]) \ {"live"},
         l \in Owned => (instance'[l] = "gone" => instance[l] = "gone"),
         returned'[l] = "ended" \/ (returned'[l] = "over" /\ instance'[l] \in {"gone", "pending"})
  PROVE  Contract!Next
  BY BecomesOf DEF Contract!Next, Contract!Ended, Contract!Absent

LEMMA DischargedStep ==
  ASSUME NEW l \in Launches, Only(l), returned[l] = "ended", instance[l] # "live",
         instance'[l] = (IF instance[l] = "pending" THEN "pending" ELSE "gone"), returned'[l] = "over"
  PROVE  Contract!Next
  BY BecomesOf DEF Contract!Next, Contract!Discharged

LEMMA MadeLateStep ==
  ASSUME NEW l \in Launches, Only(l), instance[l] = "pending", returned'[l] = returned[l],
         instance'[l] = IF returned[l] = "handle" THEN "made" ELSE "late"
  PROVE  Contract!Next
  BY BecomesOf DEF Contract!Next, Contract!MadeLate

LEMMA VanishesStep ==
  ASSUME NEW l \in Launches, Only(l), instance[l] \in {"made", "live", "dead", "late"}, returned[l] # "nothing",
         l \in Owned => returned[l] \in {"ended", "lost"} \/ instance[l] = "late",
         instance[l] = "live" => returned[l] \in {"handle", "lost"},
         instance'[l] = "gone", returned'[l] = returned[l]
  PROVE  Contract!Next
  BY BecomesOf DEF Contract!Next, Contract!Vanishes

LEMMA StutterStep ==
  ASSUME NEW l \in Launches, Only(l), instance'[l] = instance[l], returned'[l] = returned[l]
  PROVE  UNCHANGED <<instance, returned>>
  <1>1. instance' = instance  BY DEF Only, instance
  <1>2. returned' = returned  BY DEF Only, returned
  <1> QED  BY <1>1, <1>2

LEMMA DieStep ==
  ASSUME NEW l \in Launches, Only(l), instance[l] = "live", instance'[l] = "dead", returned'[l] = returned[l]
  PROVE  Contract!Next
  <1> DEFINE S == {l}
             end == [r \in S |-> "dead"]
  <1>1. returned' = returned  BY DEF Only, returned
  <1>2. instance' = [r \in Launches |-> IF r \in S THEN end[r] ELSE instance[r]]
    BY DEF Only, instance
  <1>3. S \in SUBSET {r \in Launches : instance[r] = "live"} /\ end \in [S -> {"dead", "gone"}]
    OBVIOUS
  <1>4. \A r \in S : end[r] = "gone" => returned[r] = "lost"
    OBVIOUS
  <1>5. Contract!Die
    BY <1>1, <1>2, <1>3, <1>4 DEF Contract!Die
  <1> QED  BY <1>5 DEF Contract!Next

\* A step of one launch keeps the invariant if it keeps what is known of that launch.
LEMMA OnlyInv ==
  ASSUME Inv, NEW l \in Launches, Only(l), ctr' \in [Cids -> States], ph' \in [Launches -> Phases],
         UNCHANGED <<crashed, lst>>, PhaseOf(l)', ph[l] \in {"lost", "removed"} => ph'[l] = ph[l]
  PROVE  Inv'
  <1>1. \A k \in Launches : PhaseOf(k)'  BY DEF Inv, Only, PhaseOf
  <1>2. \A k \in Launches : Given(k) => Given(k)'  BY DEF Only, Given
  <1> QED  BY <1>1, <1>2 DEF Inv

-----------------------------------------------------------------------------
(* The calls of a launch's caller. *)

\* A step of the contract or none.
Implements == Contract!Next \/ UNCHANGED <<instance, returned>>

\* What the mapping says of one launch.
LEMMA MappedNow ==
  ASSUME NEW l \in Launches
  PROVE  instance[l] = InstanceOf(ph[l], ctr[l]) /\ returned[l] = ReturnedTo(ph[l], l \in Owned)
  BY DEF instance, returned
LEMMA MappedNext ==
  ASSUME NEW l \in Launches
  PROVE  instance'[l] = InstanceOf(ph'[l], ctr'[l]) /\ returned'[l] = ReturnedTo(ph'[l], l \in Owned)
  BY DEF instance, returned

LEMMA CreateSafe ==
  ASSUME Inv, NEW l \in Launches, Create(l) PROVE Inv' /\ Implements
  <1> USE DEF PhaseOf, InstanceOf, ReturnedTo
  <1>0. ph[l] = "idle" /\ ctr[l] = "absent" /\ ~crashed
    BY DEF Create, Inv
  <1>1. CASE ByName(l) # {}
    <2>1. ctr' = ctr /\ ph' = [ph EXCEPT ![l] = "kill"] /\ UNCHANGED <<crashed, lst>>
      BY <1>1 DEF Create
    <2>2. Only(l) /\ ctr' \in [Cids -> States] /\ ph' \in [Launches -> Phases] /\ ph'[l] = "kill"
      BY <2>1 DEF Inv, Only, Phases
    <2>3. PhaseOf(l)'  BY <1>0, <2>1, <2>2
    <2>4. Inv'  BY <1>0, <2>1, <2>2, <2>3, OnlyInv
    <2>5. Contract!Next
      BY <1>0, <2>1, <2>2, LaunchStep, MappedNow, MappedNext DEF Contract!Made
    <2> QED  BY <2>4, <2>5 DEF Implements
  <1>2. CASE ByName(l) = {}
    <2>1. PICK c \in {"created", "running", "pending"}, ok \in {"created", "up", "kill"} :
             /\ Call(l, [ctr EXCEPT ![l] = c], ok, "kill") \/ (GiveUp(l) /\ c = "pending" /\ ok = "kill")
             /\ ok = "created" => c = "created"
             /\ c = "pending" => ok = "kill"
      BY <1>2 DEF Create
    <2>2. [ctr EXCEPT ![l] = c] \in [Cids -> States] /\ ok \in Phases /\ "kill" \in Phases
      BY DEF Inv, States, Phases
    <2>3. \A k \in Launches \ {l} : [ctr EXCEPT ![l] = c][k] = ctr[k]
      BY DEF Inv
    <2>4. /\ ctr' \in [Cids -> States] /\ ph' \in [Launches -> Phases] /\ Only(l)
          /\ UNCHANGED <<crashed, lst>>
          /\ \/ ctr' = [ctr EXCEPT ![l] = c] /\ ph'[l] = ok
             \/ ctr' \in {ctr, [ctr EXCEPT ![l] = c]} /\ ph'[l] = "kill"
      BY <2>1, <2>2, <2>3 DEF Call, GiveUp, Inv, Only
    <2>5. (ctr'[l] = c /\ ph'[l] = ok) \/ (ctr'[l] \in {"absent", c} /\ ph'[l] = "kill")
      BY <2>4, <1>0 DEF Inv
    <2>6. PhaseOf(l)'  BY <1>0, <2>1, <2>4, <2>5
    <2>7. Inv'  BY <1>0, <2>4, <2>6, OnlyInv
    <2>8. Contract!Next
      BY <1>0, <2>1, <2>4, <2>5, LaunchStep, MappedNow, MappedNext DEF Contract!Made
    <2> QED  BY <2>7, <2>8 DEF Implements
  <1> QED  BY <1>1, <1>2

LEMMA StartSafe ==
  ASSUME Inv, NEW l \in Launches, Start(l) PROVE Inv' /\ Implements
  <1> USE DEF PhaseOf, InstanceOf, ReturnedTo
  <1>0. ph[l] = "created" /\ ctr[l] = "created" /\ ~crashed
    BY DEF Start, Inv
  <1>1. [ctr EXCEPT ![l] = "running"] \in [Cids -> States] /\ "up" \in Phases /\ "kill" \in Phases
    BY DEF Inv, States, Phases
  <1>2. \A k \in Launches \ {l} : [ctr EXCEPT ![l] = "running"][k] = ctr[k]
    BY DEF Inv
  <1>3. /\ ctr' \in [Cids -> States] /\ ph' \in [Launches -> Phases] /\ Only(l)
        /\ UNCHANGED <<crashed, lst>>
        /\ \/ ctr' = [ctr EXCEPT ![l] = "running"] /\ ph'[l] = "up"
           \/ ctr' \in {ctr, [ctr EXCEPT ![l] = "running"]} /\ ph'[l] = "kill"
    BY <1>1, <1>2 DEF Start, Call, Inv, Only
  <1>4. (ctr'[l] = "running" /\ ph'[l] = "up") \/ (ctr'[l] \in {"created", "running"} /\ ph'[l] = "kill")
    BY <1>3, <1>0 DEF Inv
  <1>5. PhaseOf(l)'  BY <1>0, <1>3, <1>4
  <1>6. Inv'  BY <1>0, <1>3, <1>5, OnlyInv
  <1>7. Contract!Next
    BY <1>0, <1>3, <1>4, LaunchStep, MappedNow, MappedNext DEF Contract!Made
  <1> QED  BY <1>6, <1>7 DEF Implements

WithHandle == {"up", "kill", "stopped", "stopfailed", "inspected", "abandoned"}

\* A call on a handle that does no more to the container than it may, and reports the end only
\* if there is one.
LEMMA HandleStep ==
  ASSUME Inv, NEW l \in Launches, Only(l), ctr' \in [Cids -> States], ph' \in [Launches -> Phases],
         UNCHANGED <<crashed, lst>>, ph[l] \in WithHandle,
         \/ ctr'[l] = ctr[l]
         \/ ctr[l] = "running" /\ ctr'[l] = "exited"
         \/ ctr'[l] = "absent" /\ l \notin Owned /\ ctr[l] # "pending",
         ph'[l] \in WithHandle \cup {"ended", "killed"},
         ph'[l] \in {"stopped", "stopfailed"} => l \notin Owned,
         ph'[l] \in {"ended", "killed"} => ctr'[l] # "running",
         ph'[l] = "killed" /\ l \notin Owned => ctr'[l] \in {"absent", "pending"}
  PROVE  Inv' /\ Implements
  <1>0. ~crashed /\ ctr[l] \in States  BY DEF Inv, PhaseOf, WithHandle
  <1>1. PhaseOf(l)'  BY <1>0 DEF PhaseOf, WithHandle
  <1>2. Inv'  BY <1>1, OnlyInv DEF WithHandle
  <1>3. returned[l] = "handle" /\ instance[l] = InstanceOf(ph[l], ctr[l]) /\ ph[l] # "idle"
    BY MappedNow DEF ReturnedTo, WithHandle
  <1>4. instance'[l] = InstanceOf(ph'[l], ctr'[l]) /\ ph'[l] # "idle"
    BY MappedNext DEF WithHandle
  <1>5. CASE ph'[l] \in WithHandle
    <2>1. returned'[l] = "handle"  BY <1>5, MappedNext DEF ReturnedTo, WithHandle
    <2>2. CASE ctr'[l] = ctr[l]
      BY <1>2, <1>3, <1>4, <2>1, <2>2, StutterStep DEF Implements, InstanceOf
    <2>3. CASE ctr[l] = "running" /\ ctr'[l] = "exited"
      BY <1>2, <1>3, <1>4, <2>1, <2>3, DieStep DEF Implements, InstanceOf
    <2>4. CASE ctr'[l] = "absent" /\ l \notin Owned /\ ctr[l] # "absent"
      BY <1>0, <1>2, <1>3, <1>4, <2>1, <2>4, VanishesStep DEF Implements, InstanceOf, States
    <2> QED  BY <1>2, <2>2, <2>3, <2>4
  <1>6. CASE ph'[l] \in {"ended", "killed"}
    <2>1. returned'[l] = IF ph'[l] = "killed" /\ l \notin Owned THEN "over" ELSE "ended"
      BY <1>6, MappedNext DEF ReturnedTo
    <2>2. instance'[l] \in Contract!After(instance[l]) \ {"live"}
      BY <1>0, <1>3, <1>4, <1>6 DEF InstanceOf, Contract!After, States
    <2>3. l \in Owned => (instance'[l] = "gone" => instance[l] = "gone")
      BY <1>0, <1>3, <1>4 DEF InstanceOf, States
    <2>4. ph'[l] = "killed" /\ l \notin Owned => instance'[l] \in {"gone", "pending"}
      BY <1>4 DEF InstanceOf
    <2>5. Contract!Next  BY <1>3, <2>1, <2>2, <2>3, <2>4, EndedStep
    <2> QED  BY <1>2, <2>5 DEF Implements
  <1> QED  BY <1>5, <1>6

LEMMA WaitSafe ==
  ASSUME Inv, NEW l \in Launches, Wait(l) PROVE Inv' /\ Implements
  <1> DEFINE after == IF docker \/ l \in Owned THEN ctr ELSE Removed(Target(l))
  <1>0. ph[l] = "up"  BY DEF Wait
  <1>1. PICK end \in {"ended", "kill"} :
          Call(l, after, end, "kill") /\ (end = "ended" => \A c \in Target(l) : ctr[c] = "exited")
    BY DEF Wait
  <1>2. after \in {ctr, Stopped(Target(l)), Removed(Target(l)), Removed(Resource(l))}
    OBVIOUS
  <1>3. after[l] \in {ctr[l], "absent"} /\ (l \in Owned \/ ctr[l] = "pending" => after[l] = ctr[l])
    BY StoppedOrRemoved
  <1>4. end = "ended" => ctr[l] \in {"exited", "absent", "pending"}
    BY <1>1, OneAtATime
  <1> HIDE DEF after
  <1>5. /\ ctr' \in [Cids -> States] /\ ph' \in [Launches -> Phases] /\ Only(l)
        /\ UNCHANGED <<crashed, lst>>
        /\ \/ ctr' = after /\ ph'[l] = end
           \/ ctr' \in {ctr, after} /\ ph'[l] = "kill"
    BY <1>1, <1>2, CallOf DEF Phases
  <1> QED  BY <1>0, <1>1, <1>3, <1>4, <1>5, HandleStep DEF WithHandle

LEMMA KillStopSafe ==
  ASSUME Inv, NEW l \in Launches, KillStop(l) PROVE Inv' /\ Implements
  <1> DEFINE after == Stopped(Target(l))
  <1>0. ph[l] = "kill"  BY DEF KillStop
  <1>1. PICK ok \in {"killed", "stopped"}, err \in {"kill", "stopfailed"} :
          Call(l, after, ok, err) /\ (ok = "killed" <=> l \in Owned) /\ (err = "kill" <=> l \in Owned)
    BY DEF KillStop
  <1>2. after[l] = IF ctr[l] = "running" THEN "exited" ELSE ctr[l]
    BY StoppedOrRemoved
  <1>3. ok \in Phases /\ err \in Phases
    BY <1>1 DEF Phases
  <1>4. after \in {ctr, Stopped(Target(l)), Removed(Target(l)), Removed(Resource(l))}
    OBVIOUS
  <1> HIDE DEF after
  <1>5. Call(l, after, ok, err)  BY <1>1
  <1>6. /\ ctr' \in [Cids -> States] /\ ph' \in [Launches -> Phases] /\ Only(l)
        /\ UNCHANGED <<crashed, lst>>
        /\ \/ ctr' = after /\ ph'[l] = ok
           \/ ctr' \in {ctr, after} /\ ph'[l] = err
    <2> HIDE DEF Call, Stopped, Removed, Target, Resource
    <2> QED  BY <1>3, <1>4, <1>5, CallOf, SMTT(60)
  <1> QED  BY <1>0, <1>1, <1>2, <1>6, HandleStep DEF WithHandle

LEMMA KillRemoveSafe ==
  ASSUME Inv, NEW l \in Launches, KillRemove(l) PROVE Inv' /\ Implements
  <1> DEFINE after == Removed(Target(l))
  <1>0. ph[l] \in {"stopped", "stopfailed"} /\ l \notin Owned  BY DEF KillRemove, Inv, PhaseOf
  <1>1. PICK ok \in {"killed", "abandoned"} : Call(l, after, ok, "abandoned")
    BY <1>0 DEF KillRemove, Failed
  <1>2. after[l] = IF ctr[l] = "pending" THEN "pending" ELSE "absent"
    BY StoppedOrRemoved
  <1>3. ok \in Phases /\ "abandoned" \in Phases
    BY <1>1 DEF Phases
  <1>4. after \in {ctr, Stopped(Target(l)), Removed(Target(l)), Removed(Resource(l))}
    OBVIOUS
  <1> HIDE DEF after
  <1>5. /\ ctr' \in [Cids -> States] /\ ph' \in [Launches -> Phases] /\ Only(l)
        /\ UNCHANGED <<crashed, lst>>
        /\ \/ ctr' = after /\ ph'[l] = ok
           \/ ctr' \in {ctr, after} /\ ph'[l] = "abandoned"
    BY <1>1, <1>3, <1>4, CallOf
  <1> QED  BY <1>0, <1>1, <1>2, <1>5, HandleStep DEF WithHandle

LEMMA KillInspectSafe ==
  ASSUME Inv, NEW l \in Launches, KillInspect(l) PROVE Inv' /\ Implements
  <1>0. ph[l] = "kill"  BY DEF KillInspect
  <1>1. PICK ok \in {"killed", "inspected", "kill", "abandoned"}, err \in {"kill", "abandoned"} :
          Call(l, ctr, ok, err) /\ (ok = "killed" => ByName(l) = {})
    BY DEF KillInspect, Failed
  <1>2. ok = "killed" => ctr[l] \in {"absent", "pending"}
    BY <1>1, OneAtATime
  <1>3. ok \in Phases /\ err \in Phases
    BY <1>1 DEF Phases
  <1>4. /\ ctr' \in [Cids -> States] /\ ph' \in [Launches -> Phases] /\ Only(l)
        /\ UNCHANGED <<crashed, lst>> /\ ctr' = ctr /\ ph'[l] \in {ok, err}
    BY <1>1, <1>3, CallOf
  <1> QED  BY <1>0, <1>1, <1>2, <1>4, HandleStep DEF WithHandle

LEMMA KillNerdctlSafe ==
  ASSUME Inv, NEW l \in Launches, KillNerdctl(l) PROVE Inv' /\ Implements
  <1> DEFINE after == IF l \in Owned THEN Stopped(Target(l)) ELSE Removed(Target(l))
  <1>0. ph[l] \in {"kill", "inspected"}  BY DEF KillNerdctl
  <1>1. PICK err \in {"kill", "abandoned"} : Call(l, after, "killed", err)
    BY DEF KillNerdctl, Failed
  <1>2. /\ l \in Owned => after[l] = IF ctr[l] = "running" THEN "exited" ELSE ctr[l]
        /\ l \notin Owned => after[l] = IF ctr[l] = "pending" THEN "pending" ELSE "absent"
    BY StoppedOrRemoved
  <1>3. after \in {ctr, Stopped(Target(l)), Removed(Target(l)), Removed(Resource(l))}
    OBVIOUS
  <1> HIDE DEF after
  <1>4. "killed" \in Phases /\ err \in Phases
    BY <1>1 DEF Phases
  <1>5. /\ ctr' \in [Cids -> States] /\ ph' \in [Launches -> Phases] /\ Only(l)
        /\ UNCHANGED <<crashed, lst>>
        /\ \/ ctr' = after /\ ph'[l] = "killed"
           \/ ctr' \in {ctr, after} /\ ph'[l] = err
    BY <1>1, <1>3, <1>4, CallOf
  <1> QED  BY <1>0, <1>1, <1>2, <1>5, HandleStep DEF WithHandle

LEMMA RemoveOwnedRunnerSafe ==
  ASSUME Inv, NEW l \in Launches, RemoveOwnedRunner(l) PROVE Inv' /\ Implements
  <1> DEFINE after == Removed(Resource(l))
  <1>0. /\ l \in Owned /\ ph[l] \in {"killed", "ended"} /\ ctr[l] # "running" /\ ~crashed
        /\ ctr[l] \in States
    BY DEF RemoveOwnedRunner, Inv, PhaseOf
  <1>1. ph[l] \in Phases /\ "removed" \in Phases  BY DEF Inv, Phases
  <1>2. after[l] = IF ctr[l] = "pending" THEN "pending" ELSE "absent"
    BY StoppedOrRemoved
  <1>3. /\ ctr' \in [Cids -> States] /\ ph' \in [Launches -> Phases] /\ Only(l)
        /\ UNCHANGED <<crashed, lst>>
        /\ \/ ctr' = after /\ ph'[l] = "removed"
           \/ ctr' \in {ctr, after} /\ ph'[l] = ph[l]
    BY <1>1, CallOf DEF RemoveOwnedRunner
  <1> HIDE DEF after
  <1>4. PhaseOf(l)'  BY <1>0, <1>2, <1>3 DEF PhaseOf
  <1>5. Inv'  BY <1>0, <1>3, <1>4, OnlyInv
  <1>6. returned[l] = "ended" /\ instance[l] = InstanceOf(ph[l], ctr[l]) /\ instance[l] # "live"
    BY <1>0, MappedNow DEF ReturnedTo, InstanceOf, States
  <1>7. CASE ph'[l] = "removed"
    <2>1. ctr'[l] = IF ctr[l] = "pending" THEN "pending" ELSE "absent"  BY <1>0, <1>2, <1>3, <1>7
    <2>2. instance'[l] = (IF instance[l] = "pending" THEN "pending" ELSE "gone") /\ returned'[l] = "over"
      BY <1>0, <1>6, <1>7, <2>1, MappedNext DEF ReturnedTo, InstanceOf, States
    <2> QED  BY <1>3, <1>5, <1>6, <2>2, DischargedStep DEF Implements
  <1>8. CASE ph'[l] = ph[l]
    <2>1. returned'[l] = returned[l] /\ instance'[l] = InstanceOf(ph[l], ctr'[l])
      BY <1>8, MappedNow, MappedNext
    <2>2. CASE ctr'[l] = ctr[l]
      BY <1>3, <1>5, <1>6, <2>1, <2>2, StutterStep DEF Implements
    <2>3. CASE ctr'[l] = "absent" /\ ctr[l] \notin {"absent", "pending"}
      <3>1. instance[l] \in {"made", "dead", "late"} /\ instance'[l] = "gone"
        BY <1>0, <1>6, <2>1, <2>3 DEF InstanceOf, States
      <3> QED  BY <1>3, <1>5, <1>6, <2>1, <3>1, VanishesStep DEF Implements
    <2> QED  BY <1>2, <1>3, <1>8, <2>2, <2>3
  <1> QED  BY <1>3, <1>7, <1>8

-----------------------------------------------------------------------------
(* The daemon, the others, a crash and the list of the restarted process. *)

LEMMA ExitSafe ==
  ASSUME Inv, NEW l \in Launches, Exit(l) PROVE Inv' /\ Implements
  <1>0. ctr[l] = "running" /\ ctr' = Stopped({l}) /\ ph' = ph /\ UNCHANGED <<crashed, lst>>
    BY DEF Exit
  <1>1. /\ ctr'[l] = "exited" /\ Only(l) /\ ctr' \in [Cids -> States] /\ ph' \in [Launches -> Phases]
    BY <1>0 DEF Stopped, Only, Inv, States
  <1>2. ph[l] \notin {"idle", "created"}  BY <1>0 DEF Inv, PhaseOf
  <1>3. PhaseOf(l)'  BY <1>0, <1>1, <1>2 DEF Inv, PhaseOf
  <1>4. Inv'  BY <1>0, <1>1, <1>3, OnlyInv
  <1>5. instance[l] = "live" /\ instance'[l] = "dead" /\ returned'[l] = returned[l]
    BY <1>0, <1>1, <1>2, MappedNow, MappedNext DEF InstanceOf
  <1> QED  BY <1>1, <1>4, <1>5, DieStep DEF Implements

LEMMA DaemonRemovesSafe ==
  ASSUME Inv, NEW l \in Launches, DaemonRemoves(l) PROVE Inv' /\ Implements
  <1>0. /\ ctr[l] = "exited" /\ l \notin Owned /\ ctr' = Removed({l}) /\ ph' = ph
        /\ UNCHANGED <<crashed, lst>>
    BY DEF DaemonRemoves, AutoRemove
  <1>1. /\ ctr'[l] = "absent" /\ Only(l) /\ ctr' \in [Cids -> States] /\ ph' \in [Launches -> Phases]
    BY <1>0 DEF Removed, Present, Only, Inv, States
  <1>2. ph[l] \notin {"idle", "created"} /\ ph[l] \in Phases  BY <1>0 DEF Inv, PhaseOf
  <1>3. PhaseOf(l)'  BY <1>0, <1>1, <1>2 DEF Inv, PhaseOf
  <1>4. Inv'  BY <1>0, <1>1, <1>3, OnlyInv
  <1>5. instance[l] = "dead" /\ instance'[l] = "gone" /\ returned'[l] = returned[l]
    BY <1>0, <1>1, <1>2, MappedNow, MappedNext DEF InstanceOf
  <1>6. returned[l] # "nothing"  BY <1>2, MappedNow DEF ReturnedTo, Phases
  <1> QED  BY <1>0, <1>1, <1>4, <1>5, <1>6, VanishesStep DEF Implements

LEMMA LateCreateSafe ==
  ASSUME Inv, NEW l \in Launches, LateCreate(l) PROVE Inv' /\ Implements
  <1>0. /\ ctr[l] = "pending" /\ ph' = ph /\ UNCHANGED <<crashed, lst>>
        /\ ctr' = [ctr EXCEPT ![l] = IF ReturnedTo(ph[l], l \in Owned) = "handle" THEN "created" ELSE "late"]
    BY DEF LateCreate
  <1>1. /\ ctr'[l] = (IF ReturnedTo(ph[l], l \in Owned) = "handle" THEN "created" ELSE "late")
        /\ Only(l) /\ ctr' \in [Cids -> States] /\ ph' \in [Launches -> Phases]
    BY <1>0 DEF Only, Inv, States
  <1>2. ph[l] \notin {"idle", "created"}  BY <1>0 DEF Inv, PhaseOf
  <1>3. ph[l] \in {"killed", "removed"} => ctr'[l] = "late"  BY <1>1 DEF ReturnedTo
  <1>4. PhaseOf(l)'  BY <1>0, <1>1, <1>2, <1>3 DEF Inv, PhaseOf
  <1>5. Inv'  BY <1>0, <1>1, <1>4, OnlyInv
  <1>6. /\ instance[l] = "pending" /\ returned'[l] = returned[l]
        /\ instance'[l] = IF returned[l] = "handle" THEN "made" ELSE "late"
    BY <1>0, <1>1, <1>2, MappedNow, MappedNext DEF InstanceOf
  <1> QED  BY <1>1, <1>5, <1>6, MadeLateStep DEF Implements

LEMMA LeaveSafe ==
  ASSUME Inv, NEW b \in Bystanders, Leave(b) PROVE Inv' /\ Implements
  <1>0. ctr' = Removed({b}) /\ ph' = ph /\ UNCHANGED <<crashed, lst>>
    BY DEF Leave
  <1>1. ctr' \in [Cids -> States] /\ \A l \in Launches : ctr'[l] = ctr[l]
    BY <1>0 DEF Removed, Inv, States
  <1>2. Inv'  BY <1>0, <1>1 DEF Inv, PhaseOf, Given
  <1>3. instance' = instance  BY <1>0, <1>1 DEF instance
  <1>4. returned' = returned  BY <1>0 DEF returned
  <1> QED  BY <1>2, <1>3, <1>4 DEF Implements

LEMMA CrashSafe ==
  ASSUME Inv, Crash PROVE Inv' /\ Implements
  <1>0. /\ ~crashed /\ crashed' = TRUE /\ ctr' = ctr /\ lst' = lst
        /\ ph' = [l \in Launches |-> IF ph[l] = "idle" THEN "idle" ELSE "lost"]
    BY DEF Crash
  <1>1. Inv'
    <2>1. \A l \in Launches : PhaseOf(l)' /\ (Given(l) => Given(l)')
      BY <1>0 DEF Inv, PhaseOf, Given
    <2> QED  BY <1>0, <2>1 DEF Inv, Phases
  <1>2. instance' = instance
    <2>1. \A l \in Launches : ctr'[l] = ctr[l] /\ (ph'[l] = "idle" <=> ph[l] = "idle")
      BY <1>0
    <2>2. \A l \in Launches : InstanceOf(ph'[l], ctr'[l]) = InstanceOf(ph[l], ctr[l])
      <3> TAKE l \in Launches
      <3>1. ctr[l] \in States  BY DEF Inv
      <3> QED  BY <2>1, <3>1 DEF InstanceOf, States
    <2> QED  BY <2>2 DEF instance
  <1>3. \A l \in Launches : (instance[l] = "none") = (ph[l] = "idle")
    BY DEF instance, InstanceOf, Inv, States
  <1>4. \A l \in Launches : returned'[l] = IF instance[l] = "none" THEN returned[l] ELSE "lost"
    BY <1>0, <1>3 DEF returned, ReturnedTo
  <1>5. returned' = [r \in Launches |-> IF instance[r] = "none" \/ r \in {} THEN returned[r] ELSE "lost"]
    BY <1>4 DEF returned
  <1>6. Contract!Crash
    BY <1>2, <1>5 DEF Contract!Crash
  <1> QED  BY <1>1, <1>6 DEF Implements, Contract!Next

LEMMA ListSafe ==
  ASSUME Inv, ListIDs \/ ListDone \/ NextRound \/ \E c \in Cids : Inspect(c) PROVE Inv' /\ Implements
  <1>1. ctr' = ctr /\ ph' = ph /\ crashed' = crashed
    BY DEF ListIDs, ListDone, NextRound, Inspect
  <1>2. /\ lst' \in Lists /\ \A l \in Launches \cap (lst'.ids \cup lst'.found) : Given(l)
        /\ \A l \in Launches \cap lst'.found : l \in Owned
    <2>1. CASE ListIDs
      <3>1. lst' \in Lists /\ lst'.found = {} /\ lst'.ids \subseteq Present
        BY <2>1 DEF ListIDs, Lists, Present
      <3>2. \A l \in Launches \cap Present : Given(l)
        BY <2>1 DEF ListIDs, Given, Inv, PhaseOf, Present
      <3> QED  BY <3>1, <3>2
    <2>2. CASE ListDone \/ NextRound
      BY <2>2 DEF ListDone, NextRound, NoList, Lists, Inv
    <2>3. ASSUME NEW c \in Cids, Inspect(c) PROVE <1>2
      <3>0. lst \in Lists /\ c \in lst.ids  BY <2>3 DEF Inspect, Inv
      <3>1. CASE lst' = NoList
        BY <3>1 DEF NoList, Lists
      <3>2. CASE lst' = [lst EXCEPT !.ids = @ \ {c}, !.found = IF reconciliationMatches(c) THEN @ \cup {c} ELSE @]
        <4>1. /\ lst'.ids = lst.ids \ {c} /\ lst'.found \subseteq lst.found \cup {c} /\ lst' \in Lists
              /\ c \in lst'.found => c \in lst.found \/ ScopeOf[c] = Mine
          BY <3>0, <3>2 DEF reconciliationMatches, Lists
        <4>2. c \in Launches /\ ScopeOf[c] = Mine => c \in Owned  OBVIOUS
        <4> QED  BY <3>0, <4>1, <4>2 DEF Inv
      <3> QED  BY <2>3, <3>1, <3>2 DEF Inspect
    <2> QED  BY <2>1, <2>2, <2>3
  <1>3. Inv'  BY <1>1, <1>2 DEF Inv, PhaseOf, Given
  <1> QED  BY <1>1, <1>3 DEF Implements, instance, returned

LEMMA RemoveFoundSafe ==
  ASSUME Inv, NEW c \in Cids, RemoveFound(c) PROVE Inv' /\ Implements
  <1>0. /\ c \in lst.found /\ ctr' \in {ctr, Removed({c})} /\ ph' = ph /\ crashed' = crashed
        /\ lst' = [lst EXCEPT !.found = @ \ {c}]
    BY DEF RemoveFound
  <1>1. ctr' \in [Cids -> States]  BY <1>0 DEF Removed, Inv, States
  <1>2. \A l \in Launches :
          \/ ctr'[l] = ctr[l]
          \/ l = c /\ ctr'[l] = "absent" /\ ctr[l] \notin {"absent", "pending"}
    <2>1. \A l \in Launches : Removed({c})[l] = IF l \in {c} \cap Present THEN "absent" ELSE ctr[l]
      BY DEF Removed
    <2>2. CASE ctr' = ctr  BY <2>2
    <2>3. CASE ctr' = Removed({c})  BY <2>1, <2>3 DEF Present
    <2> QED  BY <1>0, <2>2, <2>3
  <1>6. c \in Launches => ph[c] \in {"lost", "removed"} /\ c \in Owned
    BY <1>0 DEF Inv, Given
  <1>7. \A l \in Launches : PhaseOf(l)'
    BY <1>0, <1>2, <1>6 DEF Inv, PhaseOf
  <1>8. lst' \in Lists /\ lst'.ids = lst.ids /\ lst'.found \subseteq lst.found
    BY <1>0 DEF Inv, Lists
  <1>3. Inv'  BY <1>0, <1>1, <1>7, <1>8 DEF Inv, Given
  <1>4. CASE \A l \in Launches : ctr'[l] = ctr[l]
    <2>1. instance' = instance  BY <1>0, <1>4 DEF instance
    <2>2. returned' = returned  BY <1>0 DEF returned
    <2> QED  BY <1>3, <2>1, <2>2 DEF Implements
  <1>5. CASE \E l \in Launches : ctr'[l] # ctr[l]
    <2>1. c \in Launches /\ Only(c) /\ ctr'[c] = "absent" /\ ctr[c] \notin {"absent", "pending"}
      BY <1>0, <1>2, <1>5 DEF Only
    <2>2. ph[c] \in {"lost", "removed"} /\ c \in Owned /\ ctr[c] \in States /\ (ph[c] = "removed" => ctr[c] = "late")
      BY <1>6, <2>1 DEF Inv, PhaseOf
    <2>3. /\ instance[c] \in {"made", "live", "dead", "late"} /\ instance'[c] = "gone"
          /\ ph[c] = "removed" => instance[c] = "late"
      BY <1>0, <2>1, <2>2, MappedNow, MappedNext DEF InstanceOf, States
    <2>4. returned[c] = (IF ph[c] = "lost" THEN "lost" ELSE "over") /\ returned'[c] = returned[c]
      BY <1>0, <2>1, <2>2, MappedNow, MappedNext DEF ReturnedTo
    <2>5. Contract!Next  BY <2>1, <2>2, <2>3, <2>4, VanishesStep
    <2> QED  BY <1>3, <2>5 DEF Implements
  <1> QED  BY <1>4, <1>5

-----------------------------------------------------------------------------
LEMMA InitInv == Init => Inv /\ Contract!Init
  <1> SUFFICES ASSUME Init PROVE Inv /\ Contract!Init
    OBVIOUS
  <1>1. Inv  BY DEF Init, Inv, PhaseOf, NoList, Lists, States, Phases
  <1>2. instance = [r \in Launches |-> "none"]  BY DEF Init, instance, InstanceOf
  <1>3. returned = [r \in Launches |-> "nothing"]  BY DEF Init, returned, ReturnedTo
  <1> QED  BY <1>1, <1>2, <1>3 DEF Contract!Init

LEMMA NextSafe == Inv /\ [Next]_vars => Inv' /\ [Contract!Next]_(Contract!vars)
  <1> SUFFICES ASSUME Inv, [Next]_vars PROVE Inv' /\ Implements
    BY DEF Implements, Contract!vars
  <1>1. ASSUME NEW l \in Launches, Create(l) \/ Caller(l) \/ Exit(l) \/ DaemonRemoves(l) \/ LateCreate(l)
        PROVE  Inv' /\ Implements
    BY <1>1, CreateSafe, StartSafe, WaitSafe, KillStopSafe, KillRemoveSafe, KillInspectSafe,
       KillNerdctlSafe, RemoveOwnedRunnerSafe, ExitSafe, DaemonRemovesSafe,
       LateCreateSafe DEF Caller
  <1>2. ASSUME NEW b \in Bystanders, Leave(b) PROVE Inv' /\ Implements
    BY <1>2, LeaveSafe
  <1>3. CASE Crash
    BY <1>3, CrashSafe
  <1>4. CASE Reconcile
    BY <1>4, ListSafe, RemoveFoundSafe DEF Reconcile
  <1>5. CASE UNCHANGED vars
    BY <1>5 DEF vars, Inv, PhaseOf, Given, Implements, instance, returned
  <1> QED  BY <1>1, <1>2, <1>3, <1>4, <1>5 DEF Next

\* dockerBackend and containerdBackend keep the contract of the Backend interface: every step of
\* theirs, with an answer or without, is a step of the contract or none.
THEOREM ImplementsContract == Spec => KeepsContract
  BY InitInv, NextSafe, PTL DEF Spec, KeepsContract, Contract!Spec

\* A Kill that reports success for a launch without an owner has left no container; only a create
\* that the daemon carries out afterwards makes one, which never runs.
THEOREM KilledIsGoneAlways == Spec => []KilledIsGone
  <1>1. Inv => KilledIsGone  BY DEF Inv, PhaseOf, KilledIsGone
  <1> QED  BY InitInv, NextSafe, <1>1, PTL DEF Spec
-----------------------------------------------------------------------------
(* Containers of others. *)

\* Scopes carry the host's instance: no container of somebody else has the scope of this process.
Apart == \A b \in Bystanders : ScopeOf[b] # Mine

\* Nobody else's container holds the launch's name (any more: none of them comes into being).
Unambiguous(l) == \A b \in Bystanders : NameOf[b] = NameOf[l] => b \notin Present

\* Whatever of others holds the launch's name is in the way of its cleanup.
Excused(l) == \A b \in Bystanders : NameOf[b] = NameOf[l] /\ b \in Present => InTheWay(b, l)

\* The name of a launch means its own container only, once the daemon accepted it; after an
\* inspection of what holds the name on containerd, no other container but one that is in the
\* way; what the reconciler found carries this process's scope.
OwnNameInv ==
  /\ BystandersUnharmed /\ hurt \subseteq Bystanders /\ known \in [Launches -> BOOLEAN]
  /\ lst.found \subseteq {c \in Cids : ScopeOf[c] = Mine}
  /\ \A l \in Launches :
       /\ known[l] \/ ph[l] \in {"created", "up"} => Unambiguous(l)
       /\ ~docker /\ ph[l] \in {"inspected", "killed", "ended"} => Excused(l)

\* No container of others comes into being, and a launch that has begun keeps its handle's kind.
Settled ==
  /\ docker' = docker
  /\ \A b \in Bystanders : b \notin Present => (b \notin Present)'
  /\ \A k \in Launches : ph[k] # "idle" => ph'[k] # "idle" /\ known'[k] = known[k]

LEMMA Persists ==
  ASSUME Settled
  PROVE  \A k \in Launches :
           /\ \A b \in Bystanders : InTheWay(b, k) => InTheWay(b, k)'
           /\ Unambiguous(k) => Unambiguous(k)'
           /\ Excused(k) => Excused(k)'
  <1>1. ASSUME NEW k \in Launches, NEW b \in Bystanders, InTheWay(b, k) PROVE InTheWay(b, k)'
    <2>1. ph[k] # "idle" /\ ~known[k] /\ NameOf[b] = NameOf[k] /\ (docker \/ (k \notin Owned /\ ScopeOf[b] # "none"))
      BY <1>1, Zenon DEF InTheWay
    <2>2. ph'[k] # "idle" /\ known'[k] = known[k] /\ docker' = docker
      BY <2>1, Zenon DEF Settled
    <2> QED  BY <2>1, <2>2, Zenon DEF InTheWay
  <1>2. \A b \in Bystanders : b \notin Present => (b \notin Present)'  BY DEF Settled
  <1>3. ASSUME NEW k \in Launches, Unambiguous(k) PROVE Unambiguous(k)'
    BY <1>2, <1>3, Zenon DEF Unambiguous
  <1>4. ASSUME NEW k \in Launches, Excused(k) PROVE Excused(k)'
    BY <1>1, <1>2, <1>4, Zenon DEF Excused
  <1> QED  BY <1>1, <1>3, <1>4, Zenon

\* A step that hurts only what is in the way keeps the invariant if what it makes of one launch
\* does.
LEMMA OwnNameKept ==
  ASSUME OwnNameInv, Settled, NEW l \in Launches, hurt' \subseteq hurt \cup {b \in Bystanders : InTheWay(b, l)},
         lst'.found \subseteq {c \in Cids : ScopeOf[c] = Mine}, known' \in [Launches -> BOOLEAN],
         \A k \in Launches \ {l} : ph'[k] = ph[k] /\ known'[k] = known[k],
         known'[l] \/ ph'[l] \in {"created", "up"} => Unambiguous(l),
         ~docker /\ ph'[l] \in {"inspected", "killed", "ended"} => Excused(l)
  PROVE  OwnNameInv'
  <1>1. BystandersUnharmed'
    <2> SUFFICES ASSUME NEW b \in hurt' PROVE \E k \in Launches : InTheWay(b, k)'
      BY DEF BystandersUnharmed
    <2>1. b \in Bystanders /\ \E k \in Launches : InTheWay(b, k)
      BY DEF OwnNameInv, BystandersUnharmed
    <2> QED  BY <2>1, Persists, Zenon
  <1>2. docker' = docker  BY DEF Settled
  <1>3. ASSUME NEW k \in Launches
        PROVE  /\ known'[k] \/ ph'[k] \in {"created", "up"} => Unambiguous(k)'
               /\ ~docker' /\ ph'[k] \in {"inspected", "killed", "ended"} => Excused(k)'
    <2>1. CASE k = l  BY <1>2, <2>1, Persists, Zenon
    <2>2. CASE k # l
      <3>1. ph'[k] = ph[k] /\ known'[k] = known[k]  BY <2>2
      <3> QED  BY <1>2, <3>1, Persists, Zenon DEF OwnNameInv
    <2> QED  BY <2>1, <2>2
  <1> QED  BY <1>1, <1>3 DEF OwnNameInv

\* What stops or removes by the name or the ID of a launch that is unambiguous, or excused,
\* reaches only what is in the way.
LEMMA Reach ==
  ASSUME Inv, NEW l \in Launches, ph[l] # "idle", known[l] => Unambiguous(l), known[l] \in BOOLEAN,
         docker \/ Unambiguous(l) \/ Excused(l),
         NEW after \in {ctr, Stopped(Target(l)), Removed(Target(l)), Removed(Resource(l))}
  PROVE  \A b \in Bystanders :
           after[b] # ctr[b] => InTheWay(b, l) /\ b \in Present
  <1> SUFFICES ASSUME NEW b \in Bystanders, after[b] # ctr[b] PROVE InTheWay(b, l) /\ b \in Present
    OBVIOUS
  <1>1. b \in Present /\ b \in Target(l) \cup Resource(l)
    BY DEF Stopped, Removed, Inv, Present
  <1>2. b # l /\ b \in ByName(l)
    BY <1>1 DEF Target, Resource
  <1>3. NameOf[b] = NameOf[l]  BY <1>2 DEF ByName
  <1>4. ~Unambiguous(l) /\ ~known[l]  BY <1>1, <1>3 DEF Unambiguous
  <1>5. CASE docker  BY <1>1, <1>3, <1>4, <1>5, Zenon DEF InTheWay
  <1>6. CASE Excused(l)  BY <1>1, <1>3, <1>6, Zenon DEF Excused
  <1> QED  BY <1>1, <1>4, <1>5, <1>6

\* A call of a launch's caller that reaches no more than that.
LEMMA CallOwnName ==
  ASSUME Inv, OwnNameInv, NEW l \in Launches, ph[l] # "idle", NEW ok, NEW err, ok # "idle", err # "idle",
         NEW after, \A b \in Bystanders : after[b] # ctr[b] => InTheWay(b, l) /\ b \in Present,
         Call(l, after, ok, err), known' = known, docker' = docker,
         \A p \in {ok, err} :
           /\ p \in {"created", "up"} => Unambiguous(l)
           /\ ~docker /\ p \in {"inspected", "killed", "ended"} => Excused(l)
  PROVE  OwnNameInv'
  <1>1. /\ ctr' \in {ctr, after} /\ ph' \in {[ph EXCEPT ![l] = ok], [ph EXCEPT ![l] = err]}
        /\ hurt' = hurt \cup {b \in Bystanders : ctr'[b] # ctr[b]} /\ lst' = lst
    BY DEF Call
  <1>2. \A b \in Bystanders : ctr'[b] # ctr[b] => InTheWay(b, l) /\ b \in Present
    BY <1>1
  <1>3. \A b \in Bystanders : b \notin Present => (b \notin Present)'
    BY <1>2 DEF Present
  <1>4. (\A k \in Launches \ {l} : ph'[k] = ph[k]) /\ ph'[l] \in {ok, err}
    BY <1>1 DEF Inv
  <1>5. Settled
    BY <1>3, <1>4 DEF Settled
  <1>6. hurt' \subseteq hurt \cup {b \in Bystanders : InTheWay(b, l)}
    BY <1>1, <1>2
  <1>7. lst'.found \subseteq {c \in Cids : ScopeOf[c] = Mine} /\ known' \in [Launches -> BOOLEAN]
    BY <1>1 DEF OwnNameInv
  <1>8. known[l] => Unambiguous(l)  BY DEF OwnNameInv
  <1>9. /\ known'[l] \/ ph'[l] \in {"created", "up"} => Unambiguous(l)
        /\ ~docker /\ ph'[l] \in {"inspected", "killed", "ended"} => Excused(l)
    <2>1. PICK p \in {ok, err} : ph'[l] = p  BY <1>4
    <2>2. /\ p \in {"created", "up"} => Unambiguous(l)
          /\ ~docker /\ p \in {"inspected", "killed", "ended"} => Excused(l)
      OBVIOUS
    <2> QED  BY <1>8, <2>1, <2>2, Zenon
  <1> QED  BY <1>4, <1>5, <1>6, <1>7, <1>9, OwnNameKept

LEMMA CreateOwnName ==
  ASSUME Inv, OwnNameInv, NEW l \in Launches, Create(l), docker' = docker
  PROVE  OwnNameInv'
  <1>1. ph[l] = "idle"  BY DEF Create
  <1>2. /\ ph'[l] # "idle" /\ (\A k \in Launches \ {l} : ph'[k] = ph[k] /\ known'[k] = known[k])
        /\ known' \in [Launches -> BOOLEAN] /\ lst' = lst /\ hurt' = hurt
        /\ \A b \in Bystanders : ctr'[b] = ctr[b]
        /\ (known'[l] = known[l] /\ ph'[l] = "kill") \/ (ByName(l) = {} /\ ph'[l] \in {"created", "up", "kill"})
    <2>1. CASE ByName(l) # {}
      BY <2>1 DEF Create, OwnNameInv, Inv
    <2>2. CASE ByName(l) = {}
      <3>1. known' = [known EXCEPT ![l] = ph'[l] # "kill"]  BY <2>2 DEF Create
      <3>2. known' \in [Launches -> BOOLEAN] /\ \A k \in Launches \ {l} : known'[k] = known[k]
        BY <3>1, Zenon DEF OwnNameInv
      <3>3. PICK c \in {"created", "running", "pending"}, p \in {"created", "up", "kill"} :
              /\ ctr' \in {ctr, [ctr EXCEPT ![l] = c]} /\ ph' = [ph EXCEPT ![l] = p] /\ lst' = lst
              /\ hurt' = hurt \/ hurt' = hurt \cup {b \in Bystanders : ctr'[b] # ctr[b]}
        BY <2>2 DEF Create, Call, GiveUp
      <3>4. \A b \in Bystanders : ctr'[b] = ctr[b]  BY <3>3 DEF Inv
      <3> QED  BY <2>2, <3>2, <3>3, <3>4 DEF Inv
    <2> QED  BY <2>1, <2>2
  <1>3. Settled
    BY <1>1, <1>2 DEF Settled, Present
  <1>4. ByName(l) = {} => Unambiguous(l)  BY DEF Unambiguous, ByName
  <1>5. known[l] => Unambiguous(l)  BY DEF OwnNameInv
  <1>6. lst'.found \subseteq {c \in Cids : ScopeOf[c] = Mine} BY <1>2 DEF OwnNameInv
  <1> QED  BY <1>2, <1>3, <1>4, <1>5, <1>6, OwnNameKept

LEMMA CallerOwnName ==
  ASSUME Inv, OwnNameInv, NEW l \in Launches, Caller(l), docker' = docker
  PROVE  OwnNameInv'
  <1> DEFINE Spares(after) == \A b \in Bystanders : after[b] # ctr[b] => InTheWay(b, l) /\ b \in Present
  <1>1. ph[l] # "idle" /\ known' = known
    BY DEF Caller, Start, Wait, KillStop, KillRemove, KillInspect, KillNerdctl, RemoveOwnedRunner
  <1>2. (known[l] => Unambiguous(l)) /\ known[l] \in BOOLEAN /\ (Unambiguous(l) => Excused(l))
    BY DEF OwnNameInv, Unambiguous, Excused
  <1>3. ASSUME docker \/ Excused(l)
        PROVE  Spares(Stopped(Target(l))) /\ Spares(Removed(Target(l))) /\ Spares(Removed(Resource(l)))
    BY <1>1, <1>2, <1>3, Reach
  <1>4. Spares(ctr)  OBVIOUS
  <1>5. ASSUME NEW ok, NEW err, NEW after, Call(l, after, ok, err), Spares(after), ok # "idle", err # "idle",
               \A p \in {ok, err} :
                 /\ p \in {"created", "up"} => Unambiguous(l)
                 /\ ~docker /\ p \in {"inspected", "killed", "ended"} => Excused(l)
        PROVE  OwnNameInv'
    BY <1>1, <1>5, CallOwnName
  <1> HIDE DEF Spares
  <1>6. CASE Start(l)
    <2>1. Unambiguous(l) /\ Call(l, [ctr EXCEPT ![l] = "running"], "up", "kill")
      BY <1>6 DEF Start, OwnNameInv
    <2>2. Spares([ctr EXCEPT ![l] = "running"])  BY DEF Spares, Inv
    <2> QED  BY <1>5, <2>1, <2>2
  <1>7. CASE Wait(l)
    <2>1. Unambiguous(l)  BY <1>7 DEF Wait, OwnNameInv
    <2>2. PICK end \in {"ended", "kill"} :
            Call(l, IF docker \/ l \in Owned THEN ctr ELSE Removed(Target(l)), end, "kill")
      BY <1>7 DEF Wait
    <2>3. Spares(IF docker \/ l \in Owned THEN ctr ELSE Removed(Target(l)))
      BY <1>2, <1>3, <1>4, <2>1
    <2> QED  BY <1>2, <1>5, <2>1, <2>2, <2>3
  <1>8. CASE KillStop(l) \/ KillRemove(l)
    <2>1. docker  BY <1>8 DEF KillStop, KillRemove
    <2>2. PICK after \in {Stopped(Target(l)), Removed(Target(l))}, ok, err \in Phases :
            Call(l, after, ok, err) /\ {ok, err} \subseteq {"killed", "kill", "stopped", "stopfailed", "abandoned"}
      BY <1>8 DEF KillStop, KillRemove, Failed, Phases
    <2>3. Spares(after)  BY <1>3, <2>1
    <2> QED  BY <1>5, <2>1, <2>2, <2>3
  <1>9. CASE KillInspect(l)
    <2>1. PICK ok \in {"killed", "inspected", "kill", "abandoned"}, err \in {"kill", "abandoned"} :
            /\ Call(l, ctr, ok, err)
            /\ ok = "killed" => ByName(l) = {}
            /\ ok = "inspected" => failedLaunchMatches(l) /\ ~known[l]
      BY <1>9 DEF KillInspect, Failed
    <2>2. ByName(l) = {} => Unambiguous(l)  BY DEF Unambiguous, ByName
    <2>3. failedLaunchMatches(l) /\ ~known[l] => Excused(l)
      <3> SUFFICES ASSUME failedLaunchMatches(l), ~known[l], NEW b \in Bystanders, NameOf[b] = NameOf[l], b \in Present
                   PROVE  InTheWay(b, l)
        BY DEF Excused
      <3>1. b \in ByName(l) /\ b \notin Launches /\ b # l  BY DEF ByName
      <3>2. l \notin Owned /\ ScopeOf[b] # "none"  BY <3>1 DEF failedLaunchMatches
      <3> QED  BY <1>1, <3>2, Zenon DEF InTheWay
    <2> QED  BY <1>2, <1>4, <1>5, <2>1, <2>2, <2>3
  <1>10. CASE KillNerdctl(l)
    <2>1. ~docker /\ Excused(l)
      BY <1>2, <1>10 DEF KillNerdctl, OwnNameInv
    <2>2. PICK after \in {Stopped(Target(l)), Removed(Target(l))}, err \in {"kill", "abandoned"} :
            Call(l, after, "killed", err)
      BY <1>10 DEF KillNerdctl, Failed
    <2>3. Spares(after)  BY <1>3, <2>1
    <2> QED  BY <1>5, <2>1, <2>2, <2>3
  <1>11. CASE RemoveOwnedRunner(l)
    <2>1. docker \/ Excused(l)  BY <1>11 DEF RemoveOwnedRunner, OwnNameInv
    <2>2. Call(l, Removed(Resource(l)), "removed", ph[l]) /\ ph[l] \in {"killed", "ended"}
      BY <1>11 DEF RemoveOwnedRunner
    <2>3. Spares(Removed(Resource(l)))  BY <1>3, <2>1
    <2> QED  BY <1>5, <2>1, <2>2, <2>3
  <1> QED  BY <1>6, <1>7, <1>8, <1>9, <1>10, <1>11 DEF Caller

LEMMA OwnNameNext == ASSUME Apart, Inv, OwnNameInv, [Next]_vars PROVE OwnNameInv'
  <1>1. CASE UNCHANGED vars
    BY <1>1 DEF OwnNameInv, BystandersUnharmed, InTheWay, Unambiguous, Excused, Present, vars
  <1> SUFFICES ASSUME Next PROVE OwnNameInv'
    BY <1>1
  <1>0. docker' = docker  BY DEF Next
  <1>2. ASSUME NEW l \in Launches, Create(l) \/ Caller(l) PROVE OwnNameInv'
    BY <1>0, <1>2, CreateOwnName, CallerOwnName
  <1>3. ASSUME \A b \in Bystanders : b \notin Present => (b \notin Present)', UNCHANGED <<known, hurt>>,
               \A l \in Launches : ph'[l] = ph[l] \/ (ph[l] # "idle" /\ ph'[l] = "lost"),
               lst'.found \subseteq {c \in Cids : ScopeOf[c] = Mine}
        PROVE  OwnNameInv'
    <2>1. Settled  BY <1>0, <1>3 DEF Settled
    <2>2. BystandersUnharmed'
      <3> SUFFICES ASSUME NEW b \in hurt' PROVE \E k \in Launches : InTheWay(b, k)'
        BY DEF BystandersUnharmed
      <3>1. b \in Bystanders /\ \E k \in Launches : InTheWay(b, k)
        BY <1>3 DEF OwnNameInv, BystandersUnharmed
      <3> QED  BY <2>1, <3>1, Persists, Zenon
    <2>3. ASSUME NEW l \in Launches
          PROVE  /\ known'[l] \/ ph'[l] \in {"created", "up"} => Unambiguous(l)'
                 /\ ~docker' /\ ph'[l] \in {"inspected", "killed", "ended"} => Excused(l)'
      <3>1. ph'[l] = ph[l] \/ ph'[l] = "lost"  BY <1>3
      <3>2. (Unambiguous(l) => Unambiguous(l)') /\ (Excused(l) => Excused(l)')
        BY <2>1, Persists
      <3>3. /\ known[l] \/ ph[l] \in {"created", "up"} => Unambiguous(l)
            /\ ~docker /\ ph[l] \in {"inspected", "killed", "ended"} => Excused(l)
        BY DEF OwnNameInv
      <3> QED  BY <1>0, <1>3, <3>1, <3>2, <3>3
    <2> QED  BY <1>3, <2>2, <2>3 DEF OwnNameInv
  <1>4. ASSUME NEW l \in Launches, Exit(l) \/ DaemonRemoves(l) \/ LateCreate(l) PROVE OwnNameInv'
    <2>1. /\ UNCHANGED <<ph, known, hurt, lst>>
          /\ ctr' \in {Stopped({l}), Removed({l})} \/ \E c : ctr' = [ctr EXCEPT ![l] = c]
      BY <1>4 DEF Exit, DaemonRemoves, LateCreate
    <2>2. \A b \in Bystanders : ctr'[b] = ctr[b]
      BY <2>1 DEF Stopped, Removed, Inv
    <2> QED  BY <1>3, <2>1, <2>2 DEF OwnNameInv, Present
  <1>5. ASSUME NEW b \in Bystanders, Leave(b) PROVE OwnNameInv'
    <2>1. UNCHANGED <<ph, known, hurt, lst>> /\ ctr' = Removed({b})
      BY <1>5 DEF Leave
    <2>2. \A d \in Bystanders : d \notin Present => (d \notin Present)'
      BY <2>1 DEF Removed, Present
    <2> QED  BY <1>3, <2>1, <2>2 DEF OwnNameInv
  <1>6. CASE Crash
    <2>1. \A l \in Launches : ph'[l] = ph[l] \/ (ph[l] # "idle" /\ ph'[l] = "lost")
      BY <1>6 DEF Crash
    <2> QED  BY <1>3, <1>6, <2>1 DEF Crash, OwnNameInv, Present
  <1>7. CASE ListIDs \/ ListDone \/ NextRound
    <2>1. lst'.found \subseteq lst.found
      BY <1>7 DEF ListIDs, ListDone, NextRound, NoList, Inv, Lists
    <2> QED  BY <1>3, <1>7, <2>1 DEF ListIDs, ListDone, NextRound, OwnNameInv, Present
  <1>8. ASSUME NEW c \in Cids, Inspect(c) PROVE OwnNameInv'
    <2>1. lst'.found \subseteq lst.found \cup {d \in Cids : d = c /\ ScopeOf[c] = Mine}
      BY <1>8 DEF Inspect, NoList, reconciliationMatches, Inv, Lists
    <2> QED  BY <1>3, <1>8, <2>1 DEF Inspect, OwnNameInv, Present
  <1>9. ASSUME NEW c \in Cids, RemoveFound(c) PROVE OwnNameInv'
    <2>1. c \notin Bystanders  BY <1>9 DEF RemoveFound, OwnNameInv, Apart
    <2>2. \A b \in Bystanders : ctr'[b] = ctr[b]  BY <1>9, <2>1 DEF RemoveFound, Removed
    <2>3. hurt' = hurt  BY <1>9, <2>2 DEF RemoveFound
    <2>4. lst'.found \subseteq lst.found
      BY <1>9 DEF RemoveFound, Inv, Lists
    <2> QED  BY <1>3, <1>9, <2>2, <2>3, <2>4 DEF RemoveFound, OwnNameInv, Present
  <1> QED  BY <1>2, <1>4, <1>5, <1>6, <1>7, <1>8, <1>9 DEF Next, Reconcile

\* Whoever holds which name, a container of somebody else is stopped or removed only by the
\* cleanup of a launch whose create failed, of that name, and on containerd only if it carries
\* multirunner's label and the launch has no owner.
THEOREM OthersStayUnharmed == ASSUME Apart PROVE Spec => []BystandersUnharmed
  <1>1. Init => OwnNameInv
    BY DEF Init, OwnNameInv, BystandersUnharmed, NoList, Cids
  <1>2. Inv /\ OwnNameInv /\ [Next]_vars => OwnNameInv'
    BY OwnNameNext
  <1>3. OwnNameInv => BystandersUnharmed
    BY DEF OwnNameInv
  <1> QED  BY InitInv, NextSafe, <1>1, <1>2, <1>3, PTL DEF Spec
==============================================================================
