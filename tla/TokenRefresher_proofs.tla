------------------------ MODULE TokenRefresher_proofs ------------------------
(***************************************************************************)
(* Proofs about TokenRefresher, for every set of processes and all bounds. *)
(*                                                                         *)
(* The argument: a pair is replaced only once it is aged, so a pair that   *)
(* is not aged is the live one (ClockInv); and the process that owes the   *)
(* sidecar a pair holds a newer one than the sidecar and everyone else     *)
(* (OwnerInv), so its write, with or without the lock file, moves the      *)
(* sidecar forward.                                                        *)
(***************************************************************************)
EXTENDS TokenRefresher, TLAPS

USE TokenAssumption

\* Only an aged pair is replaced; a call past the first check holds an aged pair.
ClockInv ==
  /\ live <= aged + 1
  /\ file <= live
  /\ \A p \in Procs : tok[p] <= live
  /\ \A p \in Procs : pc[p] \in {"locking", "read", "refresh"} => tok[p] <= aged

\* A process that owes the sidecar its pair has a newer one than the sidecar and the others.
OwnerInv ==
  /\ \A p \in unsaved : pc[p] # "off" /\ file < tok[p] /\ \A q \in Procs \ {p} : tok[q] < tok[p]
  /\ \A p \in Procs : pc[p] = "save" =>
        /\ p \notin unsaved /\ tok[p] = live /\ file < live
        /\ \A q \in Procs \ {p} : tok[q] < live

Inv == TypeOK /\ ClockInv /\ OwnerInv /\ LivePairKept

LEMMA InitInv == Init => Inv
  BY DEF Init, Inv, TypeOK, ClockInv, OwnerInv, LivePairKept, Versions

LEMMA NewTokenRefresherInv ==
  ASSUME Inv, NEW p \in Procs, NewTokenRefresher(p) PROVE Inv'
  <1> USE DEF NewTokenRefresher, At, Goto, NoFault
  <1>1. TypeOK'  BY DEF Inv, TypeOK, Versions
  <1>2. ClockInv'  BY DEF Inv, TypeOK, Versions, ClockInv
  <1>3. OwnerInv'  BY DEF Inv, TypeOK, Versions, ClockInv, OwnerInv
  <1>4. LivePairKept'  BY DEF Inv, TypeOK, Versions, LivePairKept, OwnerInv, Keeps
  <1> QED  BY <1>1, <1>2, <1>3, <1>4 DEF Inv

LEMMA AccessTokenInv ==
  ASSUME Inv, NEW p \in Procs, AccessToken(p) PROVE Inv'
  <1> USE DEF AccessToken, retrySave, RetrySave, needsRefresh, Return, Unlock, At, Goto, NoFault, Fault
  <1>1. TypeOK'  BY DEF Inv, TypeOK, Versions
  <1>2. ClockInv'  BY DEF Inv, TypeOK, Versions, ClockInv
  <1>3. OwnerInv'  BY DEF Inv, TypeOK, Versions, ClockInv, OwnerInv
  <1>4. LivePairKept'  BY DEF Inv, TypeOK, Versions, LivePairKept, ClockInv, OwnerInv, Keeps
  <1> QED  BY <1>1, <1>2, <1>3, <1>4 DEF Inv

LEMMA LockInv ==
  ASSUME Inv, NEW p \in Procs, Lock(p) \/ LockGivenUp(p) PROVE Inv'
  <1> USE DEF Lock, LockGivenUp, Fail, Unlock, At, Goto, NoFault, memory
  <1>1. TypeOK'  BY DEF Inv, TypeOK, Versions
  <1>2. ClockInv'  BY DEF Inv, TypeOK, Versions, ClockInv
  <1>3. OwnerInv'  BY DEF Inv, TypeOK, Versions, ClockInv, OwnerInv
  <1>4. LivePairKept'  BY DEF Inv, TypeOK, Versions, LivePairKept, OwnerInv, Keeps
  <1> QED  BY <1>1, <1>2, <1>3, <1>4 DEF Inv

LEMMA ReadStoredInv ==
  ASSUME Inv, NEW p \in Procs, ReadStored(p) PROVE Inv'
  <1> USE DEF ReadStored, Adopt, needsRefresh, Return, Unlock, At, Goto, NoFault, Fault, memory
  <1>1. TypeOK'  BY DEF Inv, TypeOK, Versions
  <1>2. ClockInv'  BY DEF Inv, TypeOK, Versions, ClockInv
  <1>3. OwnerInv'  BY DEF Inv, TypeOK, Versions, ClockInv, OwnerInv
  <1>4. LivePairKept'  BY DEF Inv, TypeOK, Versions, LivePairKept, ClockInv, OwnerInv, Keeps
  <1> QED  BY <1>1, <1>2, <1>3, <1>4 DEF Inv

LEMMA RefreshInv ==
  ASSUME Inv, NEW p \in Procs, Refresh(p) PROVE Inv'
  <1> USE DEF Refresh, Fail, Unlock, At, Goto, NoFault, Fault, Loss
  <1>1. TypeOK'  BY DEF Inv, TypeOK, Versions
  <1>2. ClockInv'  BY DEF Inv, TypeOK, Versions, ClockInv
  <1>3. OwnerInv'  BY DEF Inv, TypeOK, Versions, ClockInv, OwnerInv
  <1>4. LivePairKept'  BY DEF Inv, TypeOK, Versions, LivePairKept, ClockInv, OwnerInv, Keeps
  <1> QED  BY <1>1, <1>2, <1>3, <1>4 DEF Inv

LEMMA SaveInv ==
  ASSUME Inv, NEW p \in Procs, Save(p) PROVE Inv'
  <1> USE DEF Save, SaveFailed, Return, Unlock, At, Goto, NoFault, Fault
  <1>1. TypeOK'  BY DEF Inv, TypeOK, Versions
  <1>2. ClockInv'  BY DEF Inv, TypeOK, Versions, ClockInv
  <1>3. OwnerInv'  BY DEF Inv, TypeOK, Versions, ClockInv, OwnerInv
  <1>4. LivePairKept'  BY DEF Inv, TypeOK, Versions, LivePairKept, ClockInv, OwnerInv, Keeps
  <1> QED  BY <1>1, <1>2, <1>3, <1>4 DEF Inv

LEMMA RoundTripInv ==
  ASSUME Inv, NEW p \in Procs, RoundTrip(p) PROVE Inv'
  <1> USE DEF RoundTrip, At, Goto, NoFault
  <1>1. TypeOK'  BY DEF Inv, TypeOK, Versions
  <1>2. ClockInv'  BY DEF Inv, TypeOK, Versions, ClockInv
  <1>3. OwnerInv'  BY DEF Inv, TypeOK, Versions, ClockInv, OwnerInv
  <1>4. LivePairKept'  BY DEF Inv, TypeOK, Versions, LivePairKept, OwnerInv, Keeps
  <1> QED  BY <1>1, <1>2, <1>3, <1>4 DEF Inv

LEMMA CrashInv ==
  ASSUME Inv, NEW p \in Procs, Crash(p) PROVE Inv'
  <1> USE DEF Crash, At, Goto, NoFault, Loss
  <1>1. TypeOK'  BY DEF Inv, TypeOK, Versions
  <1>2. ClockInv'  BY DEF Inv, TypeOK, Versions, ClockInv
  <1>3. OwnerInv'  BY DEF Inv, TypeOK, Versions, ClockInv, OwnerInv
  <1>4. LivePairKept'  BY DEF Inv, TypeOK, Versions, LivePairKept, OwnerInv, Keeps
  <1> QED  BY <1>1, <1>2, <1>3, <1>4 DEF Inv

LEMMA AgeInv == ASSUME Inv, Age PROVE Inv'
  BY DEF Inv, Age, memory, TypeOK, Versions, ClockInv, OwnerInv, LivePairKept, Keeps

LEMMA StutterInv == ASSUME Inv, UNCHANGED vars PROVE Inv'
  BY DEF Inv, vars, TypeOK, ClockInv, OwnerInv, LivePairKept, Keeps

\* The invariant the results below rest on: the pair a process owes the sidecar is newer
\* than the sidecar's and than every other process's, and a pair is replaced only aged.
THEOREM Invariance == Spec => []Inv
  <1>1. Inv /\ [Next]_vars => Inv'
    <2> SUFFICES ASSUME Inv, [Next]_vars PROVE Inv'
      OBVIOUS
    <2>1. CASE Age  BY <2>1, AgeInv
    <2>2. ASSUME NEW p \in Procs, NewTokenRefresher(p) PROVE Inv'
      BY <2>2, NewTokenRefresherInv
    <2>3. ASSUME NEW p \in Procs, Goes(p) PROVE Inv'
      BY <2>3, AccessTokenInv, LockInv, ReadStoredInv, RefreshInv, SaveInv, RoundTripInv DEF Goes
    <2>4. ASSUME NEW p \in Procs, Crash(p) PROVE Inv'
      BY <2>4, CrashInv
    <2>5. CASE UNCHANGED vars  BY <2>5, StutterInv
    <2> QED  BY <2>1, <2>2, <2>3, <2>4, <2>5 DEF Next
  <1> QED  BY InitInv, <1>1, PTL DEF Spec

\* TypeOK for every set of processes: the lock file is held by exactly the calls inside.
THEOREM TypeCorrect == Spec => []TypeOK
  <1>1. Inv => TypeOK  BY DEF Inv
  <1> QED  BY Invariance, <1>1, PTL

\* The live pair is never lost as long as no process dies in a rotation and no answer of
\* GitHub is lost: it is in the sidecar or with a process that goes on saving it.
THEOREM LivePairIsKept == Spec => []LivePairKept
  <1>1. Inv => LivePairKept  BY DEF Inv
  <1> QED  BY Invariance, <1>1, PTL

\* AccessToken returns only the pair GitHub accepts at that moment.
THEOREM HandedOutTokensAreLive == Spec => TokensHandedOutAreLive
  <1>1. Inv /\ [Next]_vars => [HandsOutLive]_vars
    <2> SUFFICES ASSUME Inv, Next, NEW q \in Procs, given'[q] \notin {given[q], -1}
                 PROVE given'[q] = live'
      BY DEF HandsOutLive
    <2> USE DEF Inv, TypeOK, Versions
    <2>1. CASE Age  BY <2>1 DEF Age, memory
    <2> SUFFICES ASSUME NEW p \in Procs, NewTokenRefresher(p) \/ Goes(p) \/ Crash(p)
                 PROVE given'[q] = live'
      BY <2>1 DEF Next
    <2>2. CASE NewTokenRefresher(p) \/ RoundTrip(p) \/ Crash(p) \/ Lock(p) \/ LockGivenUp(p) \/ Refresh(p)
      BY <2>2 DEF NewTokenRefresher, RoundTrip, Crash, Lock, LockGivenUp, Refresh, Fail, memory
    <2>3. CASE AccessToken(p)
      BY <2>3 DEF AccessToken, needsRefresh, Return, ClockInv
    <2>4. CASE ReadStored(p)
      BY <2>4 DEF ReadStored, Adopt, needsRefresh, Return, ClockInv, memory
    <2>5. CASE Save(p)
      BY <2>5 DEF Save, At, Return, OwnerInv
    <2> QED  BY <2>2, <2>3, <2>4, <2>5 DEF Goes
  <1> QED  BY Invariance, <1>1, PTL DEF Spec, TokensHandedOutAreLive

\* No write takes the sidecar back to an older pair, the unlocked retry included.
THEOREM SidecarAdvances == Spec => SidecarNeverRegresses
  <1>1. Inv /\ [Next]_vars => [Advances]_vars
    <2> SUFFICES ASSUME Inv, Next PROVE file' >= file
      BY DEF Advances
    <2> USE DEF Inv, TypeOK, Versions
    <2>1. CASE Age  BY <2>1 DEF Age
    <2> SUFFICES ASSUME NEW p \in Procs, NewTokenRefresher(p) \/ Goes(p) \/ Crash(p)
                 PROVE file' >= file
      BY <2>1 DEF Next
    <2>2. CASE NewTokenRefresher(p) \/ RoundTrip(p) \/ Crash(p) \/ Lock(p) \/ LockGivenUp(p)
               \/ ReadStored(p) \/ Refresh(p)
      BY <2>2 DEF NewTokenRefresher, RoundTrip, Crash, Lock, LockGivenUp, ReadStored, Refresh
    <2>3. CASE AccessToken(p)
      BY <2>3 DEF AccessToken, retrySave, RetrySave, OwnerInv
    <2>4. CASE Save(p)
      BY <2>4 DEF Save, At, OwnerInv
    <2> QED  BY <2>2, <2>3, <2>4 DEF Goes
  <1> QED  BY Invariance, <1>1, PTL DEF Spec, SidecarNeverRegresses
=============================================================================
