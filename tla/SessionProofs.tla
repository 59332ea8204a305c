---------------------------- MODULE SessionProofs ----------------------------
(***************************************************************************)
(* What Session promises, for any governors, any ways of logging in and    *)
(* any number of runs.  The heart of the inductive invariant is            *)
(* GovernorKnown: while a run goes on, the board has the governor the run  *)
(* found or, if the run took that one's name down, "userspace".            *)
(* That a run ends is left to fairness: what is proved here is that it has *)
(* a bounded number of steps and always a process that can take the next.  *)
(***************************************************************************)
EXTENDS Session, TLAPS

\* Before fork(), and after an end before fork(), there is no child.
ChildAfterFork ==
    pc["parent"] \in {"none", "options", "init", "select", "program", "expinfo",
                      "register", "open_sysfs", "fork", "exited", "crashed"}
        => pc["child"] = "none"

\* A name in orig_gpugov_name was read by root, in a run with -g, at its start.
NameIsFound ==
    /\ pc["parent"] \in {"options", "init"} => orig_gpugov_name = NoName
    /\ pc["parent"] \in {"init", "select"} => run.gpugov # "none"
    /\ orig_gpugov_name # NoName => /\ orig_gpugov_name = found
                                    /\ run.gpugov # "none"
                                    /\ run.login.ruid = Root

GovernorKnown ==
    pc["parent"] # "none" =>
        \/ governor = found
        \/ orig_gpugov_name # NoName /\ governor = "userspace"

Restored == \A p \in Procs : pc[p] \in {"drop_gov", "done"} => governor = found

\* The governor a run finds is the administrator's or that of a spoiled board.
WantedKept ==
    /\ pc["parent"] = "none" => governor = wanted
    /\ pc["parent"] # "none" => \/ found = wanted
                                \/ spoiled /\ found = "userspace"

CutShort ==
    pc["parent"] \in {"exited", "crashed", "killed"} =>
        spoiled \/ orig_gpugov_name = NoName

\* With -g the pointer is set when the preparation goes on; a crash is for an
\* unknown name or for the governor a run without -g found.
PointerSet ==
    /\ pc["parent"] \in {"program", "expinfo"} /\ run.gpugov # "none" =>
           curr_gpugov
    /\ pc["parent"] = "crashed" =>
           \/ run.gpugov = "unknown"
           \/ run.gpugov = "none" /\ found = "userspace"

IInv ==
    /\ TypeOK /\ PrivilegeConfined
    /\ ChildAfterFork /\ NameIsFound /\ GovernorKnown /\ Restored
    /\ WantedKept /\ CutShort /\ PointerSet

USE DEF Goto, Ended, Active, Idle, Procs, fileVars, govVars, historyVars

-----------------------------------------------------------------------------
LEMMA LoginIds == Root \in Ids /\ \A l \in Logins : l.ruid \in Ids /\ l.rgid \in Ids
  BY DEF Ids

LEMMA IdRecords ==
    /\ [euid |-> Root, egid |-> Root] \in [euid : Ids, egid : Ids]
    /\ \A l \in Logins :
           [euid |-> l.ruid, egid |-> l.rgid] \in [euid : Ids, egid : Ids]
  BY LoginIds

\* drop_root_privilege_temp() always ends with the user's own ids.
LEMMA DropIsOwn ==
    ASSUME NEW a, NEW b, NEW login
    PROVE  DropRoot([euid |-> a, egid |-> b], login)
               = [euid |-> login.ruid, egid |-> login.rgid]
  <1>1. [[euid |-> a, egid |-> b] EXCEPT !.egid = login.rgid]
            = [euid |-> a, egid |-> login.rgid]
    OBVIOUS
  <1>2. ASSUME NEW c, c = [euid |-> a, egid |-> login.rgid]
        PROVE  [c EXCEPT !.euid = login.ruid]
                   = [euid |-> login.ruid, egid |-> login.rgid]
    BY <1>2
  <1> QED
    BY <1>1, <1>2 DEF DropRoot

\* restore_root_privilege() from the user's own ids: root's, if possible.
LEMMA RestoreGains ==
    ASSUME NEW c, c = [euid |-> run.login.ruid, egid |-> run.login.rgid]
    PROVE  RestoreRoot(c) = IF Root \in {run.login.ruid, run.login.suid}
                            THEN [euid |-> Root, egid |-> Root] ELSE c
  <1> DEFINE user == [c EXCEPT !.euid = Root]
  <1>1. user = [euid |-> Root, egid |-> run.login.rgid]
    OBVIOUS
  <1>2. CASE Root \in {run.login.ruid, run.login.suid}
    <2>1. MaySetEuid(c, Root) /\ MaySetEgid(user, Root)
      BY <1>1, <1>2 DEF MaySetEuid, MaySetEgid
    <2>2. ASSUME NEW u, u = [euid |-> Root, egid |-> run.login.rgid]
          PROVE  [u EXCEPT !.egid = Root] = [euid |-> Root, egid |-> Root]
      BY <2>2
    <2> QED
      BY <1>1, <1>2, <2>1, <2>2 DEF RestoreRoot
  <1>3. CASE Root \notin {run.login.ruid, run.login.suid}
    BY <1>3 DEF RestoreRoot, MaySetEuid
  <1> QED
    BY <1>2, <1>3

LEMMA InitInv == Init => IInv
  <1> SUFFICES ASSUME Init PROVE IInv
    OBVIOUS
  <1>1. TypeOK
    <2>1. cred \in [Procs -> [euid : Ids, egid : Ids]]
      BY IdRecords DEF Init
    <2>2. runs \in 0 .. MaxRuns
      BY SessionAssumption DEF Init
    <2> QED
      BY <2>1, <2>2 DEF Init, TypeOK, Places
  <1> QED
    BY <1>1 DEF Init, IInv, PrivilegeConfined, ChildAfterFork, NameIsFound,
                GovernorKnown, Restored, WantedKept, CutShort, PointerSet

\* The parts that are not about types or privileges.
Story ==
    /\ ChildAfterFork /\ NameIsFound /\ GovernorKnown /\ Restored
    /\ WantedKept /\ CutShort /\ PointerSet

LEMMA StepInv == IInv /\ [Next]_vars => IInv'
  <1> SUFFICES ASSUME IInv, [Next]_vars PROVE IInv'
    OBVIOUS
  <1> USE DEF IInv
  <1>1. ASSUME NEW g \in Governors, AdminSets(g) PROVE IInv'
    <2>1. TypeOK'
      BY <1>1
         DEF AdminSets, TypeOK, Places, Privileged, Runs
    <2>2. PrivilegeConfined'
      BY <1>1
         DEF AdminSets, TypeOK, PrivilegeConfined, Privileged
    <2>3. Story'
      BY <1>1, SessionAssumption
         DEF AdminSets, TypeOK, Story, PrivilegeConfined, Privileged, Runs,
             ChildAfterFork, NameIsFound, GovernorKnown,
                Restored, WantedKept, CutShort, PointerSet
    <2> QED
      BY <2>1, <2>2, <2>3 DEF Story
  <1>2. ASSUME NEW r \in Runs, Start(r) PROVE IInv'
    <2>a. cred' = [p \in Procs |-> [euid |-> r.login.ruid,
                                    egid |-> r.login.rgid]]
      BY <1>2, DropIsOwn DEF Start
    <2>b. r.login \in Logins
      BY DEF Runs
    <2>1. TypeOK'
      <3>1. cred' \in [Procs -> [euid : Ids, egid : Ids]]
        BY <2>a, <2>b, IdRecords
      <3>2. runs' \in 0 .. MaxRuns
        BY <1>2, SessionAssumption DEF Start, TypeOK
      <3> QED
        BY <1>2, <3>1, <3>2 DEF Start, TypeOK, Places
    <2>2. PrivilegeConfined'
      BY <1>2, <2>a DEF Start, PrivilegeConfined, Privileged
    <2>3. Story'
      BY <1>2, SessionAssumption
         DEF Start, TypeOK, Story, PrivilegeConfined, Privileged, Runs,
             ChildAfterFork, NameIsFound, GovernorKnown,
                Restored, WantedKept, CutShort, PointerSet
    <2> QED
      BY <2>1, <2>2, <2>3 DEF Story
  <1>3. ASSUME Options PROVE IInv'
    <2>1. TypeOK'
      BY <1>3
         DEF Options, TypeOK, Places, Privileged, Runs
    <2>2. PrivilegeConfined'
      BY <1>3
         DEF Options, TypeOK, PrivilegeConfined, Privileged
    <2>3. Story'
      BY <1>3, SessionAssumption
         DEF Options, TypeOK, Story, PrivilegeConfined, Privileged, Runs,
             ChildAfterFork, NameIsFound, GovernorKnown,
                Restored, WantedKept, CutShort, PointerSet
    <2> QED
      BY <2>1, <2>2, <2>3 DEF Story
  <1>4. ASSUME InitGovernor PROVE IInv'
    <2>1. TypeOK'
      BY <1>4, SessionAssumption
         DEF InitGovernor, TypeOK, Places, Privileged, Runs
    <2>2. PrivilegeConfined'
      BY <1>4
         DEF InitGovernor, TypeOK, PrivilegeConfined, Privileged
    <2>a. cred["parent"].euid = run.login.ruid
      BY <1>4 DEF InitGovernor, PrivilegeConfined, Privileged
    <2>3. Story'
      BY <1>4, <2>a, SessionAssumption
         DEF InitGovernor, TypeOK, Story, PrivilegeConfined, Privileged, Runs,
             ChildAfterFork, NameIsFound, GovernorKnown,
                Restored, WantedKept, CutShort, PointerSet
    <2> QED
      BY <2>1, <2>2, <2>3 DEF Story
  <1>5. ASSUME SelectGovernor PROVE IInv'
    <2>1. TypeOK'
      BY <1>5
         DEF SelectGovernor, TypeOK, Places, Privileged, Runs
    <2>2. PrivilegeConfined'
      BY <1>5
         DEF SelectGovernor, TypeOK, PrivilegeConfined, Privileged
    <2>3. Story'
      BY <1>5, SessionAssumption
         DEF SelectGovernor, TypeOK, Story, PrivilegeConfined, Privileged, Runs,
             ChildAfterFork, NameIsFound, GovernorKnown,
                Restored, WantedKept, CutShort, PointerSet
    <2> QED
      BY <2>1, <2>2, <2>3 DEF Story
  <1>6. ASSUME CheckProgram PROVE IInv'
    <2>1. TypeOK'
      BY <1>6, ZenonT(30)
         DEF CheckProgram, TypeOK, Places, Privileged, Runs
    <2>2. PrivilegeConfined'
      BY <1>6
         DEF CheckProgram, TypeOK, PrivilegeConfined, Privileged
    <2>3. Story'
      BY <1>6, SessionAssumption
         DEF CheckProgram, TypeOK, Story, PrivilegeConfined, Privileged, Runs,
             ChildAfterFork, NameIsFound, GovernorKnown,
                Restored, WantedKept, CutShort, PointerSet
    <2> QED
      BY <2>1, <2>2, <2>3 DEF Story
  <1>7. ASSUME PrintExpinfo PROVE IInv'
    <2>1. TypeOK'
      BY <1>7
         DEF PrintExpinfo, TypeOK, Places, Privileged, Runs
    <2>2. PrivilegeConfined'
      BY <1>7
         DEF PrintExpinfo, TypeOK, PrivilegeConfined, Privileged
    <2>3. Story'
      BY <1>7, SessionAssumption
         DEF PrintExpinfo, TypeOK, Story, PrivilegeConfined, Privileged, Runs,
             ChildAfterFork, NameIsFound, GovernorKnown,
                Restored, WantedKept, CutShort, PointerSet
    <2> QED
      BY <2>1, <2>2, <2>3 DEF Story
  <1>8. ASSUME Register PROVE IInv'
    <2>a. cred["parent"] = [euid |-> run.login.ruid, egid |-> run.login.rgid]
      BY <1>8 DEF Register, PrivilegeConfined, Privileged
    <2>b. cred'["parent"] = IF Root \in {run.login.ruid, run.login.suid}
                      THEN [euid |-> Root, egid |-> Root] ELSE cred["parent"]
      BY <1>8, <2>a, RestoreGains DEF Register, TypeOK
    <2>c. cred' \in [Procs -> [euid : Ids, egid : Ids]]
      BY <1>8, <2>b, IdRecords DEF Register, TypeOK
    <2>1. TypeOK'
      BY <1>8, <2>c DEF Register, TypeOK, Places, Privileged
    <2>2. PrivilegeConfined'
      BY <1>8, <2>a, <2>b, <2>c
         DEF Register, TypeOK, PrivilegeConfined, Privileged
    <2>3. Story'
      BY <1>8, SessionAssumption
         DEF Register, TypeOK, Story, PrivilegeConfined, Privileged, Runs,
             ChildAfterFork, NameIsFound, GovernorKnown,
                Restored, WantedKept, CutShort, PointerSet
    <2> QED
      BY <2>1, <2>2, <2>3 DEF Story
  <1>9. ASSUME OpenSysfs PROVE IInv'
    <2>a. DropRoot(cred["parent"], run.login)
              = [euid |-> run.login.ruid, egid |-> run.login.rgid]
      BY <1>9, DropIsOwn DEF OpenSysfs, TypeOK, DropRoot
    <2>b. run.login \in Logins
      BY DEF TypeOK, Runs
    <2>c. cred' = [cred EXCEPT !["parent"] = [euid |-> run.login.ruid,
                                        egid |-> run.login.rgid]]
      BY <1>9, <2>a DEF OpenSysfs
    <2>1. TypeOK'
      BY <1>9, <2>b, <2>c, IdRecords DEF OpenSysfs, TypeOK, Places
    <2>2. PrivilegeConfined'
      BY <1>9, <2>c DEF OpenSysfs, TypeOK, PrivilegeConfined, Privileged
    <2>3. Story'
      BY <1>9, SessionAssumption
         DEF OpenSysfs, TypeOK, Story, PrivilegeConfined, Privileged, Runs,
             ChildAfterFork, NameIsFound, GovernorKnown,
                Restored, WantedKept, CutShort, PointerSet
    <2> QED
      BY <2>1, <2>2, <2>3 DEF Story
  <1>10. ASSUME Fork PROVE IInv'
    <2>1. TypeOK'
      BY <1>10
         DEF Fork, TypeOK, Places, Privileged, Runs
    <2>2. PrivilegeConfined'
      BY <1>10
         DEF Fork, TypeOK, PrivilegeConfined, Privileged
    <2>3. Story'
      BY <1>10, SessionAssumption
         DEF Fork, TypeOK, Story, PrivilegeConfined, Privileged, Runs,
             ChildAfterFork, NameIsFound, GovernorKnown,
                Restored, WantedKept, CutShort, PointerSet
    <2> QED
      BY <2>1, <2>2, <2>3 DEF Story
  <1>11. ASSUME Exec PROVE IInv'
    <2>1. TypeOK'
      BY <1>11
         DEF Exec, TypeOK, Places, Privileged, Runs
    <2>2. PrivilegeConfined'
      BY <1>11
         DEF Exec, TypeOK, PrivilegeConfined, Privileged
    <2>3. Story'
      BY <1>11, SessionAssumption
         DEF Exec, TypeOK, Story, PrivilegeConfined, Privileged, Runs,
             ChildAfterFork, NameIsFound, GovernorKnown,
                Restored, WantedKept, CutShort, PointerSet
    <2> QED
      BY <2>1, <2>2, <2>3 DEF Story
  <1>12. ASSUME CaffeExits PROVE IInv'
    <2>1. TypeOK'
      BY <1>12
         DEF CaffeExits, TypeOK, Places, Privileged, Runs
    <2>2. PrivilegeConfined'
      BY <1>12
         DEF CaffeExits, TypeOK, PrivilegeConfined, Privileged
    <2>3. Story'
      BY <1>12, SessionAssumption
         DEF CaffeExits, TypeOK, Story, PrivilegeConfined, Privileged, Runs,
             ChildAfterFork, NameIsFound, GovernorKnown,
                Restored, WantedKept, CutShort, PointerSet
    <2> QED
      BY <2>1, <2>2, <2>3 DEF Story
  <1>13. ASSUME NEW p \in Procs, LeaveLoop(p) PROVE IInv'
    <2>1. TypeOK'
      BY <1>13
         DEF LeaveLoop, TypeOK, Places, Privileged, Runs
    <2>2. PrivilegeConfined'
      BY <1>13
         DEF LeaveLoop, TypeOK, PrivilegeConfined, Privileged
    <2>3. Story'
      BY <1>13, SessionAssumption
         DEF LeaveLoop, TypeOK, Story, PrivilegeConfined, Privileged, Runs,
             ChildAfterFork, NameIsFound, GovernorKnown,
                Restored, WantedKept, CutShort, PointerSet
    <2> QED
      BY <2>1, <2>2, <2>3 DEF Story
  <1>14. ASSUME NEW p \in Procs, CalculateStat(p) PROVE IInv'
    <2>1. TypeOK'
      BY <1>14
         DEF CalculateStat, TypeOK, Places, Privileged, Runs
    <2>2. PrivilegeConfined'
      BY <1>14
         DEF CalculateStat, TypeOK, PrivilegeConfined, Privileged
    <2>3. Story'
      BY <1>14, SessionAssumption
         DEF CalculateStat, TypeOK, Story, PrivilegeConfined, Privileged, Runs,
             ChildAfterFork, NameIsFound, GovernorKnown,
                Restored, WantedKept, CutShort, PointerSet
    <2> QED
      BY <2>1, <2>2, <2>3 DEF Story
  <1>15. ASSUME NEW p \in Procs, RemoveRawdata(p) PROVE IInv'
    <2>1. TypeOK'
      BY <1>15
         DEF RemoveRawdata, TypeOK, Places, Privileged, Runs
    <2>2. PrivilegeConfined'
      BY <1>15
         DEF RemoveRawdata, TypeOK, PrivilegeConfined, Privileged
    <2>3. Story'
      BY <1>15, SessionAssumption
         DEF RemoveRawdata, TypeOK, Story, PrivilegeConfined, Privileged, Runs,
             ChildAfterFork, NameIsFound, GovernorKnown,
                Restored, WantedKept, CutShort, PointerSet
    <2> QED
      BY <2>1, <2>2, <2>3 DEF Story
  <1>16. ASSUME NEW p \in Procs, FinishGovernor(p) PROVE IInv'
    <2>a. cred[p] = [euid |-> run.login.ruid, egid |-> run.login.rgid]
      BY <1>16 DEF FinishGovernor, PrivilegeConfined, Privileged
    <2>b. cred'[p] = IF Root \in {run.login.ruid, run.login.suid}
                      THEN [euid |-> Root, egid |-> Root] ELSE cred[p]
      BY <1>16, <2>a, RestoreGains DEF FinishGovernor, TypeOK
    <2>c. cred' \in [Procs -> [euid : Ids, egid : Ids]]
      BY <1>16, <2>b, IdRecords DEF FinishGovernor, TypeOK
    <2>1. TypeOK'
      BY <1>16, <2>c DEF FinishGovernor, TypeOK, Places, Privileged
    <2>2. PrivilegeConfined'
      BY <1>16, <2>a, <2>b, <2>c
         DEF FinishGovernor, TypeOK, PrivilegeConfined, Privileged
    <2>3. Story'
      BY <1>16, SessionAssumption
         DEF FinishGovernor, TypeOK, Story, PrivilegeConfined, Privileged, Runs,
             ChildAfterFork, NameIsFound, GovernorKnown,
                Restored, WantedKept, CutShort, PointerSet
    <2> QED
      BY <2>1, <2>2, <2>3 DEF Story
  <1>17. ASSUME NEW p \in Procs, WriteGovernor(p) PROVE IInv'
    <2>1. TypeOK'
      BY <1>17
         DEF WriteGovernor, TypeOK, Places, Privileged, Runs
    <2>2. PrivilegeConfined'
      BY <1>17
         DEF WriteGovernor, TypeOK, PrivilegeConfined, Privileged
    <2>3. Story'
      BY <1>17, SessionAssumption
         DEF WriteGovernor, TypeOK, Story, PrivilegeConfined, Privileged, Runs,
             ChildAfterFork, NameIsFound, GovernorKnown,
                Restored, WantedKept, CutShort, PointerSet
    <2> QED
      BY <2>1, <2>2, <2>3 DEF Story
  <1>18. ASSUME NEW p \in Procs, DropGovernor(p) PROVE IInv'
    <2>a. DropRoot(cred[p], run.login)
              = [euid |-> run.login.ruid, egid |-> run.login.rgid]
      BY <1>18, DropIsOwn DEF DropGovernor, TypeOK, DropRoot
    <2>b. run.login \in Logins
      BY DEF TypeOK, Runs
    <2>c. cred' = [cred EXCEPT ![p] = [euid |-> run.login.ruid,
                                        egid |-> run.login.rgid]]
      BY <1>18, <2>a DEF DropGovernor
    <2>1. TypeOK'
      BY <1>18, <2>b, <2>c, IdRecords DEF DropGovernor, TypeOK, Places
    <2>2. PrivilegeConfined'
      BY <1>18, <2>c DEF DropGovernor, TypeOK, PrivilegeConfined, Privileged
    <2>3. Story'
      BY <1>18, SessionAssumption
         DEF DropGovernor, TypeOK, Story, PrivilegeConfined, Privileged, Runs,
             ChildAfterFork, NameIsFound, GovernorKnown,
                Restored, WantedKept, CutShort, PointerSet
    <2> QED
      BY <2>1, <2>2, <2>3 DEF Story
  <1>19. ASSUME NEW p \in Procs, Kill(p) PROVE IInv'
    <2>1. TypeOK'
      BY <1>19
         DEF Kill, TypeOK, Places, Privileged, Runs
    <2>2. PrivilegeConfined'
      BY <1>19
         DEF Kill, TypeOK, PrivilegeConfined, Privileged
    <2>3. Story'
      BY <1>19, SessionAssumption
         DEF Kill, TypeOK, Story, PrivilegeConfined, Privileged, Runs,
             ChildAfterFork, NameIsFound, GovernorKnown,
                Restored, WantedKept, CutShort, PointerSet
    <2> QED
      BY <2>1, <2>2, <2>3 DEF Story
  <1>20. ASSUME UNCHANGED vars PROVE IInv'
    BY <1>20 DEF vars, TypeOK, PrivilegeConfined, ChildAfterFork, NameIsFound, GovernorKnown,
                Restored, WantedKept, CutShort, PointerSet
  <1> QED
    BY <1>1, <1>2, <1>3, <1>4, <1>5, <1>6, <1>7, <1>8, <1>9, <1>10, <1>11, <1>12, <1>13, <1>14, <1>15, <1>16, <1>17, <1>18, <1>19, <1>20
       DEF Next, Program, Prepare, Step

-----------------------------------------------------------------------------
LEMMA Invariance == Spec => []IInv
  BY InitInv, StepInv, PTL DEF Spec

\* Every reachable state of the model is well typed.
THEOREM TypeCorrect == Spec => []TypeOK
  BY Invariance, PTL DEF IInv

\* Whoever reaches the end of main() leaves the governor the run was started
\* under, for any history of the board (governor.c, finish_gpugovernor()).
THEOREM GovernorRestored == Spec => []RestoresWhatItFound
  <1>1. IInv => RestoresWhatItFound
    BY DEF IInv, Restored, RestoresWhatItFound
  <1> QED
    BY <1>1, Invariance, PTL

\* Between runs the board is as the administrator wants it, unless a run with
\* -g was cut short, and then it has "userspace" and nothing else.
THEOREM BoardLeftAsFound == Spec => []LeftAsFound
  <1>1. IInv => LeftAsFound
    <2> SUFFICES ASSUME IInv, Idle
                 PROVE  governor # wanted => spoiled /\ governor = "userspace"
      BY DEF LeftAsFound
    <2>1. CASE pc["parent"] = "none"
      BY <2>1 DEF IInv, WantedKept
    <2>2. CASE pc["parent"] = "done"
      BY <2>2 DEF IInv, Restored, WantedKept
    <2>3. CASE pc["parent"] \in {"exited", "crashed", "killed"}
      BY <2>3 DEF IInv, CutShort, GovernorKnown, WantedKept
    <2> QED
      BY <2>1, <2>2, <2>3
  <1> QED
    BY <1>1, Invariance, PTL

\* A null pointer is followed for an unknown name, or without -g on a board
\* that is in "userspace" already, and never otherwise.
THEOREM CrashesExplained == Spec => []CrashNeedsUserspace
  <1>1. IInv => CrashNeedsUserspace
    BY DEF IInv, PointerSet, WantedKept, CrashNeedsUserspace
  <1> QED
    BY <1>1, Invariance, PTL

\* The effective ids are root's in the restored sections and the user's own
\* everywhere else, the measured command included.
THEOREM PrivilegesConfined == Spec => []PrivilegeConfined
  BY Invariance, PTL DEF IInv

-----------------------------------------------------------------------------
(* Whose samples the statistics are made of.  When the program could be     *)
(* executed, the child never comes to the parent's code, and so nobody      *)
(* takes the file from under the parent.                                    *)

SamplesKept ==
    run.program = "executable" =>
        /\ pc["child"] \in {"none", "asleep", "caffe", "exited", "killed"}
        /\ pc["parent"] \in {"expinfo", "register", "open_sysfs", "fork",
                             "measure", "stat"} => rawdata
        /\ pc["parent"] \in {"remove", "finish_gov", "write_gov", "drop_gov",
                             "done"} => "parent" \in sampled

LEMMA SamplesStep == TypeOK /\ SamplesKept /\ [Next]_vars => SamplesKept'
  <1> SUFFICES ASSUME TypeOK, SamplesKept, [Next]_vars PROVE SamplesKept'
    OBVIOUS
  <1>0. pc \in [Procs -> Places]
    BY DEF TypeOK
  <1>1. ASSUME NEW g \in Governors, AdminSets(g) PROVE SamplesKept'
    BY <1>1 DEF AdminSets, SamplesKept
  <1>2. ASSUME NEW r \in Runs, Start(r) PROVE SamplesKept'
    BY <1>2 DEF Start, SamplesKept
  <1>3. ASSUME NEW p \in Procs, Kill(p) PROVE SamplesKept'
    BY <1>0, <1>3 DEF Kill, SamplesKept
  <1>4. CASE Options
    BY <1>0, <1>4 DEF Options, SamplesKept
  <1>5. CASE InitGovernor
    BY <1>0, <1>5 DEF InitGovernor, SamplesKept
  <1>6. CASE SelectGovernor
    BY <1>0, <1>6 DEF SelectGovernor, SamplesKept
  <1>7. CASE CheckProgram
    BY <1>0, <1>7 DEF CheckProgram, SamplesKept
  <1>8. CASE PrintExpinfo
    BY <1>0, <1>8 DEF PrintExpinfo, SamplesKept
  <1>9. CASE Register
    BY <1>0, <1>9 DEF Register, SamplesKept
  <1>10. CASE OpenSysfs
    BY <1>0, <1>10 DEF OpenSysfs, SamplesKept
  <1>11. CASE Fork
    BY <1>0, <1>11 DEF Fork, SamplesKept
  <1>12. CASE Exec
    BY <1>0, <1>12 DEF Exec, SamplesKept
  <1>13. CASE CaffeExits
    BY <1>0, <1>13 DEF CaffeExits, SamplesKept
  <1>14. ASSUME NEW p \in Procs, Step(p) PROVE SamplesKept'
    <2>1. run' = run
      BY <1>14 DEF Step, LeaveLoop, CalculateStat, RemoveRawdata, FinishGovernor,
                   WriteGovernor, DropGovernor
    <2>2. SUFFICES ASSUME run.program = "executable" PROVE SamplesKept'
      BY <2>1 DEF SamplesKept
    <2>3. p = "parent"
      BY <1>14, <2>2 DEF SamplesKept, Step, LeaveLoop, CalculateStat, RemoveRawdata,
                         FinishGovernor, WriteGovernor, DropGovernor
    <2>4. CASE LeaveLoop(p)
      BY <1>0, <2>3, <2>4 DEF LeaveLoop, SamplesKept
    <2>5. CASE CalculateStat(p)
      BY <1>0, <2>2, <2>3, <2>5 DEF CalculateStat, SamplesKept
    <2>6. CASE RemoveRawdata(p)
      BY <1>0, <2>3, <2>6 DEF RemoveRawdata, SamplesKept
    <2>7. CASE FinishGovernor(p)
      BY <1>0, <2>3, <2>7 DEF FinishGovernor, SamplesKept
    <2>8. CASE WriteGovernor(p)
      BY <1>0, <2>3, <2>8 DEF WriteGovernor, SamplesKept
    <2>9. CASE DropGovernor(p)
      BY <1>0, <2>3, <2>9 DEF DropGovernor, SamplesKept
    <2> QED
      BY <1>14, <2>4, <2>5, <2>6, <2>7, <2>8, <2>9 DEF Step
  <1>15. CASE UNCHANGED vars
    BY <1>15 DEF vars, SamplesKept
  <1> QED
    BY <1>1, <1>2, <1>3, <1>4, <1>5, <1>6, <1>7, <1>8, <1>9, <1>10, <1>11, <1>12,
       <1>13, <1>14, <1>15 DEF Next, Program, Prepare

\* A run whose program could be executed and that comes to its end has made its
\* statistics from its own samples, whichever process was killed and whatever
\* runs came before (power_measurement.c:745-766).
THEOREM StatisticsMadeFromSamples == Spec => []StatisticsFromSamples
  <1>1. Init => SamplesKept
    BY DEF Init, SamplesKept
  <1>2. SamplesKept => StatisticsFromSamples
    BY DEF SamplesKept, StatisticsFromSamples
  <1> QED
    BY <1>1, <1>2, SamplesStep, TypeCorrect, PTL DEF Spec

-----------------------------------------------------------------------------
(* What there is in RunsEnd besides fairness: a run has a bounded number of  *)
(* steps, and as long as it goes on one of its processes is not blocked.     *)

\* How many steps a process may still take, those of the child it may fork
\* included.
ToGo(place) ==
    CASE place = "options" -> 21     [] place = "init" -> 20
      [] place = "select" -> 19      [] place = "program" -> 18
      [] place = "expinfo" -> 17     [] place = "register" -> 16
      [] place = "open_sysfs" -> 15  [] place = "fork" -> 14
      [] place = "asleep" -> 7       [] place = "measure" -> 6
      [] place = "stat" -> 5         [] place = "remove" -> 4
      [] place = "finish_gov" -> 3   [] place = "write_gov" -> 2
      [] place = "drop_gov" -> 1     [] place = "caffe" -> 1
      [] OTHER -> 0

Remaining == ToGo(pc["parent"]) + ToGo(pc["child"])

MovesOn == [][Program \/ (\E p \in Procs : Kill(p)) => Remaining' < Remaining]_vars

\* The places from which a process can take a step at once: all but the parent's
\* loop while the child is there.
Able(p) ==
    IF p = "parent"
    THEN \/ pc[p] \in {"options", "init", "select", "program", "expinfo", "register",
                       "open_sysfs", "fork", "stat", "remove", "finish_gov",
                       "write_gov", "drop_gov"}
         \/ pc[p] = "measure" /\ ~Active("child")
    ELSE pc[p] \in {"asleep", "caffe", "measure", "stat", "remove", "finish_gov",
                    "write_gov", "drop_gov"}

NobodyStuck == ~Idle => \E p \in Procs : Able(p)

\* The parent is nowhere in the child's part.
ParentsPlaces == pc["parent"] \notin {"asleep", "caffe"}

\* An ended process has nothing to do, every other has.
LEMMA ToGoType ==
    ASSUME NEW place \in Places
    PROVE  /\ ToGo(place) \in 0 .. 21
           /\ ToGo(place) = 0 <=> place \in Ended
  BY DEF ToGo, Places, Privileged

\* In the order of the statements the counts fall.
LEMMA Counts ==
    /\ ToGo("options") = 21 /\ ToGo("init") = 20 /\ ToGo("select") = 19
    /\ ToGo("program") = 18 /\ ToGo("expinfo") = 17 /\ ToGo("register") = 16
    /\ ToGo("open_sysfs") = 15 /\ ToGo("fork") = 14 /\ ToGo("asleep") = 7
    /\ ToGo("measure") = 6 /\ ToGo("stat") = 5 /\ ToGo("remove") = 4
    /\ ToGo("finish_gov") = 3 /\ ToGo("write_gov") = 2 /\ ToGo("drop_gov") = 1
    /\ ToGo("caffe") = 1
    /\ \A place \in Ended : ToGo(place) = 0
    /\ {"init", "select", "program", "expinfo", "register", "open_sysfs", "fork",
        "measure", "stat", "remove", "finish_gov", "write_gov", "drop_gov", "caffe",
        "none", "done", "exited", "crashed", "killed"} \subseteq Places
  BY DEF ToGo, Places, Privileged

\* A step takes one process on, unless it is the fork.
LEMMA OneMovesOn ==
    ASSUME pc \in [Procs -> Places], NEW p \in Procs, NEW q \in Places,
           pc' = [pc EXCEPT ![p] = q], ToGo(q) < ToGo(pc[p])
    PROVE  Remaining' < Remaining
  <1> DEFINE parent == ToGo(pc["parent"])
             child == ToGo(pc["child"])
  <1>1. parent \in Nat /\ child \in Nat /\ ToGo(q) \in Nat
    BY ToGoType
  <1>2. Remaining = parent + child
    BY DEF Remaining
  <1>3. CASE p = "parent"
    <2>1. Remaining' = ToGo(q) + child
      BY <1>3 DEF Remaining
    <2>2. ToGo(q) < parent
      BY <1>3
    <2> HIDE DEF parent, child
    <2> QED BY <1>1, <1>2, <2>1, <2>2
  <1>4. CASE p = "child"
    <2>1. Remaining' = parent + ToGo(q)
      BY <1>4 DEF Remaining
    <2>2. ToGo(q) < child
      BY <1>4
    <2> HIDE DEF parent, child
    <2> QED BY <1>1, <1>2, <2>1, <2>2
  <1> QED BY <1>3, <1>4

LEMMA StepMovesOn ==
    ASSUME TypeOK, Program \/ \E p \in Procs : Kill(p)
    PROVE  Remaining' < Remaining
  <1>0. pc \in [Procs -> Places]
    BY DEF TypeOK
  <1>1. CASE \E p \in Procs : Kill(p)
    <2>1. PICK p \in Procs : Kill(p)
      BY <1>1
    <2>2. pc[p] \in Places /\ pc[p] \notin Ended /\ pc' = [pc EXCEPT ![p] = "killed"]
      BY <1>0, <2>1 DEF Kill
    <2>3. "killed" \in Places /\ "killed" \in Ended
      BY DEF Places
    <2>4. ToGo("killed") = 0 /\ ToGo(pc[p]) # 0 /\ ToGo(pc[p]) \in 0 .. 21
      BY <2>2, <2>3, ToGoType
    <2>5. ToGo("killed") < ToGo(pc[p])
      BY <2>4
    <2> QED BY <1>0, <2>2, <2>3, <2>5, OneMovesOn
  <1>2. CASE Prepare
    <2>1. CASE Options
      <3>1. pc["parent"] = "options" /\ \E q \in {"exited", "program", "init"} : pc' = [pc EXCEPT !["parent"] = q]
        BY <2>1 DEF Options
      <3>2. PICK q \in {"exited", "program", "init"} : pc' = [pc EXCEPT !["parent"] = q]
        BY <3>1
      <3>3. q \in Places /\ ToGo(q) < ToGo("options")
        BY Counts
      <3> QED BY <1>0, <3>1, <3>2, <3>3, OneMovesOn
    <2>2. CASE InitGovernor
      <3>1. pc["parent"] = "init" /\ pc' = [pc EXCEPT !["parent"] = "select"]
        BY <2>2 DEF InitGovernor
      <3>2. "select" \in Places /\ ToGo("select") < ToGo("init")
        BY Counts
      <3> QED BY <1>0, <3>1, <3>2, OneMovesOn
    <2>3. CASE SelectGovernor
      <3>1. pc["parent"] = "select" /\ \E q \in {"program", "crashed"} : pc' = [pc EXCEPT !["parent"] = q]
        BY <2>3 DEF SelectGovernor
      <3>2. PICK q \in {"program", "crashed"} : pc' = [pc EXCEPT !["parent"] = q]
        BY <3>1
      <3>3. q \in Places /\ ToGo(q) < ToGo("select")
        BY Counts
      <3> QED BY <1>0, <3>1, <3>2, <3>3, OneMovesOn
    <2>4. CASE CheckProgram
      <3>1. pc["parent"] = "program" /\ \E q \in {"exited", "expinfo"} : pc' = [pc EXCEPT !["parent"] = q]
        BY <2>4 DEF CheckProgram
      <3>2. PICK q \in {"exited", "expinfo"} : pc' = [pc EXCEPT !["parent"] = q]
        BY <3>1
      <3>3. q \in Places /\ ToGo(q) < ToGo("program")
        BY Counts
      <3> QED BY <1>0, <3>1, <3>2, <3>3, OneMovesOn
    <2>5. CASE PrintExpinfo
      <3>1. pc["parent"] = "expinfo" /\ \E q \in {"crashed", "register"} : pc' = [pc EXCEPT !["parent"] = q]
        BY <2>5 DEF PrintExpinfo
      <3>2. PICK q \in {"crashed", "register"} : pc' = [pc EXCEPT !["parent"] = q]
        BY <3>1
      <3>3. q \in Places /\ ToGo(q) < ToGo("expinfo")
        BY Counts
      <3> QED BY <1>0, <3>1, <3>2, <3>3, OneMovesOn
    <2>6. CASE Register
      <3>1. pc["parent"] = "register" /\ pc' = [pc EXCEPT !["parent"] = "open_sysfs"]
        BY <2>6 DEF Register
      <3>2. "open_sysfs" \in Places /\ ToGo("open_sysfs") < ToGo("register")
        BY Counts
      <3> QED BY <1>0, <3>1, <3>2, OneMovesOn
    <2>7. CASE OpenSysfs
      <3>1. pc["parent"] = "open_sysfs" /\ pc' = [pc EXCEPT !["parent"] = "fork"]
        BY <2>7 DEF OpenSysfs
      <3>2. "fork" \in Places /\ ToGo("fork") < ToGo("open_sysfs")
        BY Counts
      <3> QED BY <1>0, <3>1, <3>2, OneMovesOn
    <2> QED BY <1>2, <2>1, <2>2, <2>3, <2>4, <2>5, <2>6, <2>7 DEF Prepare
  <1>3. CASE Fork
    <2>1. PICK c \in {"asleep", "none"} :
             pc' = [pc EXCEPT !["parent"] = "measure", !["child"] = c]
      BY <1>3 DEF Fork
    <2>2. pc'["parent"] = "measure" /\ pc'["child"] = c
      BY <1>0, <2>1
    <2>3. ToGo("measure") = 6 /\ ToGo(c) \in 0 .. 7 /\ ToGo("fork") = 14
      BY <2>1 DEF ToGo
    <2>4. Remaining' = ToGo("measure") + ToGo(c)
      BY <2>2 DEF Remaining
    <2>5. Remaining = ToGo("fork") + ToGo(pc["child"]) /\ ToGo(pc["child"]) \in 0 .. 21
      BY <1>0, <1>3, ToGoType DEF Fork, Remaining
    <2> QED BY <2>3, <2>4, <2>5
  <1>4. CASE Exec \/ CaffeExits
    <2>1. CASE Exec
      <3>1. pc["child"] = "asleep" /\ \E q \in {"caffe", "measure"} : pc' = [pc EXCEPT !["child"] = q]
        BY <2>1 DEF Exec
      <3>2. PICK q \in {"caffe", "measure"} : pc' = [pc EXCEPT !["child"] = q]
        BY <3>1
      <3>3. q \in Places /\ ToGo(q) < ToGo("asleep")
        BY Counts
      <3> QED BY <1>0, <3>1, <3>2, <3>3, OneMovesOn
    <2>2. CASE CaffeExits
      <3>1. pc["child"] = "caffe" /\ pc' = [pc EXCEPT !["child"] = "exited"]
        BY <2>2 DEF CaffeExits
      <3>2. "exited" \in Places /\ ToGo("exited") < ToGo("caffe")
        BY Counts
      <3> QED BY <1>0, <3>1, <3>2, OneMovesOn
    <2> QED BY <1>4, <2>1, <2>2
  <1>5. CASE \E p \in Procs : Step(p)
    <2>0. PICK p \in Procs : Step(p)
      BY <1>5
    <2>1. CASE LeaveLoop(p)
      <3>1. pc[p] = "measure" /\ pc' = [pc EXCEPT ![p] = "stat"]
        BY <2>1 DEF LeaveLoop
      <3>2. "stat" \in Places /\ ToGo("stat") < ToGo("measure")
        BY Counts
      <3> QED BY <1>0, <3>1, <3>2, OneMovesOn
    <2>2. CASE CalculateStat(p)
      <3>1. pc[p] = "stat" /\ pc' = [pc EXCEPT ![p] = "remove"]
        BY <2>2 DEF CalculateStat
      <3>2. "remove" \in Places /\ ToGo("remove") < ToGo("stat")
        BY Counts
      <3> QED BY <1>0, <3>1, <3>2, OneMovesOn
    <2>3. CASE RemoveRawdata(p)
      <3>1. pc[p] = "remove" /\ \E q \in {"done", "finish_gov"} : pc' = [pc EXCEPT ![p] = q]
        BY <2>3 DEF RemoveRawdata
      <3>2. PICK q \in {"done", "finish_gov"} : pc' = [pc EXCEPT ![p] = q]
        BY <3>1
      <3>3. q \in Places /\ ToGo(q) < ToGo("remove")
        BY Counts
      <3> QED BY <1>0, <3>1, <3>2, <3>3, OneMovesOn
    <2>4. CASE FinishGovernor(p)
      <3>1. pc[p] = "finish_gov" /\ pc' = [pc EXCEPT ![p] = "write_gov"]
        BY <2>4 DEF FinishGovernor
      <3>2. "write_gov" \in Places /\ ToGo("write_gov") < ToGo("finish_gov")
        BY Counts
      <3> QED BY <1>0, <3>1, <3>2, OneMovesOn
    <2>5. CASE WriteGovernor(p)
      <3>1. pc[p] = "write_gov" /\ pc' = [pc EXCEPT ![p] = "drop_gov"]
        BY <2>5 DEF WriteGovernor
      <3>2. "drop_gov" \in Places /\ ToGo("drop_gov") < ToGo("write_gov")
        BY Counts
      <3> QED BY <1>0, <3>1, <3>2, OneMovesOn
    <2>6. CASE DropGovernor(p)
      <3>1. pc[p] = "drop_gov" /\ pc' = [pc EXCEPT ![p] = "done"]
        BY <2>6 DEF DropGovernor
      <3>2. "done" \in Places /\ ToGo("done") < ToGo("drop_gov")
        BY Counts
      <3> QED BY <1>0, <3>1, <3>2, OneMovesOn
    <2> QED BY <2>0, <2>1, <2>2, <2>3, <2>4, <2>5, <2>6 DEF Step
  <1> QED BY <1>1, <1>2, <1>3, <1>4, <1>5 DEF Program

\* The administrator and the next run come when no step is left.
LEMMA RemainingType ==
    ASSUME TypeOK
    PROVE  Remaining \in Nat /\ (Remaining = 0 <=> Idle)
  <1>1. pc["parent"] \in Places /\ pc["child"] \in Places
    BY DEF TypeOK
  <1>2. /\ ToGo(pc["parent"]) \in Nat /\ ToGo(pc["child"]) \in Nat
        /\ ToGo(pc["parent"]) = 0 <=> pc["parent"] \in Ended
        /\ ToGo(pc["child"]) = 0 <=> pc["child"] \in Ended
    BY <1>1, ToGoType
  <1> DEFINE parent == ToGo(pc["parent"])
             child == ToGo(pc["child"])
  <1>3. parent + child = 0 <=> parent = 0 /\ child = 0
    <2> HIDE DEF parent, child
    <2>1. parent \in Nat /\ child \in Nat
      BY <1>2 DEF parent, child
    <2> QED BY <2>1
  <1> QED BY <1>2, <1>3 DEF Remaining

LEMMA RemainingStep ==
    ASSUME TypeOK, TypeOK', Remaining <= 21, [Next]_vars
    PROVE  Remaining' <= 21
  <1>0. Remaining \in Nat /\ Remaining' \in Nat
    <2>1. Remaining \in Nat
      BY RemainingType
    <2>2. pc'["parent"] \in Places /\ pc'["child"] \in Places
      BY DEF TypeOK
    <2>3. ToGo(pc'["parent"]) \in Nat /\ ToGo(pc'["child"]) \in Nat
      BY <2>2, ToGoType
    <2> QED BY <2>1, <2>3 DEF Remaining
  <1>1. CASE Program \/ \E p \in Procs : Kill(p)
    <2>1. Remaining' < Remaining
      BY <1>1, StepMovesOn
    <2> QED BY <1>0, <2>1
  <1>2. CASE \E g \in Governors : AdminSets(g)
    <2>1. pc'["parent"] = "none" /\ pc'["child"] = "none"
      BY <1>2 DEF AdminSets
    <2> QED BY <2>1, Counts DEF Remaining
  <1>3. CASE \E r \in Runs : Start(r)
    <2>1. pc'["parent"] = "options" /\ pc'["child"] = "none"
      BY <1>3 DEF Start
    <2> QED BY <2>1, Counts DEF Remaining
  <1>4. CASE UNCHANGED vars
    BY <1>4 DEF vars, Remaining
  <1> QED BY <1>1, <1>2, <1>3, <1>4 DEF Next

\* Whatever the run is asked to do, whatever fails in it and whoever is killed,
\* each of its steps brings its end closer, and there are no more than 21, the
\* child's included (power_measurement.c:724-767).
THEOREM RunsMoveOn ==
    Spec => [](Remaining \in 0 .. 21 /\ (Remaining = 0 <=> Idle)) /\ MovesOn
  <1>1. Init => Remaining <= 21
    <2> SUFFICES ASSUME Init PROVE Remaining <= 21
      OBVIOUS
    <2>1. pc["parent"] = "none" /\ pc["child"] = "none"
      BY DEF Init
    <2> QED BY <2>1, Counts DEF Remaining
  <1>2. TypeOK /\ TypeOK' /\ Remaining <= 21 /\ [Next]_vars => (Remaining <= 21)'
    BY RemainingStep
  <1>3. TypeOK /\ Remaining <= 21 => Remaining \in 0 .. 21 /\ (Remaining = 0 <=> Idle)
    BY RemainingType
  <1>4. TypeOK /\ [Next]_vars =>
          (Program \/ (\E p \in Procs : Kill(p)) => Remaining' < Remaining)
    BY StepMovesOn
  <1> QED BY <1>1, <1>2, <1>3, <1>4, TypeCorrect, PTL DEF Spec, MovesOn

LEMMA ParentsStep == TypeOK /\ ParentsPlaces /\ [Next]_vars => ParentsPlaces'
  <1> SUFFICES ASSUME TypeOK, ParentsPlaces, [Next]_vars PROVE ParentsPlaces'
    OBVIOUS
  <1>0. pc \in [Procs -> Places]
    BY DEF TypeOK
  <1>1. CASE Prepare
    BY <1>0, <1>1 DEF Prepare, Options, InitGovernor, SelectGovernor, CheckProgram,
       PrintExpinfo, Register, OpenSysfs, ParentsPlaces
  <1>2. CASE Fork \/ Exec \/ CaffeExits
    BY <1>0, <1>2 DEF Fork, Exec, CaffeExits, ParentsPlaces
  <1>3. CASE \E p \in Procs : Step(p)
    BY <1>0, <1>3 DEF Step, LeaveLoop, CalculateStat, RemoveRawdata, FinishGovernor,
       WriteGovernor, DropGovernor, ParentsPlaces
  <1>4. CASE (\E p \in Procs : Kill(p)) \/ (\E g \in Governors : AdminSets(g))
             \/ (\E r \in Runs : Start(r))
    BY <1>0, <1>4 DEF Kill, AdminSets, Start, ParentsPlaces
  <1>5. CASE UNCHANGED vars
    BY <1>5 DEF vars, ParentsPlaces
  <1> QED BY <1>1, <1>2, <1>3, <1>4, <1>5 DEF Next, Program

\* As long as a run goes on, one of its processes stands where it can go
\* on at once: the parent alone waits, in its loop, for a child that does not
\* wait for it (rawdata.c:432-444, power_measurement.c:744-766).
THEOREM NobodyEverStuck == Spec => []NobodyStuck
  <1>1. Init => ParentsPlaces
    BY DEF Init, ParentsPlaces
  <1>2. TypeOK /\ ParentsPlaces => NobodyStuck
    <2> SUFFICES ASSUME TypeOK, ParentsPlaces, ~Idle PROVE \E p \in Procs : Able(p)
      BY DEF NobodyStuck
    <2>1. CASE Active("child")
      <3>1. Able("child")
        BY <2>1 DEF TypeOK, Places, Privileged, Able
      <3> QED BY <3>1
    <2>2. CASE ~Active("child")
      <3>1. Able("parent")
        BY <2>2 DEF TypeOK, ParentsPlaces, Places, Privileged, Able
      <3> QED BY <3>1
    <2> QED BY <2>1, <2>2
  <1> QED BY <1>1, <1>2, ParentsStep, TypeCorrect, PTL DEF Spec
=============================================================================
