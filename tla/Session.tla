-------------------------------- MODULE Session --------------------------------
(***************************************************************************)
(* Successive runs of power_measurement on one board: what a run does to   *)
(* the board's GPU governor, to its own privileges and to the rawdata      *)
(* file, from main()'s first statement to its last, when everything goes   *)
(* well and when it does not: a wrong command line, a program that cannot  *)
(* be executed, a failing fork(), a signal.                                *)
(*                                                                         *)
(* A run has a Parent and, after fork(), a Child.  The child sleeps and    *)
(* calls execvp(); when that fails, the child goes on with the statements  *)
(* after the `if', which are the parent's, on the parent's files.          *)
(*                                                                         *)
(* Runs follow one another: a board is measured by one run at a time, and  *)
(* the administrator changes the governor between runs only.               *)
(***************************************************************************)
EXTENDS Naturals

CONSTANTS
    Governors,   \* names the sysfs file `governor' accepts
    Logins,      \* the ids a run may be started with
    Root,        \* ROOT_UID and ROOT_GID
    NoName,      \* orig_gpugov_name before anything was read into it
    MaxRuns      \* bound: runs

Procs == {"parent", "child"}

ASSUME SessionAssumption ==
    /\ "userspace" \in Governors
    /\ NoName \notin Governors
    /\ MaxRuns \in Nat
    /\ \A l \in Logins : DOMAIN l = {"ruid", "rgid", "suid", "sgid"}

VARIABLES
    governor,      \* the board: content of the sysfs file `governor'
    run,           \* what this run was asked to do
    pc,            \* where each process is
    cred,          \* effective user and group id of each process
    orig_gpugov_name,
    curr_gpugov,   \* whether the pointer is set
    rawdata,       \* whether the rawdata file exists
    sampled,       \* processes that found it when they wrote statistics
    runs,          \* use of the bound
    wanted,        \* history: the governor the administrator set last
    found,         \* history: the governor this run was started under
    spoiled        \* history: since then a run with -g was cut short

fileVars == <<governor, rawdata, sampled>>
govVars == <<orig_gpugov_name, curr_gpugov>>
historyVars == <<runs, wanted, found, spoiled>>
vars == <<fileVars, run, pc, cred, govVars, historyVars>>

Runs == [login : Logins,
         usage : {"program", "help", "no_program"},
         gpugov : {"none", "known", "unknown"},
         program : {"executable", "broken"}]

Ended == {"none", "done", "exited", "crashed", "killed"}
Active(p) == pc[p] \notin Ended
Idle == \A p \in Procs : ~Active(p)

Goto(p, where) == pc' = [pc EXCEPT ![p] = where]

-----------------------------------------------------------------------------
(* Privileges: what seteuid() and setegid() allow, and the two helpers. *)

MaySetEuid(c, id) ==
    c.euid = Root \/ id \in {run.login.ruid, run.login.suid}
MaySetEgid(c, id) ==
    c.euid = Root \/ id \in {run.login.rgid, run.login.sgid}

\* Mutant: the group first, as in drop_root_privilege_temp().
RestoreGroupFirst(c) ==
    LET group == [c EXCEPT !.egid = Root]
    IN  IF ~MaySetEgid(c, Root) THEN c
        ELSE IF ~MaySetEuid(group, Root) THEN group
        ELSE [group EXCEPT !.euid = Root]

\* restore_root_privilege() gives up at the first call that fails.
RestoreRoot(c) ==
    LET user == [c EXCEPT !.euid = Root]
    IN  IF ~MaySetEuid(c, Root) THEN c
        ELSE IF ~MaySetEgid(user, Root) THEN user
        ELSE [user EXCEPT !.egid = Root]

\* drop_root_privilege_temp(): a process may always take its real ids.
DropRoot(c, login) == [c EXCEPT !.egid = login.rgid, !.euid = login.ruid]

-----------------------------------------------------------------------------
(* The board between runs. *)

Init ==
    /\ governor \in Governors
    /\ run \in Runs
    /\ pc = [p \in Procs |-> "none"]
    /\ cred = [p \in Procs |-> [euid |-> Root, egid |-> Root]]
    /\ orig_gpugov_name = NoName
    /\ curr_gpugov = FALSE
    /\ rawdata = FALSE
    /\ sampled = {}
    /\ runs = 0
    /\ wanted = governor
    /\ found = governor
    /\ spoiled = FALSE

AdminSets(g) ==
    /\ Idle
    /\ governor # g
    /\ governor' = g
    /\ wanted' = g
    /\ spoiled' = FALSE
    /\ pc' = [p \in Procs |-> "none"]
    /\ UNCHANGED <<rawdata, sampled, run, cred, govVars, runs, found>>

\* A new process: its globals are fresh, and it first drops its privileges.
Start(r) ==
    /\ Idle
    /\ runs < MaxRuns
    /\ runs' = runs + 1
    /\ run' = r
    /\ pc' = [p \in Procs |-> IF p = "parent" THEN "options" ELSE "none"]
    /\ cred' = [p \in Procs |->
                  DropRoot([euid |-> r.login.suid, egid |-> r.login.sgid],
                           r.login)]
    /\ orig_gpugov_name' = NoName
    /\ curr_gpugov' = FALSE
    /\ sampled' = {}
    /\ found' = governor
    /\ UNCHANGED <<governor, rawdata, wanted, spoiled>>

-----------------------------------------------------------------------------
(* prepare_measurement() *)

\* -h leaves at once.  A missing argument does not: AVAILABLE_OPTIONS has no
\* leading colon, so getopt() never answers ':' and the loop goes on.
Options ==
    /\ pc["parent"] = "options"
    /\ Goto("parent", IF run.usage = "help" THEN "exited"
                      ELSE IF run.gpugov = "none" THEN "program" ELSE "init")
    /\ UNCHANGED <<fileVars, run, cred, govVars, historyVars>>

\* Mutant: the old name is read back after the new one is written.
InitGovernorWritesFirst ==
    /\ pc["parent"] = "init"
    /\ IF cred["parent"].euid = Root
       THEN /\ governor' = "userspace"
            /\ orig_gpugov_name' = governor'
       ELSE UNCHANGED <<orig_gpugov_name, governor>>
    /\ Goto("parent", "select")
    /\ UNCHANGED <<rawdata, sampled, run, cred, curr_gpugov, historyVars>>

\* The file is opened for writing, so nothing happens without root's euid.
InitGovernor ==
    /\ pc["parent"] = "init"
    /\ IF cred["parent"].euid = Root
       THEN /\ orig_gpugov_name' = governor
            /\ governor' = "userspace"
       ELSE UNCHANGED <<orig_gpugov_name, governor>>
    /\ Goto("parent", "select")
    /\ UNCHANGED <<rawdata, sampled, run, cred, curr_gpugov, historyVars>>

\* An unknown name is only reported; curr_gpugov->init is then called on NULL.
SelectGovernor ==
    /\ pc["parent"] = "select"
    /\ curr_gpugov' = (run.gpugov = "known")
    /\ spoiled' = (spoiled \/ run.gpugov = "unknown")
    /\ Goto("parent", IF run.gpugov = "known" THEN "program" ELSE "crashed")
    /\ UNCHANGED <<fileVars, run, cred, orig_gpugov_name, runs, wanted, found>>

\* Without a program the run exits, the governor as it is.
CheckProgram ==
    /\ pc["parent"] = "program"
    /\ IF run.usage = "no_program"
       THEN /\ spoiled' = (spoiled \/ run.gpugov # "none")
            /\ Goto("parent", "exited")
            /\ UNCHANGED rawdata
       ELSE /\ rawdata' = TRUE
            /\ Goto("parent", "expinfo")
            /\ UNCHANGED spoiled
    /\ UNCHANGED <<governor, sampled, run, cred, govVars, runs, wanted, found>>

\* Mutant: the governor is described whatever the board says.
PrintAnyExpinfo ==
    /\ pc["parent"] = "expinfo"
    /\ Goto("parent", IF ~curr_gpugov THEN "crashed" ELSE "register")
    /\ UNCHANGED <<fileVars, run, cred, govVars, historyVars>>

\* print_expinfo() asks the board, not the command line, whether there is a
\* userspace governor to describe.
PrintExpinfo ==
    /\ pc["parent"] = "expinfo"
    /\ Goto("parent", IF governor = "userspace" /\ ~curr_gpugov
                      THEN "crashed" ELSE "register")
    /\ UNCHANGED <<fileVars, run, cred, govVars, historyVars>>

\* register_rawdata(), once for all its calls: restore, open, drop.
Register ==
    /\ pc["parent"] = "register"
    /\ cred' = [cred EXCEPT !["parent"] = RestoreRoot(@)]
    /\ Goto("parent", "open_sysfs")
    /\ UNCHANGED <<fileVars, run, govVars, historyVars>>

OpenSysfs ==
    /\ pc["parent"] = "open_sysfs"
    /\ cred' = [cred EXCEPT !["parent"] = DropRoot(@, run.login)]
    /\ Goto("parent", "fork")
    /\ UNCHANGED <<fileVars, run, govVars, historyVars>>

-----------------------------------------------------------------------------
(* main() after prepare_measurement(). *)

Fork ==
    /\ pc["parent"] = "fork"
    /\ \E c \in {"asleep", "none"} :
          pc' = [pc EXCEPT !["parent"] = "measure", !["child"] = c]
    /\ cred' = [cred EXCEPT !["child"] = cred["parent"]]
    /\ UNCHANGED <<fileVars, run, govVars, historyVars>>

\* execvp() returns only if it fails; the child then runs the parent's code.
Exec ==
    /\ pc["child"] = "asleep"
    /\ Goto("child", IF run.program = "executable" THEN "caffe" ELSE "measure")
    /\ UNCHANGED <<fileVars, run, cred, govVars, historyVars>>

CaffeExits ==
    /\ pc["child"] = "caffe"
    /\ Goto("child", "exited")
    /\ UNCHANGED <<fileVars, run, cred, govVars, historyVars>>

\* Mutant: the error -1 of waitpid() does not count as an exit.
LeaveLoopAfterExit(p) ==
    /\ pc[p] = "measure"
    /\ p = "parent" /\ ~Active("child") /\ pc["child"] # "none"
    /\ Goto(p, "stat")
    /\ UNCHANGED <<fileVars, run, cred, govVars, historyVars>>

\* Mutant: finish_measurement() before calculate_2ndstat().
LeaveLoopRemoves(p) ==
    /\ pc[p] = "measure"
    /\ p = "parent" => ~Active("child")
    /\ rawdata' = FALSE
    /\ Goto(p, "stat")
    /\ UNCHANGED <<governor, sampled, run, cred, govVars, historyVars>>

\* measure_rawdata() stays until waitpid() stops answering 0: for the parent
\* until its child is gone or if it has none, for the child at once.
LeaveLoop(p) ==
    /\ pc[p] = "measure"
    /\ p = "parent" => ~Active("child")
    /\ Goto(p, "stat")
    /\ UNCHANGED <<fileVars, run, cred, govVars, historyVars>>

\* calculate_2ndstat(): without the file there are no rows to read.
CalculateStat(p) ==
    /\ pc[p] = "stat"
    /\ sampled' = IF rawdata THEN sampled \cup {p} ELSE sampled
    /\ Goto(p, "remove")
    /\ UNCHANGED <<governor, rawdata, run, cred, govVars, historyVars>>

\* Mutant: finish_gpugovernor() is forgotten.
RemoveRawdataOnly(p) ==
    /\ pc[p] = "remove"
    /\ rawdata' = FALSE
    /\ Goto(p, "done")
    /\ UNCHANGED <<governor, sampled, run, cred, govVars, historyVars>>

\* finish_measurement(): the rawdata file, then the governor if -g was given.
RemoveRawdata(p) ==
    /\ pc[p] = "remove"
    /\ rawdata' = FALSE
    /\ Goto(p, IF run.gpugov = "none" THEN "done" ELSE "finish_gov")
    /\ UNCHANGED <<governor, sampled, run, cred, govVars, historyVars>>

\* finish_gpugovernor(): restore the privileges, write the name, drop them.
FinishGovernor(p) ==
    /\ pc[p] = "finish_gov"
    /\ cred' = [cred EXCEPT ![p] = RestoreRoot(@)]
    /\ Goto(p, "write_gov")
    /\ UNCHANGED <<fileVars, run, govVars, historyVars>>

\* Mutant: an empty name is taken for a name.
WriteGovernorUnread(p) ==
    /\ pc[p] = "write_gov"
    /\ governor' = IF cred[p].euid = Root THEN orig_gpugov_name ELSE governor
    /\ Goto(p, "drop_gov")
    /\ UNCHANGED <<rawdata, sampled, run, cred, govVars, historyVars>>

\* An empty name is written too, and a sysfs file ignores it.
WriteGovernor(p) ==
    /\ pc[p] = "write_gov"
    /\ governor' = IF cred[p].euid = Root /\ orig_gpugov_name # NoName
                   THEN orig_gpugov_name ELSE governor
    /\ Goto(p, "drop_gov")
    /\ UNCHANGED <<rawdata, sampled, run, cred, govVars, historyVars>>

DropGovernor(p) ==
    /\ pc[p] = "drop_gov"
    /\ cred' = [cred EXCEPT ![p] = DropRoot(@, run.login)]
    /\ Goto(p, "done")
    /\ UNCHANGED <<fileVars, run, govVars, historyVars>>

\* No signal is handled.
Kill(p) ==
    /\ Active(p)
    /\ Goto(p, "killed")
    /\ spoiled' = (spoiled \/ (p = "parent" /\ run.gpugov # "none"))
    /\ UNCHANGED <<fileVars, run, cred, govVars, runs, wanted, found>>

-----------------------------------------------------------------------------
Prepare ==
    \/ Options \/ InitGovernor \/ SelectGovernor \/ CheckProgram
    \/ PrintExpinfo \/ Register \/ OpenSysfs

Step(p) ==
    \/ LeaveLoop(p) \/ CalculateStat(p) \/ RemoveRawdata(p)
    \/ FinishGovernor(p) \/ WriteGovernor(p) \/ DropGovernor(p)

\* What the processes of a run do by themselves.
Program == Prepare \/ Fork \/ Exec \/ CaffeExits \/ \E p \in Procs : Step(p)

Next ==
    \/ Program
    \/ \E p \in Procs : Kill(p)
    \/ \E g \in Governors : AdminSets(g)
    \/ \E r \in Runs : Start(r)

Spec == Init /\ [][Next]_vars

\* The kernel schedules every process that is not blocked, and the measured
\* command is one that ends.
Fairness ==
    /\ WF_vars(Prepare) /\ WF_vars(Fork) /\ WF_vars(Exec) /\ WF_vars(CaffeExits)
    /\ \A p \in Procs : WF_vars(Step(p))

FairSpec == Spec /\ Fairness

-----------------------------------------------------------------------------
(* Properties. *)

Privileged == {"open_sysfs", "write_gov", "drop_gov"}

Places ==
    Ended \cup Privileged \cup
    {"options", "init", "select", "program", "expinfo", "register", "fork",
     "asleep", "caffe", "measure", "stat", "remove", "finish_gov"}

Ids == {Root} \cup UNION {{l.ruid, l.rgid} : l \in Logins}

\* Every variable has its type, and the child is nowhere in the preparation.
TypeOK ==
    /\ governor \in Governors /\ wanted \in Governors /\ found \in Governors
    /\ run \in Runs
    /\ pc \in [Procs -> Places]
    /\ pc["child"] \notin {"options", "init", "select", "program", "expinfo",
                           "register", "open_sysfs", "fork", "crashed"}
    /\ cred \in [Procs -> [euid : Ids, egid : Ids]]
    /\ orig_gpugov_name \in Governors \cup {NoName}
    /\ curr_gpugov \in BOOLEAN /\ rawdata \in BOOLEAN /\ spoiled \in BOOLEAN
    /\ sampled \subseteq Procs
    /\ runs \in 0 .. MaxRuns

\* A process that gets to the end of main() leaves the board with the governor
\* it was started under, whoever ran before it and however that ended, and
\* also when parent and child both do the restoring.
RestoresWhatItFound ==
    \A p \in Procs : pc[p] = "done" => governor = found

\* What runs can do to the board between two visits of the administrator: it
\* has the governor she chose, or some run with -g was cut short (a signal, an
\* unknown governor, no program) and it is stuck with "userspace".
LeftAsFound ==
    Idle => \/ governor = wanted
            \/ (spoiled /\ governor = "userspace")

\* A run that names no unknown governor crashes in preparation only without -g
\* and on a board left in "userspace", by the administrator or by an earlier
\* run that was cut short: print_expinfo() then follows a null pointer.
CrashNeedsUserspace ==
    pc["parent"] = "crashed" /\ run.gpugov # "unknown" =>
        /\ run.gpugov = "none"
        /\ found = "userspace"
        /\ spoiled \/ wanted = "userspace"

\* Root's ids are effective exactly between restore_root_privilege() and
\* drop_root_privilege_temp(), if the run can have them at all; the command
\* that is measured never runs with more than the user's own.
PrivilegeConfined ==
    \A p \in Procs : Active(p) =>
        cred[p] = IF pc[p] \in Privileged
                     /\ Root \in {run.login.ruid, run.login.suid}
                  THEN [euid |-> Root, egid |-> Root]
                  ELSE [euid |-> run.login.ruid, egid |-> run.login.rgid]

\* When the measured program could be executed, a run that ends has made its
\* statistics from the samples it took.
StatisticsFromSamples ==
    pc["parent"] = "done" /\ run.program = "executable" => "parent" \in sampled

\* Documentation/program_controlflow.txt: "When all writes to 'ooo_stats.txt'
\* is done, then remove 'rawdata.bin'".  A child whose execvp() failed removes
\* the file while the parent is still measuring.
RemovedAfterStatistics ==
    (\E p \in Procs : pc[p] \in {"measure", "stat"}) => rawdata

\* Every run comes to an end, and so does a child that outlives its parent.
RunsEnd == \A p \in Procs : Active(p) ~> ~Active(p)
=============================================================================
