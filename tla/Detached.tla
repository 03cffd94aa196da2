------------------------------ MODULE Detached ------------------------------
(***************************************************************************)
(* The detached launcher of the release tools                              *)
(* (tools/release/run_detached.py) and the caller that polls it to a       *)
(* verdict (run_exitcode_detached in tools/release/certify_release.py).    *)
(*                                                                         *)
(* A job runs in a session of its own and outlives its caller; the only    *)
(* thing the two share is the status file and the log, whose paths a later *)
(* launch uses again.  A poll is two reads: the status file first, the     *)
(* process table second.  A caller that runs out of budget leaves its job  *)
(* running.                                                                *)
(***************************************************************************)
EXTENDS Naturals

CONSTANT RdMaxJobs      \* bound: launches on one status path

ASSUME RdAssumption == RdMaxJobs \in Nat

VARIABLES
    rdJobs,     \* job -> its process: absent, running, ended (command over, status not written), gone
    rdRc,       \* job -> the exit code of its command
    rdStatus,   \* the status sidecar: "none" or an exit code
    rdMarked,   \* whether the log, opened for append, holds the expected marker
    rdPc,       \* the caller: idle, poll (about to read the status), pid (about to look for the process)
    rdAt,       \* the latest job, the one being polled
    rdVerdict,  \* what the caller recorded for it
    rdAlone,    \* whether no earlier job of this path was still alive at the launch
    rdFresh     \* whether the launch found or left the path without a status

rdVars == <<rdJobs, rdRc, rdStatus, rdMarked, rdPc, rdAt, rdVerdict, rdAlone, rdFresh>>

RdIds == 1..RdMaxJobs
RdLive == {"running", "ended"}

RdTypeOK ==
    /\ rdJobs \in [RdIds -> {"absent", "running", "ended", "gone"}]
    /\ rdRc \in [RdIds -> {"none", "zero", "nonzero"}]
    /\ rdStatus \in {"none", "zero", "nonzero"}
    /\ rdMarked \in BOOLEAN /\ rdAlone \in BOOLEAN /\ rdFresh \in BOOLEAN
    /\ rdPc \in {"idle", "poll", "pid"}
    /\ rdAt \in 0..RdMaxJobs
    /\ rdVerdict \in {"none", "PASS", "HOLD", "FAIL"}

RdInit ==
    /\ rdJobs = [j \in RdIds |-> "absent"] /\ rdRc = [j \in RdIds |-> "none"]
    /\ rdStatus = "none" /\ rdMarked = FALSE
    /\ rdPc = "idle" /\ rdAt = 0 /\ rdVerdict = "none"
    /\ rdAlone = TRUE /\ rdFresh = TRUE

-----------------------------------------------------------------------------
(* The job: exec mode of run_detached.py.                                  *)

\* The command is over: it exited, was not found (127) or could not be run (1).
RdEnd(j) ==
    /\ rdJobs[j] = "running"
    /\ rdJobs' = [rdJobs EXCEPT ![j] = "ended"]
    /\ \E rc \in {"zero", "nonzero"} : rdRc' = [rdRc EXCEPT ![j] = rc]
    /\ \E wrote \in BOOLEAN : rdMarked' = (rdMarked \/ wrote)
    /\ UNCHANGED <<rdStatus, rdPc, rdAt, rdVerdict, rdAlone, rdFresh>>

\* _atomic_write_json: the status appears whole or not at all.
RdRecord(j) ==
    /\ rdJobs[j] = "ended"
    /\ rdJobs' = [rdJobs EXCEPT ![j] = "gone"]
    /\ rdStatus' = rdRc[j]
    /\ UNCHANGED <<rdRc, rdMarked, rdPc, rdAt, rdVerdict, rdAlone, rdFresh>>

\* The job's session is killed before the status is in place.
RdKilled(j) ==
    /\ rdJobs[j] \in RdLive
    /\ rdJobs' = [rdJobs EXCEPT ![j] = "gone"]
    /\ UNCHANGED <<rdRc, rdStatus, rdMarked, rdPc, rdAt, rdVerdict, rdAlone, rdFresh>>

-----------------------------------------------------------------------------
(* The caller.                                                             *)

\* launch: the old status is removed, or its removal fails and is let pass
\* (except OSError: pass); the log is opened for append and kept.
RdLaunch ==
    /\ rdPc = "idle" /\ rdAt < RdMaxJobs
    /\ rdAt' = rdAt + 1
    /\ rdJobs' = [rdJobs EXCEPT ![rdAt + 1] = "running"]
    /\ rdStatus' \in {"none", rdStatus}
    /\ rdPc' = "poll" /\ rdVerdict' = "none"
    /\ rdAlone' = (\A j \in RdIds : rdJobs[j] \notin RdLive)
    /\ rdFresh' = (rdStatus' = "none")
    /\ UNCHANGED <<rdRc, rdMarked>>

\* Mutant of RdVerdicts: the marker alone decides.
RdVerdictsByMarker(rc) == IF rdMarked THEN {"PASS"} ELSE {"HOLD"}

\* _verdict_from_rc: the exit code decides; a zero without the marker, or with
\* a log that cannot be read, is HOLD.
RdVerdicts(rc) ==
    CASE rc # "zero" -> {"FAIL"}
      [] rc = "zero" /\ rdMarked -> {"PASS", "HOLD"}
      [] OTHER -> {"HOLD"}

RdConclude(v) == rdPc' = "idle" /\ rdVerdict' = v

\* First half of poll: a status that is there ends the wait; one that is not,
\* or that cannot be read, does not.
RdRead ==
    /\ rdPc = "poll"
    /\ \/ rdPc' = "pid" /\ UNCHANGED rdVerdict
       \/ rdStatus # "none" /\ \E v \in RdVerdicts(rdStatus) : RdConclude(v)
    /\ UNCHANGED <<rdJobs, rdRc, rdStatus, rdMarked, rdAt, rdAlone, rdFresh>>

\* Second half: a process that is there, or a child nobody has waited for, is
\* RUNNING; one that is gone is LOST, its status perhaps written since the read.
RdLook ==
    /\ rdPc = "pid"
    /\ \/ rdPc' = "poll" /\ UNCHANGED rdVerdict
       \/ rdJobs[rdAt] = "gone" /\ RdConclude("HOLD")
    /\ UNCHANGED <<rdJobs, rdRc, rdStatus, rdMarked, rdAt, rdAlone, rdFresh>>

\* The budget is over between two polls; the job is left alone.
RdTimeout ==
    /\ rdPc = "poll"
    /\ RdConclude("HOLD")
    /\ UNCHANGED <<rdJobs, rdRc, rdStatus, rdMarked, rdAt, rdAlone, rdFresh>>

RdNext ==
    \/ \E j \in RdIds : RdEnd(j) \/ RdRecord(j) \/ RdKilled(j)
    \/ RdLaunch \/ RdRead \/ RdLook \/ RdTimeout

RdSpec == RdInit /\ [][RdNext]_rdVars

-----------------------------------------------------------------------------
\* Whose PASS it is.  A PASS never comes of nothing: it goes back to a command
\* launched on this path that exited 0, however the two reads of a poll
\* interleave with the ends of the jobs.  And it is the launched job's own when
\* no earlier job of the path was alive at the launch and the path was left
\* without a status (_exec writes the status atomically and last).  Both
\* conditions are needed: launch looks for neither, and passes over a failure
\* to remove the old status, which is then polled as the new job's.
RdPassIsOwn ==
    rdVerdict = "PASS" =>
        \E j \in 1..rdAt : rdRc[j] = "zero" /\ (rdAlone /\ rdFresh => j = rdAt)
=============================================================================
