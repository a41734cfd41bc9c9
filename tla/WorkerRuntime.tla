---------------------------- MODULE WorkerRuntime ----------------------------
(***************************************************************************)
(* Processes of the VERI*FACTU worker: the advisory lock by which one of   *)
(* them leads, held by a connection of its own, their runs, heartbeats and *)
(* signals.  What a cycle does to the outbox is in Verifactu.              *)
(*                                                                         *)
(* Three things of one process go on at once: the loop, a heartbeat and,   *)
(* after a signal, the mark that the run is stopping.  Any statement may   *)
(* fail before it is done or lose its answer afterwards.  Times are left   *)
(* out: a heartbeat changes no status, only how recent the row is.         *)
(***************************************************************************)
EXTENDS Naturals

CONSTANTS WorkerProcesses,
          MaxCycles  \* bound: cycles of a process

ASSUME WorkerRuntimeAssumption == MaxCycles \in Nat

VARIABLES runtime,  \* memory of each process
          locking,  \* its connection for the lock
          workerRun \* verifactu_worker_runs, one of each process

workerRuntimeVars == <<runtime, locking, workerRun>>

\* at: what the process is doing; named: it knows the id of its run; marking and
\* beating: statements under way.
NotStarted == [at |-> "OFF", named |-> FALSE, once |-> FALSE, cycles |-> 0,
               stopping |-> FALSE, fatal |-> FALSE, marking |-> FALSE, beating |-> FALSE,
               failures |-> 0]
NoRun == [status |-> "ABSENT", recorded |-> 0]
AtWork(p) == runtime[p].at \in {"LOOP", "CYCLE", "RECORD", "ERROR"}
Subscribed(p) == AtWork(p) \/ runtime[p].at \in {"LEADING", "NAMING", "STOPPED", "FAILED"}
Living(p) == Subscribed(p) \/ runtime[p].at = "LEAVING"

WorkerRuntimeInit ==
    /\ runtime = [p \in WorkerProcesses |-> NotStarted]
    /\ locking = [p \in WorkerProcesses |-> "NONE"]
    /\ workerRun = [p \in WorkerProcesses |-> NoRun]

Unended == {"RUNNING", "STOPPING"}
Goes(p, to) == runtime' = [runtime EXCEPT ![p].at = to]
\* UPDATE ... WHERE status IN from.
Sets(p, from, to) ==
    workerRun' = IF workerRun[p].status \in from
                 THEN [workerRun EXCEPT ![p].status = to] ELSE workerRun
Undone == UNCHANGED workerRun
-----------------------------------------------------------------------------
MayLead(p) == \A q \in WorkerProcesses : locking[q] # "HELD"

\* pg_try_advisory_lock on a new connection; who does not get it exits.
Lead(p, once) ==
    /\ runtime[p] = NotStarted
    /\ IF MayLead(p)
       THEN /\ locking' = [locking EXCEPT ![p] = "HELD"]
            /\ runtime' = [runtime EXCEPT ![p].at = "LEADING", ![p].once = once]
       ELSE /\ Goes(p, "EXITED")
            /\ UNCHANGED locking
    /\ UNCHANGED workerRun

\* The insertion of the run, or a fault before or after it.
StartRun(p) ==
    /\ runtime[p].at = "LEADING"
    /\ \/ /\ Sets(p, {"ABSENT"}, "RUNNING")
          /\ runtime' = [runtime EXCEPT ![p].at = "NAMING", ![p].named = TRUE]
       \/ (Sets(p, {"ABSENT"}, "RUNNING") \/ Undone) /\ Goes(p, "LEAVING")
    /\ UNCHANGED locking

WriteStateFile(p) ==
    /\ runtime[p].at = "NAMING"
    /\ Goes(p, "LOOP") \/ Goes(p, "FAILED")
    /\ UNCHANGED <<locking, workerRun>>

\* do { if (stopping) break; ... } while (!once && !stopping).
BeginCycle(p) ==
    /\ runtime[p].at = "LOOP"
    /\ ~ runtime[p].stopping
    /\ runtime[p].cycles < MaxCycles /\ (runtime[p].once => runtime[p].cycles = 0)
    /\ runtime' = [runtime EXCEPT ![p].at = "CYCLE", ![p].cycles = @ + 1]
    /\ UNCHANGED <<locking, workerRun>>

EndCycle(p) ==
    /\ runtime[p].at = "CYCLE"
    /\ Goes(p, "RECORD") \/ Goes(p, "ERROR")
    /\ UNCHANGED <<locking, workerRun>>

Tallied(p) ==
    workerRun' = IF workerRun[p].status = "RUNNING"
                 THEN [workerRun EXCEPT ![p].recorded = @ + 1] ELSE workerRun

\* A record that throws is followed by the record of the error; that one ends
\* the loop when it throws, as every error does with --once.
RecordCycle(p) ==
    /\ runtime[p].at \in {"RECORD", "ERROR"}
    /\ LET faulty == runtime[p].at = "ERROR"
       IN  \/ Tallied(p) /\ Goes(p, IF faulty /\ runtime[p].once THEN "FAILED" ELSE "LOOP")
           \/ (Tallied(p) \/ Undone) /\ Goes(p, IF faulty THEN "FAILED" ELSE "ERROR")
    /\ UNCHANGED locking

\* What stopped the loop is looked at once.
LeaveLoop(p) ==
    /\ runtime[p].at = "LOOP"
    /\ runtime[p].stopping \/ (runtime[p].once /\ runtime[p].cycles > 0)
    /\ Goes(p, IF runtime[p].fatal THEN "FAILED" ELSE "STOPPED")
    /\ UNCHANGED <<locking, workerRun>>

\* finishVerifactuWorkerRun; the catch of a failed STOPPED writes FAILED.
FinishRun(p) ==
    /\ runtime[p].at \in {"STOPPED", "FAILED"}
    /\ \/ Sets(p, Unended, runtime[p].at) /\ Goes(p, "LEAVING")
       \/ /\ Sets(p, Unended, runtime[p].at) \/ Undone
          /\ Goes(p, IF runtime[p].at = "STOPPED" THEN "FAILED" ELSE "LEAVING")
    /\ UNCHANGED locking

\* The finally of main: the lock goes with its connection.
Release(p) ==
    /\ runtime[p].at = "LEAVING"
    /\ Goes(p, "EXITED")
    /\ locking' = [locking EXCEPT ![p] = "NONE"]
    /\ UNCHANGED workerRun
-----------------------------------------------------------------------------
(* Signals, heartbeats and the loss of the lock.                           *)

\* SIGTERM or SIGINT: the mark is sent and not awaited; a second one kills.
Signal(p) ==
    /\ Living(p)
    /\ ~ runtime[p].stopping
    /\ runtime' = [runtime EXCEPT ![p].stopping = TRUE, ![p].marking = runtime[p].named]
    /\ UNCHANGED <<locking, workerRun>>

\* A mutant: the mark also reaches a run that has ended.
Markable_Any == {"RUNNING", "STOPPED", "FAILED"}
Markable == {"RUNNING"}

\* It may arrive after its process is gone.
MarkStopping(p) ==
    /\ runtime[p].marking
    /\ runtime' = [runtime EXCEPT ![p].marking = FALSE]
    /\ Sets(p, Markable, "STOPPING") \/ Undone
    /\ UNCHANGED locking

\* The interval asks the connection of the lock first, then touches the run.
\* Once the process stops for a fatal cause a heartbeat changes nothing more.
Verify(p) ==
    /\ AtWork(p) \/ runtime[p].at = "STOPPED"
    /\ ~ runtime[p].beating /\ ~ runtime[p].fatal
    /\ \/ locking[p] = "HELD" /\ runtime' = [runtime EXCEPT ![p].beating = TRUE]
       \/ runtime' = [runtime EXCEPT ![p].stopping = TRUE, ![p].fatal = TRUE]
    /\ UNCHANGED <<locking, workerRun>>

MaxHeartbeatFailures == 3

Heartbeat(p) ==
    /\ Living(p)
    /\ runtime[p].beating
    /\ LET failures == runtime[p].failures + 1
           lost == failures >= MaxHeartbeatFailures
       IN  \/ /\ workerRun[p].status \in Unended
              /\ runtime' = [runtime EXCEPT ![p].beating = FALSE, ![p].failures = 0]
           \/ runtime' = [runtime EXCEPT ![p].beating = FALSE, ![p].failures = failures,
                                         ![p].fatal = @ \/ lost, ![p].stopping = @ \/ lost]
    /\ UNCHANGED <<locking, workerRun>>

\* The server, or the network, ends the connection; the client is told later.
Cut(p) ==
    /\ locking[p] = "HELD"
    /\ locking' = [locking EXCEPT ![p] = "CUT"]
    /\ UNCHANGED <<runtime, workerRun>>

NoticeLoss(p) ==
    /\ Subscribed(p)
    /\ locking[p] = "CUT" /\ ~ runtime[p].fatal
    /\ runtime' = [runtime EXCEPT ![p].stopping = TRUE, ![p].fatal = TRUE]
    /\ UNCHANGED <<locking, workerRun>>

\* The process dies; its lock goes when the server sees that.
Die(p) ==
    /\ Living(p)
    /\ Goes(p, "DEAD")
    /\ UNCHANGED <<locking, workerRun>>

WorkerRuntimeNext ==
    \E p \in WorkerProcesses :
        \/ \E once \in BOOLEAN : Lead(p, once)
        \/ StartRun(p) \/ WriteStateFile(p)
        \/ BeginCycle(p) \/ EndCycle(p) \/ RecordCycle(p)
        \/ LeaveLoop(p) \/ FinishRun(p) \/ Release(p)
        \/ Signal(p) \/ MarkStopping(p)
        \/ Verify(p) \/ Heartbeat(p)
        \/ Cut(p) \/ NoticeLoss(p) \/ Die(p)

WorkerRuntimeSpec == WorkerRuntimeInit /\ [][WorkerRuntimeNext]_workerRuntimeVars
-----------------------------------------------------------------------------
(* A run that is shown ended has no process at work, one that is shown to  *)
(* stop is stopping, and one that is shown at work has recorded every      *)
(* cycle that its process ended.                                           *)
RunsFollowProcesses == \A p \in WorkerProcesses :
    /\ AtWork(p) => workerRun[p].status \in Unended
    /\ workerRun[p].status = "STOPPING" => runtime[p].stopping
    /\ workerRun[p].status = "RUNNING" /\ runtime[p].at = "LOOP" =>
           workerRun[p].recorded >= runtime[p].cycles

(* The lock is given back only when the work is over: of two processes at  *)
(* work, one has lost its connection and does not know or is about to end. *)
OneLeads == \A p, q \in WorkerProcesses :
    p # q /\ AtWork(p) /\ AtWork(q) => locking[p] = "CUT" \/ locking[q] = "CUT"

(* Whatever signals, heartbeats and records are still under way, the runs  *)
(* that the operators see tell what the processes do, one leads at a time, *)
(* and a run that ended stays as it ended.                                 *)
RunsAreTrue ==
    /\ [](RunsFollowProcesses /\ OneLeads)
    /\ [][\A p \in WorkerProcesses : workerRun[p].status \in {"STOPPED", "FAILED"} =>
              workerRun'[p] = workerRun[p]]_workerRuntimeVars
=============================================================================
