------------------------------- MODULE PidLock -------------------------------
(***************************************************************************)
(* crawler_v2/daemon.rs: acquire_pid_lock, PidLock::drop and pid_is_alive, *)
(* as several `crawl daemon` processes on one state_dir run them.  The     *)
(* lock is a file with a number in it; the processes only share the file   *)
(* system and the process table.  Reading the file, asking `kill -0` and   *)
(* writing the file are three system interactions, and std::fs::write is   *)
(* itself two (open with O_TRUNC, then write).                             *)
(*                                                                         *)
(* A process is named by its PID.  The operating system may give the PID   *)
(* of a dead daemon to another daemon or to an unrelated program.          *)
(***************************************************************************)
CONSTANTS Pids,          \* the PIDs the operating system hands out
          Absent,        \* no daemon.pid
          Empty          \* daemon.pid exists and is empty: not an integer

ASSUME FileAssumption == Absent \notin Pids /\ Empty \notin Pids /\ Absent # Empty

VARIABLES file,       \* contents of <state_dir>/daemon.pid
          proc,       \* proc[p]: where the process with PID p is
          parsed,     \* parsed[p]: the PID p parsed out of the file
          overlapped  \* history: a daemon was started while another one
                      \* was still acquiring the lock

lockVars == <<file, proc, parsed, overlapped>>

Acquiring == {"read", "check", "truncate", "write"}
Holding   == {"hold", "dropRead", "dropRemove"}    \* the tick loop may run
PCs       == {"dead", "other"} \cup Acquiring \cup Holding

Alive(p) == proc[p] # "dead"     \* kill -0 p succeeds

LockInit == /\ file = Absent
            /\ proc = [p \in Pids |-> "dead"]
            /\ parsed = [p \in Pids |-> Absent]
            /\ overlapped = FALSE

Go(p, from, to) == proc[p] = from /\ proc' = [proc EXCEPT ![p] = to]

\* `crawl daemon` starts: run_until calls acquire_pid_lock.
Start(p) == /\ Go(p, "dead", "read")
            /\ overlapped' = (overlapped \/ \E q \in Pids : proc[q] \in Acquiring)
            /\ UNCHANGED <<file, parsed>>

\* An unrelated program is given the PID, and ends.
OtherStart(p) == Go(p, "dead", "other") /\ UNCHANGED <<file, parsed, overlapped>>
OtherExit(p)  == Go(p, "other", "dead") /\ UNCHANGED <<file, parsed, overlapped>>

\* Mutant: a missing file is taken for one that names somebody.
ReadAbsentAsPid(p) == /\ Go(p, "read", "check")
                      /\ file = Absent
                      /\ UNCHANGED <<file, parsed, overlapped>>

\* read_to_string: no file, go on to write.
ReadAbsent(p) == /\ Go(p, "read", "truncate")
                 /\ file = Absent
                 /\ UNCHANGED <<file, parsed, overlapped>>

\* The contents do not parse: InvalidPidFile, the process exits.
ReadInvalid(p) == /\ Go(p, "read", "dead")
                  /\ file = Empty
                  /\ UNCHANGED <<file, parsed, overlapped>>

ReadPid(p) == /\ Go(p, "read", "check")
              /\ file \in Pids
              /\ parsed' = [parsed EXCEPT ![p] = file]
              /\ UNCHANGED <<file, overlapped>>

\* pid_is_alive(pid): AlreadyRunning, the process exits.
CheckAlive(p) == /\ Go(p, "check", "dead")
                 /\ Alive(parsed[p])
                 /\ UNCHANGED <<file, parsed, overlapped>>

\* Mutant: the answer of `kill -0` is ignored.
CheckStaleAnyway(p) == /\ Go(p, "check", "truncate")
                       /\ UNCHANGED <<file, parsed, overlapped>>

\* Stale: fall through and overwrite.
CheckStale(p) == /\ Go(p, "check", "truncate")
                 /\ ~Alive(parsed[p])
                 /\ UNCHANGED <<file, parsed, overlapped>>

\* std::fs::write: open(O_CREAT | O_TRUNC), then write(our_pid).
Truncate(p) == /\ Go(p, "truncate", "write")
               /\ file' = Empty
               /\ UNCHANGED <<parsed, overlapped>>

Write(p) == /\ Go(p, "write", "hold")
            /\ file' = p
            /\ UNCHANGED <<parsed, overlapped>>

\* run_until returns and drops the lock: read the file back, ...
BeginDrop(p) == Go(p, "hold", "dropRead") /\ UNCHANGED <<file, parsed, overlapped>>

\* ... leave it alone if it is not ours, ...
DropNotOurs(p) == /\ Go(p, "dropRead", "dead")
                  /\ file # p
                  /\ UNCHANGED <<file, parsed, overlapped>>

\* Mutant: the drop does not ask whose file it is.
DropAnybodys(p) == Go(p, "dropRead", "dropRemove") /\ UNCHANGED <<file, parsed, overlapped>>

DropOurs(p) == /\ Go(p, "dropRead", "dropRemove")
               /\ file = p
               /\ UNCHANGED <<file, parsed, overlapped>>

\* ... else remove it; the process ends.
Remove(p) == /\ Go(p, "dropRemove", "dead")
             /\ file' = Absent
             /\ UNCHANGED <<parsed, overlapped>>

\* SIGKILL or power loss: no destructor runs.
Killed(p) == /\ proc[p] \in Acquiring \cup Holding
             /\ proc' = [proc EXCEPT ![p] = "dead"]
             /\ UNCHANGED <<file, parsed, overlapped>>

LockNext == \E p \in Pids :
  \/ Start(p) \/ OtherStart(p) \/ OtherExit(p)
  \/ ReadAbsent(p) \/ ReadInvalid(p) \/ ReadPid(p)
  \/ CheckAlive(p) \/ CheckStale(p)
  \/ Truncate(p) \/ Write(p)
  \/ BeginDrop(p) \/ DropNotOurs(p) \/ DropOurs(p) \/ Remove(p)
  \/ Killed(p)

LockSpec == LockInit /\ [][LockNext]_lockVars
-----------------------------------------------------------------------------
(* Type invariant; a start that asks `kill -0` has a PID to ask about.     *)
LockTypeOK == /\ file \in Pids \cup {Absent, Empty}
              /\ proc \in [Pids -> PCs]
              /\ parsed \in [Pids -> Pids \cup {Absent}]
              /\ overlapped \in BOOLEAN
              /\ \A p \in Pids : proc[p] = "check" => parsed[p] \in Pids

(* daemon.rs:9, "One daemon per (state_dir, db) tuple": two processes      *)
(* never run the tick loop on the same state_dir, across crashes, stale    *)
(* files and recycled PIDs.                                                *)
OneDaemon == \A p, q \in Pids : proc[p] \in Holding /\ proc[q] \in Holding => p = q

(* The file a daemon relies on is its own for as long as it runs: nobody   *)
(* overwrites or removes it, so the next start sees a live owner.          *)
HolderOwnsFile == \A p \in Pids : proc[p] \in Holding => file = p

(* The check-then-write protocol does its work while starts do not overlap *)
(* (one supervisor starts the daemons): then there is one daemon and the   *)
(* file is its own, across crashes, stale files and recycled PIDs.         *)
SerialStartsExclude == ~overlapped => OneDaemon /\ HolderOwnsFile

(* Even if starts overlapped: once the file names a running daemon p and   *)
(* nobody is past the `kill -0` or in the middle of a drop, ...            *)
Settled(p) == /\ proc[p] = "hold" /\ file = p
              /\ \A q \in Pids :
                   /\ proc[q] \notin {"truncate", "write", "dropRemove"}
                   /\ proc[q] = "check" => parsed[q] = p

(* ... p keeps the lock until it exits itself: later starts are refused,   *)
(* and a daemon that lost the race does not remove p's file when it exits. *)
SettledOwnerIsSafe ==
  [][\A p \in Pids : Settled(p) => proc'[p] # "hold" \/ Settled(p)']_lockVars
=============================================================================
