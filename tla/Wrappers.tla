------------------------------ MODULE Wrappers ------------------------------
(***************************************************************************)
(* The two wrapper scripts (scripts/run-daily-signals.sh, scripts/         *)
(* run-refresh-org-map.sh), the binary each starts and the first opening   *)
(* of the work database (WorkDb::open_with, apply_migrations).             *)
(*                                                                         *)
(* A process p is a shell and the binary it started.  Any of the two may   *)
(* be killed without the other: by systemd one after the other, by hand,   *)
(* by the kernel.  A host has flock or the scripts fall back to mkdir, and *)
(* it has the sqlite3 command or the seed check ends with the file test.   *)
(* What a binary does to the database once it is open is one step here     *)
(* (DailyJob, OrgMapRefresh and WorkDb have the steps).                    *)
(***************************************************************************)
EXTENDS Integers, FiniteSets

CONSTANTS
    Proc,        \* processes
    JobOf,       \* Proc -> "daily" or "refresh"
    MaxStarts,   \* bound: shells started
    MaxKills     \* bound: shells and binaries killed

Job == {"daily", "refresh"}

ASSUME WrappersAssumption ==
    /\ IsFiniteSet(Proc) /\ JobOf \in [Proc -> Job]
    /\ MaxStarts \in Nat /\ MaxKills \in Nat

VARIABLES
    host,        \* [flock, sqlite3]: the commands there are
    dir,         \* jobs whose lock directory exists
    schema,      \* the work database: "none", "file" or "tables"
    baseline,    \* the baseline row of schema_migrations is there
    crawled,     \* org_map_runs has a row
    shell,       \* process -> what its shell does next
    binary,      \* process -> what its binary does next, or "none"
    starts, kills,
    openFailed,  \* history: processes whose binary failed to open the database
    orphaned,    \* history: jobs that lost their lock directory to the trap of a
                 \* shell whose binary lives
    stale        \* history: jobs whose lock directory outlived its shell

database == <<schema, baseline, crawled>>
history == <<openFailed, orphaned, stale>>
vars == <<host, dir, schema, baseline, crawled, shell, binary, starts, kills,
          openFailed, orphaned, stale>>

Shell == {"idle", "lock", "spawn", "wait"}
Binary == {"none", "crawl", "open", "tables", "read", "record", "work"}

Init ==
    /\ host \in [flock : BOOLEAN, sqlite3 : BOOLEAN]
    /\ dir = {} /\ schema = "none" /\ baseline = FALSE /\ crawled = FALSE
    /\ shell = [p \in Proc |-> "idle"] /\ binary = [p \in Proc |-> "none"]
    /\ starts = 0 /\ kills = 0
    /\ openFailed = {} /\ orphaned = {} /\ stale = {}

-----------------------------------------------------------------------------
(* The lock. *)

\* Mutant: the descriptor is closed for the binary.
HoldsWhileShell(p) == shell[p] \in {"spawn", "wait"}

\* Descriptor 9 is open in the shell from the lock on, and in the binary it starts.
Holds(p) == shell[p] \in {"spawn", "wait"} \/ binary[p] # "none"

Locked(j) ==
    IF host.flock THEN \E p \in Proc : JobOf[p] = j /\ Holds(p)
    ELSE j \in dir

\* The shell of p ends; a trap set removes the directory.
EndShell(p, trap) ==
    /\ shell' = [shell EXCEPT ![p] = "idle"]
    /\ dir' = IF trap /\ ~host.flock THEN dir \ {JobOf[p]} ELSE dir

-----------------------------------------------------------------------------
(* The shell. *)

\* Mutant: the file is enough.
SeededFile == schema # "none"

\* The seed check: the file, and a query that answers 0 when it fails.
Seeded == schema # "none" /\ (host.sqlite3 => schema = "tables" /\ crawled)

\* A timer or an operator starts the script; an unseeded daily one exits 0.
Start(p) ==
    /\ shell[p] = "idle" /\ binary[p] = "none" /\ starts < MaxStarts
    /\ starts' = starts + 1
    /\ shell' = [shell EXCEPT ![p] = IF JobOf[p] = "daily" /\ ~Seeded THEN "idle" ELSE "lock"]
    /\ UNCHANGED <<host, dir, database, binary, kills, history>>

\* acquire_lock.
Acquire(p) ==
    /\ shell[p] = "lock" /\ ~Locked(JobOf[p])
    /\ shell' = [shell EXCEPT ![p] = "spawn"]
    /\ dir' = IF host.flock THEN dir ELSE dir \cup {JobOf[p]}
    /\ UNCHANGED <<host, database, binary, starts, kills, history>>

\* Mutant: the trap is set before the directory is made.
TrapEarly(p) == EndShell(p, TRUE)

\* "already running": exit 1 before the trap is set.
ExitRefused(p) == EndShell(p, FALSE)

Refused(p) ==
    /\ shell[p] = "lock" /\ Locked(JobOf[p])
    /\ ExitRefused(p)
    /\ UNCHANGED <<host, database, binary, starts, kills, history>>

\* The trap is set and the binary started.
Spawn(p) ==
    /\ shell[p] = "spawn"
    /\ shell' = [shell EXCEPT ![p] = "wait"]
    /\ binary' = [binary EXCEPT ![p] = IF JobOf[p] = "daily" THEN "open" ELSE "crawl"]
    /\ UNCHANGED <<host, dir, database, starts, kills, history>>

\* The binary has ended, well or not; what is left of the script, and the trap.
Exit(p) ==
    /\ shell[p] = "wait" /\ binary[p] = "none"
    /\ EndShell(p, TRUE)
    /\ UNCHANGED <<host, database, binary, starts, kills, history>>

-----------------------------------------------------------------------------
(* The binary: for the refresh the crawl, then for both the open and the work. *)

To(p, b) == binary' = [binary EXCEPT ![p] = b]

\* build_org_map_from_peeringdb, which may fail.
Crawl(p) ==
    /\ binary[p] = "crawl"
    /\ \E b \in {"open", "none"} : To(p, b)
    /\ UNCHANGED <<host, dir, database, shell, starts, kills, history>>

\* Connection::open and the pragmas create the file.
OpenFile(p) ==
    /\ binary[p] = "open"
    /\ schema' = IF schema = "none" THEN "file" ELSE schema
    /\ To(p, "tables")
    /\ UNCHANGED <<host, dir, baseline, crawled, shell, starts, kills, history>>

\* SCHEMA_SQL.
CreateTables(p) ==
    /\ binary[p] = "tables"
    /\ schema' = "tables"
    /\ To(p, "read")
    /\ UNCHANGED <<host, dir, baseline, crawled, shell, starts, kills, history>>

\* apply_migrations reads the version; there is no forward migration yet.
ReadVersion(p) ==
    /\ binary[p] = "read"
    /\ To(p, IF baseline THEN "work" ELSE "record")
    /\ UNCHANGED <<host, dir, database, shell, starts, kills, history>>

\* The insert of the baseline fails when another process has made it since.
RecordBaseline(p) ==
    /\ binary[p] = "record"
    /\ baseline' = TRUE
    /\ To(p, IF baseline THEN "none" ELSE "work")
    /\ openFailed' = IF baseline THEN openFailed \cup {p} ELSE openFailed
    /\ UNCHANGED <<host, dir, schema, crawled, shell, starts, kills, orphaned, stale>>

\* The rest of the binary: the commit of a crawl, a daily run, or an error.
Work(p) ==
    /\ binary[p] = "work"
    /\ \/ JobOf[p] = "refresh" /\ crawled' = TRUE
       \/ UNCHANGED crawled
    /\ To(p, "none")
    /\ UNCHANGED <<host, dir, schema, baseline, shell, starts, kills, history>>

-----------------------------------------------------------------------------
(* Kills. *)

KillBinary(p) ==
    /\ binary[p] # "none" /\ kills < MaxKills
    /\ kills' = kills + 1
    /\ To(p, "none")
    /\ UNCHANGED <<host, dir, database, shell, starts, history>>

\* SIGTERM or SIGKILL for the shell alone: bash runs its EXIT trap for the former.
KillShell(p) ==
    /\ shell[p] # "idle" /\ kills < MaxKills
    /\ kills' = kills + 1
    /\ \E trap \in {FALSE, shell[p] = "wait"} :
        /\ EndShell(p, trap)
        /\ orphaned' = IF trap /\ binary[p] # "none" /\ ~host.flock
                       THEN orphaned \cup {JobOf[p]} ELSE orphaned
        /\ stale' = IF ~trap /\ shell[p] # "lock" /\ ~host.flock
                    THEN stale \cup {JobOf[p]} ELSE stale
    /\ UNCHANGED <<host, database, binary, starts, openFailed>>

Step(p) ==
    \/ Acquire(p) \/ Refused(p) \/ Spawn(p) \/ Exit(p)
    \/ Crawl(p) \/ OpenFile(p) \/ CreateTables(p) \/ ReadVersion(p) \/ RecordBaseline(p)
    \/ Work(p)

Next == \E p \in Proc : Start(p) \/ Step(p) \/ KillBinary(p) \/ KillShell(p)
Spec == Init /\ [][Next]_vars

-----------------------------------------------------------------------------
(* Properties. *)

\* The lock of a job is taken exactly while a process of the job has passed it, its binary alone
\* included when the shell was killed, and never by two: under flock always; under the mkdir
\* fallback until a SIGTERM for the shell alone runs the trap beside the binary, and with
\* a directory that stays for good after a SIGKILL (acquire_lock of both scripts).
LockMeansRunning ==
    \A j \in Job \ orphaned :
        LET inside == {p \in Proc : JobOf[p] = j /\
                          (shell[p] \in {"spawn", "wait"} \/ binary[p] # "none")}
        IN  /\ \A p, q \in inside : p = q
            /\ Locked(j) <=> inside # {} \/ (j \in stale /\ ~host.flock)

\* A database that is opened for the first time by several binaries at once: where the seed check
\* has sqlite3 to ask, a daily run opens it only after a crawl is in it, so no open ever fails
\* on the baseline that another has recorded since it looked; where it has not, such an open
\* fails once and leaves a database that opens (open_with, apply_migrations, the seed check).
FirstOpenIsSafe ==
    /\ host.sqlite3 /\ "refresh" \notin orphaned => openFailed = {}
    /\ openFailed # {} => baseline /\ schema = "tables"
=============================================================================
