--------------------------- MODULE Wrappers_proofs ---------------------------
(***************************************************************************)
(* Proofs about Wrappers, for any number of processes of either job, any   *)
(* host and any number of starts and kills.                                *)
(*                                                                         *)
(* A lock that is a directory outlives what it stands for, or goes before  *)
(* it: Left says which processes are behind that.  Who opens a database    *)
(* without a baseline is then a refresh under the lock of its job, since a *)
(* daily run has seen a crawl (Opened).                                    *)
(***************************************************************************)
EXTENDS Wrappers, TLAPS

Typed ==
    /\ host \in [flock : BOOLEAN, sqlite3 : BOOLEAN]
    /\ dir \subseteq Job
    /\ schema \in {"none", "file", "tables"}
    /\ baseline \in BOOLEAN /\ crawled \in BOOLEAN
    /\ shell \in [Proc -> Shell] /\ binary \in [Proc -> Binary]
    /\ openFailed \subseteq Proc /\ orphaned \subseteq Job /\ stale \subseteq Job
    /\ host.flock => dir = {} /\ orphaned = {} /\ stale = {}

\* Past the lock.
Inside(p) == shell[p] \in {"spawn", "wait"} \/ binary[p] # "none"

\* A binary starts after the lock; one whose shell is gone left its directory behind,
\* or lost it; and no shell is past the lock of a job whose directory was left behind.
Left(p) ==
    /\ shell[p] \in {"lock", "spawn"} => binary[p] = "none"
    /\ shell[p] = "idle" /\ binary[p] # "none" /\ ~host.flock => JobOf[p] \in stale \cup orphaned
    /\ JobOf[p] \in stale \ orphaned => shell[p] \notin {"spawn", "wait"}

Alone ==
    \A p, q \in Proc :
        JobOf[p] = JobOf[q] /\ JobOf[p] \notin orphaned /\ Inside(p) /\ Inside(q) => p = q

Directory ==
    ~host.flock =>
        \A j \in Job \ orphaned :
            j \in dir <=> j \in stale \/ \E p \in Proc : JobOf[p] = j /\ Inside(p)

LockInv == Alone /\ Directory /\ \A p \in Proc : Left(p)

\* What a binary may rely on when the database is opened.
Opened(p) ==
    /\ binary[p] \in {"read", "record", "work"} => schema = "tables"
    /\ binary[p] = "work" => baseline
    /\ host.sqlite3 /\ JobOf[p] = "daily" /\ (shell[p] # "idle" \/ binary[p] # "none") => crawled
    /\ host.sqlite3 /\ "refresh" \notin orphaned /\ binary[p] = "record" => ~baseline

OpenInv ==
    /\ baseline => schema = "tables"
    /\ crawled => baseline
    /\ \A p \in Proc : Opened(p)
    /\ FirstOpenIsSafe

-----------------------------------------------------------------------------
(* Types. *)

LEMMA TypedInit == Init => Typed
BY DEF Init, Typed, Shell, Binary

LEMMA TypedNext == Typed /\ [Next]_vars => Typed'
<1> SUFFICES ASSUME Typed, [Next]_vars PROVE Typed'
  OBVIOUS
<1> USE DEF Typed, Shell, Binary
<1>1. \A p \in Proc : JobOf[p] \in Job
  BY WrappersAssumption
<1>2. ASSUME NEW p \in Proc, Start(p) \/ Acquire(p) \/ Refused(p) \/ Spawn(p) \/ Exit(p)
      PROVE  Typed'
  BY <1>1, <1>2 DEF Start, Acquire, Refused, Spawn, Exit, EndShell, ExitRefused, database, history
<1>3. ASSUME NEW p \in Proc, Crawl(p) \/ OpenFile(p) \/ CreateTables(p) \/ ReadVersion(p)
      PROVE  Typed'
  BY <1>3 DEF Crawl, OpenFile, CreateTables, ReadVersion, To, database, history
<1>4. ASSUME NEW p \in Proc, RecordBaseline(p) \/ Work(p) \/ KillBinary(p)
      PROVE  Typed'
  BY <1>4 DEF RecordBaseline, Work, KillBinary, To, database, history
<1>5. ASSUME NEW p \in Proc, KillShell(p)
      PROVE  Typed'
  BY <1>1, <1>5 DEF KillShell, EndShell, database
<1>6. CASE UNCHANGED vars
  BY <1>6 DEF vars
<1> QED  BY <1>2, <1>3, <1>4, <1>5, <1>6 DEF Next, Step

-----------------------------------------------------------------------------
(* The lock. *)

\* What p's step leaves alone.
OthersSame(p) ==
    /\ \A q \in Proc \ {p} : shell'[q] = shell[q] /\ binary'[q] = binary[q]
    /\ host' = host

\* Steps inside the lock, or out of it, that touch no directory and end no shell.
LEMMA LockSame ==
    ASSUME Typed, LockInv, NEW p \in Proc, OthersSame(p),
           UNCHANGED <<dir, orphaned, stale>>,
           Inside(p)' <=> Inside(p), Left(p)'
    PROVE  LockInv'
<1>1. \A q \in Proc : (Inside(q)' <=> Inside(q)) /\ Left(q)'
  BY DEF LockInv, OthersSame, Inside, Left
<1> QED  BY <1>1 DEF LockInv, Alone, Directory, OthersSame

\* Leaving the lock without its directory.
LEMMA LockLeft ==
    ASSUME Typed, LockInv, NEW p \in Proc, OthersSame(p),
           UNCHANGED <<dir, orphaned>>, stale \subseteq stale',
           Inside(p)' => Inside(p), Left(p)',
           host.flock => stale' = stale,
           \A j \in stale' \ stale : j = JobOf[p] /\ Inside(p),
           ~host.flock /\ Inside(p) /\ ~Inside(p)' => JobOf[p] \in stale' \cup orphaned
    PROVE  LockInv'
<1>0. JobOf[p] \in Job
  BY WrappersAssumption
<1>1. \A q \in Proc \ {p} : Inside(q)' <=> Inside(q)
  BY DEF OthersSame, Inside
<1>2. Alone'
  BY <1>1 DEF LockInv, Alone
<1>3. ASSUME NEW q \in Proc \ {p} PROVE Left(q)'
  <2>1. Left(q) /\ (Inside(q) /\ JobOf[q] \notin orphaned /\ Inside(p) => JobOf[q] # JobOf[p])
    BY DEF LockInv, Alone
  <2> QED  BY <2>1 DEF Left, OthersSame, Inside
<1>4. Directory'
  <2> SUFFICES ASSUME ~host.flock, NEW j \in Job \ orphaned
               PROVE  j \in dir <=> j \in stale' \/ \E q \in Proc : JobOf[q] = j /\ Inside(q)'
    BY DEF Directory, OthersSame
  <2>1. j \in dir <=> j \in stale \/ \E q \in Proc : JobOf[q] = j /\ Inside(q)
    BY DEF LockInv, Directory
  <2> QED  BY <1>1, <2>1
<1> QED  BY <1>2, <1>3, <1>4 DEF LockInv

\* The trap of a shell whose binary is gone.
LEMMA LockFreed ==
    ASSUME Typed, LockInv, NEW p \in Proc, OthersSame(p), UNCHANGED <<orphaned, stale, binary>>,
           shell'[p] = "idle", shell[p] = "wait", binary[p] = "none",
           dir' = IF host.flock THEN dir ELSE dir \ {JobOf[p]}
    PROVE  LockInv'
<1>0. JobOf[p] \in Job /\ Left(p)
  BY WrappersAssumption DEF LockInv
<1>1. /\ Inside(p) /\ ~Inside(p)'
      /\ \A q \in Proc \ {p} : Inside(q)' <=> Inside(q)
  BY DEF Inside, OthersSame
<1>2. Alone'
  BY <1>1 DEF LockInv, Alone
<1>3. Directory'
  <2> SUFFICES ASSUME ~host.flock, NEW j \in Job \ orphaned
               PROVE  j \in dir' <=> j \in stale \/ \E q \in Proc : JobOf[q] = j /\ Inside(q)'
    BY DEF Directory, OthersSame
  <2>1. j \in dir <=> j \in stale \/ \E q \in Proc : JobOf[q] = j /\ Inside(q)
    BY DEF LockInv, Directory
  <2>2. CASE j = JobOf[p]
    <3>1. j \notin stale
      BY <1>0, <2>2 DEF Left
    <3>2. \A q \in Proc \ {p} : JobOf[q] = j => ~Inside(q)
      BY <1>1, <2>2 DEF LockInv, Alone
    <3> QED  BY <1>1, <2>2, <3>1, <3>2
  <2>3. CASE j # JobOf[p]
    BY <1>1, <2>1, <2>3
  <2> QED  BY <2>2, <2>3
<1>4. \A q \in Proc : Left(q)'
  BY <1>0 DEF LockInv, Left, OthersSame
<1> QED  BY <1>2, <1>3, <1>4 DEF LockInv

LEMMA LockShell ==
    ASSUME Typed, LockInv, NEW p \in Proc,
           Start(p) \/ Acquire(p) \/ Refused(p) \/ Spawn(p) \/ Exit(p)
    PROVE  LockInv'
<1>0. JobOf[p] \in Job /\ Left(p)
  BY WrappersAssumption DEF LockInv
<1>1. CASE Start(p) \/ Refused(p) \/ Spawn(p)
  <2>1. OthersSame(p) /\ UNCHANGED <<dir, orphaned, stale>>
    BY <1>1 DEF Typed, OthersSame, Start, Refused, Spawn, ExitRefused, EndShell, history
  <2>2. (Inside(p)' <=> Inside(p)) /\ Left(p)'
    BY <1>0, <1>1
       DEF Typed, Inside, Left, Start, Refused, Spawn, ExitRefused, EndShell, history
  <2> QED  BY <2>1, <2>2, LockSame
<1>2. CASE Acquire(p)
  <2>1. /\ OthersSame(p) /\ UNCHANGED <<orphaned, stale, binary>>
        /\ shell'[p] = "spawn" /\ shell[p] = "lock" /\ ~Locked(JobOf[p])
        /\ dir' = IF host.flock THEN dir ELSE dir \cup {JobOf[p]}
    BY <1>2 DEF Typed, OthersSame, Acquire, history
  <2>2. /\ ~Inside(p) /\ Inside(p)'
        /\ \A q \in Proc \ {p} : Inside(q)' <=> Inside(q)
    BY <1>0, <2>1 DEF Inside, Left, OthersSame
  <2>3. JobOf[p] \notin orphaned =>
            JobOf[p] \notin stale /\ \A q \in Proc : JobOf[q] = JobOf[p] => ~Inside(q)
    <3>1. CASE host.flock
      BY <2>1, <3>1 DEF Typed, Locked, Holds, Inside
    <3>2. CASE ~host.flock
      BY <1>0, <2>1, <3>2 DEF LockInv, Directory, Locked
    <3> QED  BY <3>1, <3>2
  <2>4. Alone'
    BY <2>1, <2>2, <2>3 DEF LockInv, Alone
  <2>5. Directory'
    BY <1>0, <2>1, <2>2, <2>3 DEF LockInv, Directory, OthersSame
  <2>6. \A q \in Proc : Left(q)'
    BY <1>0, <2>1, <2>3 DEF LockInv, Left, OthersSame
  <2> QED  BY <2>4, <2>5, <2>6 DEF LockInv
<1>3. CASE Exit(p)
  <2>1. /\ OthersSame(p) /\ UNCHANGED <<orphaned, stale, binary>>
        /\ shell'[p] = "idle" /\ shell[p] = "wait" /\ binary[p] = "none"
        /\ dir' = IF host.flock THEN dir ELSE dir \ {JobOf[p]}
    BY <1>3 DEF Typed, OthersSame, Exit, EndShell, history
  <2> QED  BY <1>0, <2>1, LockFreed
<1> QED  BY <1>1, <1>2, <1>3

LEMMA LockBinary ==
    ASSUME Typed, LockInv, NEW p \in Proc,
           \/ Crawl(p) \/ OpenFile(p) \/ CreateTables(p) \/ ReadVersion(p)
           \/ RecordBaseline(p) \/ Work(p) \/ KillBinary(p)
    PROVE  LockInv'
<1>1. /\ UNCHANGED <<host, dir, shell, orphaned, stale>>
      /\ binary[p] # "none" /\ \E b : binary' = [binary EXCEPT ![p] = b]
  BY DEF Crawl, OpenFile, CreateTables, ReadVersion, RecordBaseline, Work, KillBinary, To, history
<1>2. OthersSame(p) /\ Left(p)
  BY <1>1 DEF Typed, OthersSame, LockInv
<1>3. Inside(p) /\ Left(p)'
  BY <1>1, <1>2 DEF Typed, Inside, Left
<1>4. ~Inside(p)' /\ ~host.flock => JobOf[p] \in stale \cup orphaned
  BY <1>1, <1>2 DEF Typed, Inside, Left, Shell
<1> QED  BY <1>1, <1>2, <1>3, <1>4, LockLeft

LEMMA LockKill ==
    ASSUME Typed, LockInv, NEW p \in Proc, KillShell(p)
    PROVE  LockInv'
<1>0. JobOf[p] \in Job /\ Left(p)
  BY WrappersAssumption DEF LockInv
<1>1. PICK trap \in {FALSE, shell[p] = "wait"} :
        /\ EndShell(p, trap)
        /\ orphaned' = IF trap /\ binary[p] # "none" /\ ~host.flock
                       THEN orphaned \cup {JobOf[p]} ELSE orphaned
        /\ stale' = IF ~trap /\ shell[p] # "lock" /\ ~host.flock
                    THEN stale \cup {JobOf[p]} ELSE stale
  BY DEF KillShell
<1>2. /\ OthersSame(p) /\ UNCHANGED binary /\ shell'[p] = "idle" /\ shell[p] # "idle"
      /\ dir' = IF trap /\ ~host.flock THEN dir \ {JobOf[p]} ELSE dir
  BY <1>1 DEF Typed, OthersSame, KillShell, EndShell
<1>3. CASE host.flock \/ ~trap
  <2>1. /\ UNCHANGED <<dir, orphaned>>
        /\ stale' = IF shell[p] # "lock" /\ ~host.flock THEN stale \cup {JobOf[p]} ELSE stale
    BY <1>1, <1>2, <1>3
  <2>2. (Inside(p)' => Inside(p)) /\ Left(p)'
    <3>1. host' = host /\ binary'[p] = binary[p] /\ shell'[p] = "idle"
      BY <1>2 DEF OthersSame
    <3>2. binary[p] # "none" /\ ~host.flock => JobOf[p] \in stale'
      BY <1>0, <2>1 DEF Left
    <3> QED  BY <2>1, <3>1, <3>2 DEF Inside, Left
  <2>3. shell[p] # "lock" => Inside(p)
    BY <1>2 DEF Typed, Inside, Shell
  <2>4. ~host.flock /\ Inside(p) /\ ~Inside(p)' => JobOf[p] \in stale' \cup orphaned
    BY <1>0, <2>1 DEF Inside, Left
  <2> QED  BY <1>2, <2>1, <2>2, <2>3, <2>4, LockLeft
<1>4. CASE ~host.flock /\ trap /\ binary[p] = "none"
  BY <1>0, <1>1, <1>2, <1>4, LockFreed
<1>5. CASE ~host.flock /\ trap /\ binary[p] # "none"
  <2>1. /\ orphaned' = orphaned \cup {JobOf[p]} /\ stale' = stale
        /\ dir' = dir \ {JobOf[p]}
    BY <1>1, <1>2, <1>5
  <2>2. \A q \in Proc : JobOf[q] \notin orphaned' =>
            q # p /\ JobOf[q] \notin orphaned /\ (Inside(q)' <=> Inside(q)) /\ Left(q)
    BY <1>2, <2>1 DEF OthersSame, Inside, LockInv
  <2>3. Alone'
    BY <2>2 DEF LockInv, Alone
  <2>4. Directory'
    BY <1>2, <2>1, <2>2 DEF LockInv, Directory, OthersSame
  <2>5. \A q \in Proc : Left(q)'
    BY <1>0, <1>2, <2>1 DEF LockInv, Left, OthersSame
  <2> QED  BY <2>3, <2>4, <2>5 DEF LockInv
<1> QED  BY <1>1, <1>3, <1>4, <1>5

LEMMA LockInvariant == Spec => [](Typed /\ LockInv)
<1>1. Init => LockInv
  BY DEF Init, LockInv, Alone, Directory, Left, Inside
<1>2. Typed /\ LockInv /\ [Next]_vars => LockInv'
  <2> SUFFICES ASSUME Typed, LockInv, [Next]_vars PROVE LockInv'
    OBVIOUS
  <2>1. CASE UNCHANGED vars
    BY <2>1 DEF vars, LockInv, Alone, Directory, Left, Inside
  <2> QED  BY <2>1, LockShell, LockBinary, LockKill DEF Next, Step
<1> QED  BY <1>1, <1>2, TypedInit, TypedNext, PTL DEF Spec

\* The lock of a job is taken exactly while one of its processes has passed it, for any
\* number of processes and whatever is killed, with the two exceptions the property names.
THEOREM LockCorrect == Spec => []LockMeansRunning
<1>1. Typed /\ LockInv => LockMeansRunning
  <2> SUFFICES ASSUME Typed, LockInv, NEW j \in Job \ orphaned
               PROVE  LET inside == {p \in Proc : JobOf[p] = j /\
                                        (shell[p] \in {"spawn", "wait"} \/ binary[p] # "none")}
                      IN  /\ \A p, q \in inside : p = q
                          /\ Locked(j) <=> inside # {} \/ (j \in stale /\ ~host.flock)
    BY DEF LockMeansRunning
  <2> DEFINE inside == {p \in Proc : JobOf[p] = j /\ Inside(p)}
  <2>1. \A p, q \in inside : p = q
    BY DEF LockInv, Alone
  <2>2. Locked(j) <=> (\E p \in Proc : JobOf[p] = j /\ Inside(p)) \/ (j \in stale /\ ~host.flock)
    <3>1. CASE host.flock
      BY <3>1 DEF Locked, Holds, Inside
    <3>2. CASE ~host.flock
      BY <3>2 DEF Locked, LockInv, Directory
    <3> QED  BY <3>1, <3>2
  <2>3. (\E p \in Proc : JobOf[p] = j /\ Inside(p)) <=> inside # {}
    OBVIOUS
  <2>4. inside = {p \in Proc : JobOf[p] = j /\
                     (shell[p] \in {"spawn", "wait"} \/ binary[p] # "none")}
    BY DEF Inside
  <2> HIDE DEF inside
  <2> QED  BY <2>1, <2>2, <2>3, <2>4
<1> QED  BY <1>1, LockInvariant, PTL

-----------------------------------------------------------------------------
(* The first opening. *)

\* Others keep what they rely on when nothing is taken back.
LEMMA OpenedOthers ==
    ASSUME Typed, OpenInv, NEW p \in Proc, OthersSame(p),
           schema = "tables" => schema' = "tables", baseline' = baseline, crawled => crawled',
           orphaned \subseteq orphaned'
    PROVE  \A q \in Proc \ {p} : Opened(q)'
BY DEF OpenInv, Opened, OthersSame

LEMMA OpenShell ==
    ASSUME Typed, LockInv, OpenInv, NEW p \in Proc,
           Start(p) \/ Acquire(p) \/ Refused(p) \/ Spawn(p) \/ Exit(p) \/ KillShell(p)
    PROVE  OpenInv'
<1>1. OthersSame(p) /\ UNCHANGED <<schema, baseline, crawled, openFailed>>
      /\ orphaned \subseteq orphaned'
  BY DEF Typed, OthersSame, Start, Acquire, Refused, Spawn, Exit, KillShell, ExitRefused, EndShell,
         database, history
<1>2. Opened(p) /\ Left(p) /\ Shell = {"idle", "lock", "spawn", "wait"}
  BY DEF OpenInv, LockInv, Shell
<1>3. binary'[p] \in {"read", "record", "work"} => binary'[p] = binary[p]
  BY <1>1 DEF Typed, Start, Acquire, Refused, Spawn, Exit, KillShell
<1>4. host.sqlite3 /\ JobOf[p] = "daily" /\ (shell'[p] # "idle" \/ binary'[p] # "none") => crawled
  BY <1>2 DEF Typed, Opened, Start, Acquire, Refused, Spawn, Exit, KillShell, ExitRefused,
              EndShell, Seeded
<1>5. Opened(p)'
  BY <1>1, <1>2, <1>3, <1>4 DEF Opened, OthersSame
<1>6. FirstOpenIsSafe'
  BY <1>1 DEF OpenInv, FirstOpenIsSafe, OthersSame
<1> QED  BY <1>1, <1>5, <1>6, OpenedOthers DEF OpenInv

\* The steps of a binary that leave the baseline alone.
LEMMA OpenQuiet ==
    ASSUME Typed, OpenInv, NEW p \in Proc,
           \/ Crawl(p) \/ OpenFile(p) \/ CreateTables(p) \/ ReadVersion(p) \/ Work(p)
           \/ KillBinary(p)
    PROVE  OpenInv'
<1>1. /\ OthersSame(p) /\ UNCHANGED <<shell, baseline, openFailed, orphaned>>
      /\ schema = "tables" => schema' = "tables"
      /\ crawled => crawled'
      /\ crawled' => crawled \/ binary[p] = "work"
  BY DEF Typed, OthersSame, Crawl, OpenFile, CreateTables, ReadVersion, Work, KillBinary, To,
         database, history
<1>2. Opened(p) /\ binary[p] # "none"
  BY DEF OpenInv, Crawl, OpenFile, CreateTables, ReadVersion, Work, KillBinary
<1>3. /\ binary'[p] \in {"read", "record", "work"} => schema' = "tables"
      /\ binary'[p] = "work" => baseline
      /\ binary'[p] = "record" => ~baseline
  BY <1>2 DEF Typed, Opened, Crawl, OpenFile, CreateTables, ReadVersion, Work, KillBinary, To,
              database
<1>4. Opened(p)'
  BY <1>1, <1>2, <1>3 DEF Opened, OthersSame
<1>5. crawled' => baseline
  BY <1>1, <1>2 DEF OpenInv, Opened
<1>6. FirstOpenIsSafe' /\ (baseline' => schema' = "tables")
  BY <1>1 DEF OpenInv, FirstOpenIsSafe, OthersSame
<1> QED  BY <1>1, <1>4, <1>5, <1>6, OpenedOthers DEF OpenInv

\* Who records the baseline is a refresh, and no other process of its job is past the lock;
\* unless the seed check could not ask, or a trap gave the lock away.
LEMMA OpenRecord ==
    ASSUME Typed, LockInv, OpenInv, NEW p \in Proc, RecordBaseline(p)
    PROVE  OpenInv'
<1>1. /\ OthersSame(p) /\ UNCHANGED <<shell, schema, crawled, orphaned>>
      /\ binary[p] = "record" /\ baseline' = TRUE
      /\ binary'[p] \in {"none", "work"}
      /\ openFailed' = IF baseline THEN openFailed \cup {p} ELSE openFailed
  BY DEF Typed, OthersSame, RecordBaseline, To
<1>2. Opened(p) /\ JobOf[p] \in {"daily", "refresh"} /\ schema = "tables"
  BY <1>1, WrappersAssumption DEF OpenInv, Opened, Job
<1>3. host.sqlite3 /\ "refresh" \notin orphaned => ~baseline /\ JobOf[p] = "refresh"
  BY <1>1, <1>2 DEF Opened, OpenInv
<1>4. ASSUME NEW q \in Proc \ {p} PROVE Opened(q)'
  <2>1. Opened(q)
    BY DEF OpenInv
  <2>2. host.sqlite3 /\ "refresh" \notin orphaned => binary[q] # "record"
    <3> SUFFICES ASSUME host.sqlite3, "refresh" \notin orphaned, binary[q] = "record" PROVE FALSE
      OBVIOUS
    <3>1. JobOf[q] \in {"daily", "refresh"} /\ ~baseline /\ JobOf[p] = "refresh"
      BY <1>3, WrappersAssumption DEF Job
    <3>2. JobOf[q] = "refresh"
      BY <2>1, <3>1 DEF Opened, OpenInv
    <3> QED  BY <1>1, <3>1, <3>2 DEF LockInv, Alone, Inside
  <2> QED  BY <1>1, <2>1, <2>2 DEF Opened, OthersSame
<1>5. Opened(p)'
  BY <1>1, <1>2 DEF Opened, OthersSame
<1>6. FirstOpenIsSafe'
  BY <1>1, <1>2, <1>3 DEF OpenInv, FirstOpenIsSafe, OthersSame
<1> QED  BY <1>1, <1>2, <1>4, <1>5, <1>6 DEF OpenInv

\* Several first openings collide only where the seed check cannot ask or the lock was given
\* away, and what a collision leaves is a database that opens.
THEOREM OpenCorrect == Spec => []FirstOpenIsSafe
<1>1. Init => OpenInv
  BY DEF Init, OpenInv, Opened, FirstOpenIsSafe
<1>2. Typed /\ LockInv /\ OpenInv /\ [Next]_vars => OpenInv'
  <2> SUFFICES ASSUME Typed, LockInv, OpenInv, [Next]_vars PROVE OpenInv'
    OBVIOUS
  <2>1. CASE UNCHANGED vars
    BY <2>1 DEF vars, OpenInv, Opened, FirstOpenIsSafe
  <2> QED  BY <2>1, OpenShell, OpenQuiet, OpenRecord DEF Next, Step
<1>3. OpenInv => FirstOpenIsSafe
  BY DEF OpenInv
<1> QED  BY <1>1, <1>2, <1>3, LockInvariant, PTL DEF Spec
=============================================================================
