----------------------------- MODULE InstanceLock -----------------------------
(***************************************************************************)
(* The lock file that keeps a second worker from running on a machine.     *)
(* Every call of the file system is a step of its own: a worker creates    *)
(* the file exclusively and then writes its record into it; a worker that  *)
(* finds the file asks for its age, reads it, looks whether its owner is   *)
(* alive, reads it again and removes it.  Workers start once each, may     *)
(* crash between any two steps, and a crash leaves the file behind.        *)
(*                                                                         *)
(* All workers are on one machine.  A record is its token.                 *)
(***************************************************************************)
EXTENDS Integers, FiniteSets

CONSTANTS
    Process,
    NoFile

ASSUME LockAssumption ==
    NoFile \notin (Process \X (1..3)) \cup [of : Process \X (1..3), written : BOOLEAN]

VARIABLES
    file,       \* the lock file
    pc,         \* where each worker is in acquireWorkerInstanceLock
    attempt,    \* its attempt
    seen,       \* the file it has looked at in this attempt
    old,        \* the files that were created ten seconds ago or earlier
    rivals,     \* history: who was running when this worker got the lock
    alone,      \* history: who has run alone since it started
    calm        \* history: nobody has acted between another's last look at the
                \* file and its removal, and nobody took ten seconds to write

vars == <<file, pc, attempt, seen, old, rivals, alone, calm>>

\* mutant: the loop ends before the attempt that follows a removal
OneAttempt == 1

Attempts == 3

Token == Process \X (1..3)

Mine(p) == <<p, attempt[p]>>

TypeOK ==
    /\ file \in [of : Token, written : BOOLEAN] \cup {NoFile}
    /\ pc \in [Process -> {"off", "open", "write", "stat", "read", "check",
                           "again", "unlink", "held", "releasing", "refused",
                           "gone"}]
    /\ attempt \in [Process -> 1..3]
    /\ seen \in [Process -> Token \cup {NoFile}]
    /\ old \subseteq Token
    /\ rivals \in [Process -> SUBSET Process]
    /\ alone \subseteq Process
    /\ calm \in BOOLEAN

Init ==
    /\ file = NoFile
    /\ pc = [p \in Process |-> "off"]
    /\ attempt = [p \in Process |-> 1]
    /\ seen = [p \in Process |-> NoFile]
    /\ old = {}
    /\ rivals = [p \in Process |-> {}]
    /\ alone = {}
    /\ calm = TRUE

Alive(p) == pc[p] \notin {"off", "refused", "gone"}

Holds(p) == pc[p] \in {"held", "releasing"}

Others(p) == {q \in Process \ {p} : Alive(q)}

\* No other worker is between its last look at the file and its removal.
Undisturbed(p) == \A q \in Others(p) : pc[q] \notin {"read", "unlink"}

\* Whoever acts, the others are no longer alone.
At(p, place) ==
    /\ pc[p] = place
    /\ alone' = alone \cap {p}
    /\ calm' = (calm /\ Undisturbed(p))

Goes(p, place) == pc' = [pc EXCEPT ![p] = place]

\* continue: the next attempt, or ARIA_WORKER_INSTANCE_LOCK_BUSY
NextAttempt(p) ==
    /\ seen' = [seen EXCEPT ![p] = NoFile]
    /\ \/ /\ attempt[p] < Attempts
          /\ attempt' = [attempt EXCEPT ![p] = @ + 1]
          /\ Goes(p, "open")
       \/ /\ attempt[p] >= Attempts
          /\ UNCHANGED attempt
          /\ Goes(p, "refused")

Start(p) ==
    /\ pc[p] = "off"
    /\ Goes(p, "open")
    /\ alone' = IF Others(p) = {} THEN {p} ELSE {}
    /\ calm' = (calm /\ Undisturbed(p))
    /\ UNCHANGED <<file, attempt, seen, old, rivals>>

\* openSync with 'wx'
Open(p) ==
    /\ At(p, "open")
    /\ \/ /\ file = NoFile
          /\ file' = [of |-> Mine(p), written |-> FALSE]
          /\ Goes(p, "write")
       \/ /\ file # NoFile
          /\ Goes(p, "stat")
          /\ UNCHANGED file
    /\ UNCHANGED <<attempt, seen, old, rivals>>

\* The record goes to the file that was created, wherever its name is now.
Write(p) ==
    /\ At(p, "write")
    /\ file' = IF file # NoFile /\ file.of = Mine(p)
               THEN [file EXCEPT !.written = TRUE] ELSE file
    /\ rivals' = [rivals EXCEPT ![p] = Others(p)]
    /\ Goes(p, "held")
    /\ UNCHANGED <<attempt, seen, old>>

\* The disk refuses the record: what is at the path is removed.
WriteFails(p) ==
    /\ At(p, "write")
    /\ file' = NoFile
    /\ Goes(p, "gone")
    /\ UNCHANGED <<attempt, seen, old, rivals>>

Stat(p) ==
    /\ At(p, "stat")
    /\ \/ /\ file = NoFile
          /\ NextAttempt(p)
       \/ /\ file # NoFile
          /\ seen' = [seen EXCEPT ![p] = file.of]
          /\ Goes(p, "read")
          /\ UNCHANGED attempt
    /\ UNCHANGED <<file, old, rivals>>

\* mutant: an empty file is taken for an abandoned one
NeverInitializing(p) == FALSE

\* A file without a record is being written, unless the one that stat saw was
\* ten seconds old.
Initializing(p) == seen[p] \notin old

Read(p) ==
    /\ At(p, "read")
    /\ \/ /\ file = NoFile
          /\ NextAttempt(p)
       \/ /\ file # NoFile
          /\ UNCHANGED attempt
          /\ \/ /\ file.written
                /\ seen' = [seen EXCEPT ![p] = file.of]
                /\ Goes(p, "check")
             \/ /\ ~file.written
                /\ UNCHANGED seen
                /\ Goes(p, IF Initializing(p) THEN "refused" ELSE "unlink")
    /\ UNCHANGED <<file, old, rivals>>

\* mutant: the owner is taken for dead
OwnerIgnored(p) == FALSE

\* isProcessAlive
OwnerAlive(p) == Alive(seen[p][1])

Check(p) ==
    /\ At(p, "check")
    /\ Goes(p, IF OwnerAlive(p) THEN "refused" ELSE "again")
    /\ UNCHANGED <<file, attempt, seen, old, rivals>>

\* mutant: the file is removed whatever it has become
StillTheSame(p) == TRUE

\* latest.token === current.token
Same(p) == file.of = seen[p]

\* The second read.  A file without a record makes JSON.parse throw, and the
\* worker ends.
Again(p) ==
    /\ At(p, "again")
    /\ \/ /\ file = NoFile
          /\ NextAttempt(p)
       \/ /\ file # NoFile
          /\ \/ /\ file.written /\ ~Same(p)
                /\ NextAttempt(p)
             \/ /\ file.written /\ Same(p)
                /\ Goes(p, "unlink")
                /\ UNCHANGED <<attempt, seen>>
             \/ /\ ~file.written
                /\ Goes(p, "gone")
                /\ UNCHANGED <<attempt, seen>>
    /\ UNCHANGED <<file, old, rivals>>

Unlink(p) ==
    /\ At(p, "unlink")
    /\ file' = NoFile
    /\ NextAttempt(p)
    /\ UNCHANGED <<old, rivals>>

\* release() of the 'exit' handler: the file is read, then removed.
Release(p) ==
    /\ At(p, "held")
    /\ Goes(p, IF file # NoFile /\ file.written /\ file.of = Mine(p)
               THEN "releasing" ELSE "gone")
    /\ UNCHANGED <<file, attempt, seen, old, rivals>>

Remove(p) ==
    /\ At(p, "releasing")
    /\ file' = NoFile
    /\ Goes(p, "gone")
    /\ UNCHANGED <<attempt, seen, old, rivals>>

Crash(p) ==
    /\ Alive(p)
    /\ Goes(p, "gone")
    /\ alone' = alone \cap {p}
    /\ UNCHANGED <<file, attempt, seen, old, rivals, calm>>

\* Ten seconds pass since a file was created.
Age(t) ==
    /\ \/ file # NoFile /\ file.of = t
       \/ \E p \in Process : seen[p] = t
    /\ old' = old \cup {t}
    /\ calm' = (calm /\ ~(pc[t[1]] = "write" /\ Mine(t[1]) = t))
    /\ UNCHANGED <<file, pc, attempt, seen, rivals, alone>>

Next ==
    \/ \E p \in Process :
        \/ Start(p) \/ Open(p) \/ Write(p) \/ WriteFails(p) \/ Stat(p)
        \/ Read(p) \/ Check(p) \/ Again(p) \/ Unlink(p) \/ Release(p)
        \/ Remove(p) \/ Crash(p)
    \/ \E t \in Token : Age(t)

Spec == Init /\ [][Next]_vars

-----------------------------------------------------------------------------
(***************************************************************************)
(* Properties                                                              *)
(***************************************************************************)

\* tests/worker-single-instance-lock-v1.test.js: "a duplicate cannot replace
\* the active lock".  Unless steps overlap in a takeover, or a worker is ten
\* seconds late, a worker that holds the lock has its own file at the path,
\* and so is the only one: crashes, failed writes, endings and takeovers
\* notwithstanding.
Exclusion ==
    calm => \A p \in Process :
                Holds(p) => file = [of |-> Mine(p), written |-> TRUE]

\* Whatever overlaps: the lock of a worker that holds it is taken away only
\* by one that was already starting, or ending, when the worker got it.  A
\* worker that is started later is refused, or finds the lock gone.
OnlyRivalsReplace ==
    [][\A p \in Process :
        (/\ pc[p] = "held" /\ pc'[p] = "held"
         /\ file # NoFile /\ file.of = Mine(p)
         /\ file' # file)
            => \E q \in rivals[p] : pc'[q] # pc[q]]_vars

\* A worker that runs alone is refused for one reason: somebody crashed, less
\* than ten seconds before, between creating the file and writing it.  The
\* lock of a dead worker is taken over at once.
RefusedForCause ==
    \A p \in alone :
        pc[p] = "refused" => file # NoFile /\ ~file.written

=============================================================================
