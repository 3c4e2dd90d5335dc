-------------------------- MODULE InstanceLockProofs --------------------------
(***************************************************************************)
(* Proofs about InstanceLock, for any number of workers: the types; that   *)
(* one worker holds the lock, unless steps overlap in a takeover or one is *)
(* slow; and, with no such condition, that a worker's lock is only taken   *)
(* away by those that were running when it got it, and that a worker by    *)
(* itself is refused only for a file that was created seconds ago.         *)
(***************************************************************************)
EXTENDS InstanceLock, TLAPS

FileRecord == [of : Token, written : BOOLEAN]

\* One worker's step.
Acts(p) ==
    \/ Start(p) \/ Open(p) \/ Write(p) \/ WriteFails(p) \/ Stat(p)
    \/ Read(p) \/ Check(p) \/ Again(p) \/ Unlink(p) \/ Release(p)
    \/ Remove(p) \/ Crash(p)

LEMMA Steps ==
    Next <=> (\E p \in Process : Acts(p)) \/ (\E t \in Token : Age(t))
BY DEF Next, Acts

LEMMA FileFields ==
    ASSUME NEW f \in FileRecord
    PROVE  /\ f.of \in Token
           /\ f.written \in BOOLEAN
           /\ f # NoFile
           /\ f = [of |-> f.of, written |-> f.written]
BY LockAssumption DEF FileRecord, Token

LEMMA Pairs ==
    ASSUME TypeOK, NEW p \in Process
    PROVE  /\ Mine(p) \in Token
           /\ Mine(p)[1] = p
           /\ Mine(p)[2] = attempt[p]
BY DEF TypeOK, Token, Mine

(***************************************************************************)
(* Types                                                                   *)
(***************************************************************************)
LEMMA NextAttemptTyped ==
    ASSUME TypeOK, NEW p \in Process, NextAttempt(p)
    PROVE  /\ pc' \in [Process -> {"off", "open", "write", "stat", "read", "check",
                                   "again", "unlink", "held", "releasing", "refused",
                                   "gone"}]
           /\ attempt' \in [Process -> 1..3]
           /\ seen' \in [Process -> Token \cup {NoFile}]
           /\ \A q \in Process \ {p} : pc'[q] = pc[q] /\ attempt'[q] = attempt[q]
                                       /\ seen'[q] = seen[q]
           /\ seen'[p] = NoFile
           /\ \/ pc'[p] = "open" /\ attempt'[p] = attempt[p] + 1
              \/ pc'[p] = "refused" /\ attempt'[p] = attempt[p]
BY DEF TypeOK, NextAttempt, Goes, Attempts

THEOREM LockTypes == Spec => []TypeOK
<1>1. Init => TypeOK
  BY DEF Init, TypeOK
<1>2. TypeOK /\ [Next]_vars => TypeOK'
  <2> SUFFICES ASSUME TypeOK, [Next]_vars PROVE TypeOK'
    OBVIOUS
  <2>1. CASE UNCHANGED vars
    BY <2>1 DEF vars, TypeOK
  <2>2. ASSUME NEW p \in Process, Acts(p) PROVE TypeOK'
    <3>0. Mine(p) \in Token
      BY Pairs
    <3>1. CASE Start(p)
      BY <3>1 DEF Start, Goes, TypeOK
    <3>2. CASE Open(p)
      <4>1. file' \in FileRecord \cup {NoFile}
        <5>1. CASE file' = file
          BY <5>1 DEF TypeOK, FileRecord
        <5>2. CASE file' = [of |-> Mine(p), written |-> FALSE]
          BY <3>0, <5>2 DEF FileRecord
        <5> QED BY <3>2, <5>1, <5>2 DEF Open
      <4>2. Goes(p, "write") \/ Goes(p, "stat")
        BY <3>2 DEF Open
      <4> QED
        BY <3>2, <4>1, <4>2 DEF Open, At, Goes, TypeOK, FileRecord
    <3>3. CASE Write(p)
      <4>1. file' \in FileRecord \cup {NoFile}
        <5>1. CASE file = NoFile
          BY <3>3, <5>1 DEF Write
        <5>2. CASE file # NoFile
          BY <3>3, <5>2 DEF Write, TypeOK, FileRecord
        <5> QED BY <5>1, <5>2
      <4>2. Others(p) \subseteq Process
        BY DEF Others
      <4> QED
        BY <3>3, <4>1, <4>2 DEF Write, At, Goes, TypeOK, FileRecord
    <3>4. CASE WriteFails(p)
      BY <3>4 DEF WriteFails, At, Goes, TypeOK
    <3>5. CASE Stat(p)
      <4>1. CASE file = NoFile
        BY <3>5, <4>1, NextAttemptTyped DEF Stat, At, TypeOK
      <4>2. CASE file # NoFile
        <5>1. file.of \in Token
          BY <4>2, FileFields DEF TypeOK, FileRecord
        <5> QED
          BY <3>5, <4>2, <5>1 DEF Stat, At, Goes, TypeOK
      <4> QED BY <4>1, <4>2
    <3>6. CASE Read(p)
      <4>1. CASE file = NoFile
        BY <3>6, <4>1, NextAttemptTyped DEF Read, At, TypeOK
      <4>2. CASE file # NoFile
        <5>1. file.of \in Token
          BY <4>2, FileFields DEF TypeOK, FileRecord
        <5> QED
          BY <3>6, <4>2, <5>1 DEF Read, At, Goes, TypeOK
      <4> QED BY <4>1, <4>2
    <3>7. CASE Check(p)
      BY <3>7 DEF Check, At, Goes, TypeOK
    <3>8. CASE Again(p)
      <4>1. CASE NextAttempt(p)
        BY <3>8, <4>1, NextAttemptTyped DEF Again, At, TypeOK
      <4>2. CASE UNCHANGED <<attempt, seen>> /\ (Goes(p, "unlink") \/ Goes(p, "gone"))
        BY <3>8, <4>2 DEF Again, At, Goes, TypeOK
      <4> QED BY <3>8, <4>1, <4>2 DEF Again
    <3>9. CASE Unlink(p)
      BY <3>9, NextAttemptTyped DEF Unlink, At, TypeOK
    <3>10. CASE Release(p)
      BY <3>10 DEF Release, At, Goes, TypeOK
    <3>11. CASE Remove(p)
      BY <3>11 DEF Remove, At, Goes, TypeOK
    <3>12. CASE Crash(p)
      BY <3>12 DEF Crash, Goes, TypeOK
    <3> QED
      BY <2>2, <3>1, <3>2, <3>3, <3>4, <3>5, <3>6, <3>7, <3>8, <3>9, <3>10,
         <3>11, <3>12 DEF Acts
  <2>3. ASSUME NEW t \in Token, Age(t) PROVE TypeOK'
    BY <2>3 DEF Age, TypeOK
  <2> QED BY <2>1, <2>2, <2>3, Steps
<1> QED BY <1>1, <1>2, PTL DEF Spec


(***************************************************************************)
(* Who may take a lock away                                                *)
(***************************************************************************)

\* Actors change their own place only.
LEMMA OwnPlace ==
    ASSUME TypeOK, NEW p \in Process, Acts(p)
    PROVE  /\ \A q \in Process \ {p} :
                 pc'[q] = pc[q] /\ attempt'[q] = attempt[q] /\ seen'[q] = seen[q]
           /\ pc'[p] # pc[p]
           /\ pc'[p] # "off"
<1>1. CASE Unlink(p)
  BY <1>1, NextAttemptTyped DEF Unlink, At
<1>2. CASE Stat(p)
  BY <1>2, NextAttemptTyped DEF Stat, At, Goes, TypeOK
<1>3. CASE Read(p)
  BY <1>3, NextAttemptTyped DEF Read, At, Goes, TypeOK
<1>4. CASE Again(p)
  BY <1>4, NextAttemptTyped DEF Again, At, Goes, TypeOK
<1>5. CASE Start(p) \/ Open(p)
  BY <1>5 DEF Start, Open, At, Goes, TypeOK
<1>6. CASE Write(p) \/ WriteFails(p) \/ Check(p)
  BY <1>6 DEF Write, WriteFails, Check, At, Goes, TypeOK
<1>7. CASE Release(p) \/ Remove(p) \/ Crash(p)
  BY <1>7 DEF Release, Remove, Crash, Alive, At, Goes, TypeOK
<1> QED BY <1>1, <1>2, <1>3, <1>4, <1>5, <1>6, <1>7 DEF Acts

\* p holds the lock, and the file is p's.
Has(p) == pc[p] = "held" /\ file # NoFile /\ file.of = Mine(p)

\* Who was not running when p got its lock has seen p's record, or nothing.
Late(p, q) ==
    /\ file.written
    /\ pc[q] \in {"off", "open", "stat", "read", "check", "refused", "gone"}
    /\ pc[q] = "check" => seen[q] = file.of

Latecomers ==
    \A p, q \in Process : Has(p) /\ q # p /\ q \notin rivals[p] => Late(p, q)

\* A latecomer leaves the file as it is, and stays one.
LEMMA LateStep ==
    ASSUME TypeOK, NEW p \in Process, NEW q \in Process, q # p,
           Has(p), Late(p, q), Acts(q)
    PROVE  /\ file' = file
           /\ Late(p, q)'
<1>1. file \in FileRecord /\ file.of[1] = p
  BY Pairs DEF Has, TypeOK, FileRecord
<1>2. Alive(p)
  BY DEF Has, Alive
<1>3. CASE Start(q)
  BY <1>3 DEF Start, Goes, Late, TypeOK
<1>4. CASE Open(q)
  BY <1>4 DEF Open, Has, Goes, Late, TypeOK
<1>5. CASE Stat(q)
  BY <1>5 DEF Stat, Has, Goes, Late, TypeOK
<1>6. CASE Read(q)
  BY <1>6 DEF Read, Has, Goes, Late, TypeOK
<1>7. CASE Check(q)
  <2>1. OwnerAlive(q)
    BY <1>1, <1>2, <1>7 DEF Check, At, Late, OwnerAlive
  <2> QED BY <1>7, <2>1 DEF Check, Goes, Late, TypeOK
<1>8. CASE Crash(q)
  BY <1>8 DEF Crash, Goes, Late, TypeOK
<1>9. CASE Write(q) \/ WriteFails(q) \/ Again(q) \/ Unlink(q) \/ Release(q) \/ Remove(q)
  BY <1>9 DEF Write, WriteFails, Again, Unlink, Release, Remove, At, Late
<1> QED BY <1>3, <1>4, <1>5, <1>6, <1>7, <1>8, <1>9 DEF Acts

\* No step of another makes the file p's, or removes it and leaves it p's.
LEMMA NotAnothers ==
    ASSUME TypeOK, NEW p \in Process, NEW r \in Process, r # p, Acts(r),
           Has(p)'
    PROVE  Has(p) /\ file' = file /\ rivals'[p] = rivals[p]
<1>1. pc[p] = "held" /\ Mine(p)' = Mine(p)
  BY OwnPlace DEF Has, Mine
<1>2. Mine(r) # Mine(p)
  BY Pairs
<1>3. CASE Open(r)
  <2>1. file' = file
    <3>1. CASE file = NoFile
      <4>1. file'.of = Mine(r)
        BY <1>3, <3>1 DEF Open
      <4> QED BY <1>1, <1>2, <4>1 DEF Has
    <3>2. CASE file # NoFile
      BY <1>3, <3>2 DEF Open
    <3> QED BY <3>1, <3>2
  <2> QED BY <1>1, <1>3, <2>1 DEF Has, Open
<1>4. CASE Write(r)
  <2>1. file' = file
    <3>1. CASE file # NoFile /\ file.of = Mine(r)
      <4>1. file'.of = Mine(r)
        BY <1>4, <3>1, FileFields DEF Write, TypeOK, FileRecord
      <4> QED BY <1>1, <1>2, <4>1 DEF Has
    <3>2. CASE ~(file # NoFile /\ file.of = Mine(r))
      BY <1>4, <3>2 DEF Write
    <3> QED BY <3>1, <3>2
  <2> QED BY <1>1, <1>4, <2>1 DEF Has, Write, TypeOK
<1>5. CASE WriteFails(r) \/ Unlink(r) \/ Remove(r)
  BY <1>5 DEF WriteFails, Unlink, Remove, Has
<1>6. CASE Start(r) \/ Stat(r) \/ Read(r) \/ Check(r) \/ Again(r) \/ Release(r) \/ Crash(r)
  BY <1>1, <1>6 DEF Start, Stat, Read, Check, Again, Release, Crash, Has
<1> QED BY <1>3, <1>4, <1>5, <1>6 DEF Acts

LEMMA LatecomersInit == Init => Latecomers
BY DEF Init, Latecomers, Has

LEMMA LatecomersStep == TypeOK /\ Latecomers /\ [Next]_vars => Latecomers'
<1> SUFFICES ASSUME TypeOK, Latecomers, [Next]_vars,
                    NEW p \in Process, NEW q \in Process, q # p,
                    Has(p)', q \notin rivals'[p]
             PROVE  Late(p, q)'
  BY DEF Latecomers
<1>1. CASE UNCHANGED vars
  BY <1>1 DEF vars, Latecomers, Has, Late, Mine
<1>2. ASSUME NEW t \in Token, Age(t) PROVE Late(p, q)'
  BY <1>2 DEF Age, Latecomers, Has, Late, Mine
<1>3. CASE Acts(p)
  <2>1. Write(p)
    BY <1>3, NextAttemptTyped
    DEF Acts, Has, Start, Open, Write, WriteFails, Stat, Read, Check, Again,
        Unlink, Release, Remove, Crash, Goes, At, TypeOK
  <2>2. q \notin Others(p)
    BY <2>1 DEF Write, TypeOK
  <2>3. pc[q] \in {"off", "refused", "gone"} /\ pc'[q] = pc[q]
    BY <1>3, <2>2, OwnPlace DEF Others, Alive
  <2>4. file'.written
    <3>1. file # NoFile /\ file.of = Mine(p)
      BY <2>1 DEF Write, Has, Mine
    <3> QED BY <2>1, <3>1 DEF Write, TypeOK
  <2> QED BY <2>3, <2>4 DEF Late
<1>4. ASSUME NEW r \in Process, Acts(r), r # p PROVE Late(p, q)'
  <2>1. Has(p) /\ file' = file /\ q \notin rivals[p]
    BY <1>4, NotAnothers
  <2>2. Late(p, q)
    BY <2>1 DEF Latecomers
  <2>3. CASE r = q
    BY <1>4, <2>1, <2>2, <2>3, LateStep
  <2>4. CASE r # q
    BY <1>4, <2>1, <2>2, <2>4, OwnPlace DEF Late
  <2> QED BY <2>3, <2>4
<1> QED BY <1>1, <1>2, <1>3, <1>4, Steps

\* The step of a latecomer leaves the holder's file alone.
LEMMA OnlyRivalsStep ==
    ASSUME TypeOK, Latecomers, [Next]_vars, NEW p \in Process,
           Has(p), pc'[p] = "held", file' # file
    PROVE  \E q \in rivals[p] : pc'[q] # pc[q]
<1>1. PICK r \in Process : Acts(r)
  BY Steps DEF vars, Age
<1>2. r # p
  BY <1>1, OwnPlace DEF Has
<1>3. r \in rivals[p]
  <2> SUFFICES ASSUME r \notin rivals[p] PROVE FALSE
    OBVIOUS
  <2>1. Late(p, r)
    BY <1>2 DEF Latecomers
  <2> QED BY <1>1, <1>2, <2>1, LateStep
<1> QED BY <1>1, <1>3, OwnPlace

\* A worker's lock is only taken away by one that was running when it got it:
\* the next start of the worker never does, whatever overlaps.
THEOREM LaterStartsAreHarmless == Spec => OnlyRivalsReplace
<1>1. Init => Latecomers
  BY LatecomersInit
<1>2. TypeOK /\ Latecomers /\ [Next]_vars => Latecomers'
  BY LatecomersStep
<1>3. TypeOK /\ Latecomers /\ [Next]_vars =>
        [\A p \in Process :
            (/\ pc[p] = "held" /\ pc'[p] = "held"
             /\ file # NoFile /\ file.of = Mine(p)
             /\ file' # file)
                => \E q \in rivals[p] : pc'[q] # pc[q]]_vars
  BY OnlyRivalsStep DEF Has
<1> QED BY <1>1, <1>2, <1>3, LockTypes, PTL DEF Spec, OnlyRivalsReplace

(***************************************************************************)
(* One holder                                                              *)
(***************************************************************************)

\* Tokens that the steps to come will create.
Unborn(p, b) == b > attempt[p] \/ (b = attempt[p] /\ pc[p] \in {"off", "open"})

Fresh ==
    \A p \in Process, b \in 1..3 :
        Unborn(p, b) =>
            /\ file # NoFile => file.of # <<p, b>>
            /\ \A q \in Process : seen[q] # <<p, b>>
            /\ <<p, b>> \notin old

OffFirst == \A p \in Process : pc[p] = "off" => attempt[p] = 1

LEMMA FreshInit == Init => Fresh /\ OffFirst
<1> SUFFICES ASSUME Init PROVE Fresh /\ OffFirst
  OBVIOUS
<1>1. \A p \in Process, b \in 1..3 : <<p, b>> # NoFile
  BY LockAssumption
<1> QED BY <1>1 DEF Init, Fresh, OffFirst

LEMMA FreshStep == TypeOK /\ Fresh /\ OffFirst /\ [Next]_vars => Fresh' /\ OffFirst'
<1> SUFFICES ASSUME TypeOK, Fresh, OffFirst, [Next]_vars PROVE Fresh' /\ OffFirst'
  OBVIOUS
<1>1. CASE UNCHANGED vars
  BY <1>1 DEF vars, Fresh, OffFirst, Unborn
<1>2. ASSUME NEW t \in Token, Age(t) PROVE Fresh' /\ OffFirst'
  BY <1>2 DEF Age, Fresh, OffFirst, Unborn
<1>3. ASSUME NEW p \in Process, Acts(p) PROVE Fresh' /\ OffFirst'
  <2>1. OffFirst'
    BY <1>3, OwnPlace DEF OffFirst
  <2>2. /\ attempt'[p] \in 1..3 /\ attempt[p] \in 1..3
        /\ \/ attempt'[p] = attempt[p] + 1 /\ pc'[p] = "open"
           \/ attempt'[p] = attempt[p] /\ (pc'[p] = "open" => pc[p] = "off")
    <3>1. CASE NextAttempt(p)
      BY <3>1, NextAttemptTyped DEF TypeOK
    <3>2. CASE Start(p) \/ Open(p) \/ Write(p) \/ WriteFails(p) \/ Check(p)
      BY <3>2 DEF Start, Open, Write, WriteFails, Check, At, Goes, TypeOK
    <3>3. CASE Release(p) \/ Remove(p) \/ Crash(p)
      BY <3>3 DEF Release, Remove, Crash, At, Goes, TypeOK
    <3>4. CASE Stat(p) \/ Read(p) \/ Again(p) \/ Unlink(p)
      BY <3>1, <3>4 DEF Stat, Read, Again, Unlink, At, Goes, TypeOK
    <3> QED BY <1>3, <3>2, <3>3, <3>4 DEF Acts
  <2>3. \A q \in Process, b \in 1..3 : Unborn(q, b)' => Unborn(q, b)
    BY <1>3, <2>2, OwnPlace DEF Unborn, TypeOK
  <2>4. \/ file' = NoFile
        \/ file # NoFile /\ file'.of = file.of
        \/ file'.of = Mine(p) /\ pc'[p] = "write" /\ attempt'[p] = attempt[p]
    <3>1. CASE Open(p)
      BY <3>1 DEF Open, At, Goes, TypeOK
    <3>2. CASE Write(p)
      BY <3>2, FileFields DEF Write, TypeOK, FileRecord
    <3>3. CASE ~Open(p) /\ ~Write(p)
      BY <1>3, <3>3
      DEF Acts, Start, WriteFails, Stat, Read, Check, Again, Unlink, Release, Remove, Crash
    <3> QED BY <3>1, <3>2, <3>3
  <2>5. seen'[p] = seen[p] \/ seen'[p] = NoFile \/ (file # NoFile /\ seen'[p] = file.of)
    <3>1. CASE NextAttempt(p)
      BY <3>1, NextAttemptTyped
    <3>2. CASE Stat(p) \/ Read(p)
      BY <3>1, <3>2 DEF Stat, Read, TypeOK
    <3>3. CASE ~Stat(p) /\ ~Read(p) /\ ~NextAttempt(p)
      BY <1>3, <3>3
      DEF Acts, Start, Open, Write, WriteFails, Check, Again, Unlink, Release, Remove, Crash
    <3> QED BY <3>1, <3>2, <3>3
  <2>6. old' = old
    BY <1>3
    DEF Acts, Start, Open, Write, WriteFails, Stat, Read, Check, Again, Unlink,
        Release, Remove, Crash
  <2>7. ASSUME NEW q \in Process, NEW b \in 1..3, Unborn(q, b)'
        PROVE  /\ file' # NoFile => file'.of # <<q, b>>
               /\ \A r \in Process : seen'[r] # <<q, b>>
               /\ <<q, b>> \notin old'
    <3>0. Unborn(q, b)
      BY <2>3, <2>7
    <3>1. <<q, b>> # NoFile
      BY LockAssumption
    <3>2. file' # NoFile => file'.of # <<q, b>>
      <4>1. CASE file'.of = Mine(p) /\ pc'[p] = "write" /\ attempt'[p] = attempt[p]
        BY <2>7, <4>1, Pairs DEF Unborn, Mine, TypeOK
      <4> QED BY <2>4, <3>0, <4>1 DEF Fresh
    <3>3. \A r \in Process : seen'[r] # <<q, b>>
      BY ZenonT(30), <1>3, <2>5, <3>0, <3>1, OwnPlace DEF Fresh
    <3> QED BY <2>6, <3>0, <3>2, <3>3 DEF Fresh
  <2> QED BY <2>1, <2>7 DEF Fresh
<1> QED BY <1>1, <1>2, <1>3, Steps

\* Whose the file is, at every place of a worker.
Place(p) ==
    /\ Holds(p) => file # NoFile /\ file.of = Mine(p) /\ file.written
    /\ pc[p] = "write" =>
         /\ file # NoFile /\ file.of = Mine(p) /\ ~file.written
         /\ Mine(p) \notin old
    /\ pc[p] = "read" => file # NoFile /\ file.of = seen[p]
    /\ pc[p] \in {"check", "again"} => seen[p] \in Token
    /\ pc[p] = "again" => pc[seen[p][1]] \in {"refused", "gone"}
    /\ pc[p] = "unlink" =>
         \A q \in Process : ~Holds(q) /\ pc[q] # "write"

LInv == TypeOK /\ Fresh /\ OffFirst /\ \A p \in Process : Place(p)

\* After a calm step, nobody was about to remove the file.
LEMMA CalmStep ==
    ASSUME calm', NEW p \in Process, NEW r \in Process \ {p}, Acts(r),
           ~Crash(r)
    PROVE  pc[p] \notin {"read", "unlink"}
BY DEF Acts, Start, Open, Write, WriteFails, Stat, Read, Check, Again, Unlink,
       Release, Remove, At, Others, Alive, Undisturbed

LEMMA CalmBefore == TypeOK /\ [Next]_vars /\ calm' => calm
<1> SUFFICES ASSUME TypeOK, [Next]_vars, calm' PROVE calm
  OBVIOUS
<1>1. ASSUME NEW p \in Process, Acts(p) PROVE calm
  BY <1>1
  DEF Acts, Start, Open, Write, WriteFails, Stat, Read, Check, Again, Unlink,
      Release, Remove, Crash, At
<1> QED BY <1>1, Steps DEF Age, vars

\* The file is of one worker at most.
LEMMA OneOwner ==
    ASSUME LInv, NEW p \in Process, NEW q \in Process,
           Holds(p) \/ pc[p] = "write", Holds(q) \/ pc[q] = "write"
    PROVE  p = q
<1>1. file.of = Mine(p) /\ file.of = Mine(q)
  BY DEF LInv, Place
<1> QED BY <1>1, Pairs DEF LInv

\* The owner of a file that somebody has looked at has been started.
LEMMA Started ==
    ASSUME LInv, NEW p \in Process, seen[p] \in Token
    PROVE  seen[p][1] \in Process /\ pc[seen[p][1]] # "off"
<1>1. PICK q \in Process, b \in 1..3 : seen[p] = <<q, b>>
  BY DEF Token
<1>2. ~Unborn(q, b)
  BY <1>1 DEF LInv, Fresh
<1>3. pc[q] # "off"
  BY <1>2 DEF Unborn, LInv, OffFirst, TypeOK
<1> QED BY <1>1, <1>3

\* What a step that is not p's must leave to keep p's place.
LEMMA PlaceKept ==
    ASSUME LInv, NEW p \in Process, NEW r \in Process \ {p}, Acts(r),
           Holds(p) \/ pc[p] \in {"write", "read"} => file' = file,
           pc[p] = "unlink" => ~Holds(r)' /\ pc'[r] # "write"
    PROVE  Place(p)'
<1>1. pc'[p] = pc[p] /\ attempt'[p] = attempt[p] /\ seen'[p] = seen[p] /\ old' = old
  BY OwnPlace
  DEF LInv, Acts, Start, Open, Write, WriteFails, Stat, Read, Check, Again,
      Unlink, Release, Remove, Crash
<1>2. Place(p)
  BY DEF LInv
<1>3. pc[p] = "again" => pc'[seen[p][1]] \in {"refused", "gone"}
  <2> SUFFICES ASSUME pc[p] = "again" PROVE pc'[seen[p][1]] \in {"refused", "gone"}
    OBVIOUS
  <2>1. pc[seen[p][1]] \in {"refused", "gone"} /\ seen[p][1] \in Process
    BY <1>2, Started DEF Place
  <2>2. seen[p][1] # r
    BY <2>1
    DEF Acts, Start, Open, Write, WriteFails, Stat, Read, Check, Again,
        Unlink, Release, Remove, Crash, At, Alive
  <2> QED BY <2>1, <2>2, OwnPlace DEF LInv
<1>4. pc[p] = "unlink" => \A q \in Process : ~Holds(q)' /\ pc'[q] # "write"
  BY <1>2, OwnPlace DEF Place, Holds, LInv
<1>5. (Holds(p) \/ pc[p] = "write") => Mine(p)' = Mine(p) /\ file' = file
  BY <1>1 DEF Mine
<1> QED BY <1>1, <1>2, <1>3, <1>4, <1>5 DEF Place, Holds

LEMMA PlacesOfOthers ==
    ASSUME calm', LInv, NEW p \in Process, NEW r \in Process \ {p}, Acts(r)
    PROVE  Place(p)'
<1>1. CASE Crash(r)
  BY <1>1, PlaceKept DEF Crash, Goes, Holds, LInv, TypeOK
<1>2. CASE ~Crash(r)
  <2>1. pc[p] \notin {"read", "unlink"}
    BY <1>2, CalmStep
  <2>2. (Holds(p) \/ pc[p] = "write") => file' = file
    <3> SUFFICES ASSUME Holds(p) \/ pc[p] = "write" PROVE file' = file
      OBVIOUS
    <3>1. file # NoFile /\ ~Holds(r) /\ pc[r] # "write"
      BY OneOwner DEF LInv, Place
    <3>2. pc[r] # "unlink"
      BY DEF LInv, Place
    <3> QED
      BY <1>2, <3>1, <3>2
      DEF Acts, Start, Open, Write, WriteFails, Stat, Read, Check, Again,
          Unlink, Release, Remove, At, Holds
  <2> QED BY <2>1, <2>2, PlaceKept
<1> QED BY <1>1, <1>2

LEMMA OwnPlaceKept ==
    ASSUME calm', LInv, NEW p \in Process, Acts(p)
    PROVE  Place(p)'
<1>1. TypeOK /\ Place(p)
  BY DEF LInv
<1>2. CASE pc'[p] \in {"open", "stat", "refused", "gone"}
  BY <1>2 DEF Place, Holds
<1>3. CASE Open(p) /\ pc'[p] = "write"
  <2>1. file' = [of |-> Mine(p), written |-> FALSE] /\ file' # NoFile
    BY <1>1, <1>3, Pairs, FileFields DEF Open, Goes, TypeOK, FileRecord
  <2>2. Mine(p)' = Mine(p) /\ old' = old
    BY <1>3 DEF Open, Mine
  <2>3. Mine(p) \notin old
    BY <1>1, <1>3 DEF LInv, Fresh, Unborn, Open, At, Mine, TypeOK
  <2> QED BY <1>3, <2>1, <2>2, <2>3 DEF Place, Holds
<1>4. CASE Write(p)
  <2>1. file # NoFile /\ file.of = Mine(p) /\ Mine(p)' = Mine(p) /\ pc'[p] = "held"
    BY <1>1, <1>4 DEF Place, Write, At, Goes, Mine, TypeOK
  <2>2. file' = [file EXCEPT !.written = TRUE]
    BY <1>4, <2>1 DEF Write
  <2>3. file' \in FileRecord /\ file'.of = Mine(p) /\ file'.written
    BY <1>1, <2>1, <2>2 DEF TypeOK, FileRecord
  <2> QED BY <2>1, <2>3, FileFields DEF Place, Holds
<1>5. CASE Stat(p) /\ pc'[p] = "read"
  BY <1>1, <1>5, NextAttemptTyped DEF Place, Holds, Stat, Goes, TypeOK
<1>6. CASE Read(p) /\ pc'[p] \in {"check", "unlink"}
  <2>1. file # NoFile /\ file.of = seen[p] /\ file.of \in Token
    BY <1>1, <1>6, FileFields DEF Place, Read, At, TypeOK, FileRecord
  <2>2. CASE pc'[p] = "check"
    BY <1>1, <1>6, <2>1, <2>2 DEF Place, Holds, Read, Goes, TypeOK
  <2>3. CASE pc'[p] = "unlink"
    <3>1. ~file.written /\ seen[p] \in old
      BY <1>1, <1>6, <2>1, <2>3 DEF Read, Goes, Initializing, TypeOK
    <3>2. \A q \in Process : ~Holds(q) /\ pc[q] # "write"
      BY <2>1, <3>1 DEF LInv, Place
    <3>3. \A q \in Process : ~Holds(q)' /\ pc'[q] # "write"
      BY <1>1, <2>3, <3>2, OwnPlace DEF Holds
    <3> QED BY <2>3, <3>3 DEF Place, Holds
  <2> QED BY <1>6, <2>2, <2>3
<1>7. CASE Check(p) /\ pc'[p] = "again"
  <2>1. ~OwnerAlive(p) /\ seen' = seen /\ seen[p] \in Token
    BY <1>1, <1>7 DEF Place, Check, At, Goes, TypeOK
  <2>2. pc[seen[p][1]] \in {"refused", "gone"}
    BY <2>1, Started DEF OwnerAlive, Alive
  <2>3. seen[p][1] # p /\ seen[p][1] \in Process
    BY <1>7, <2>1, <2>2, Started DEF Check, At
  <2>4. pc'[seen[p][1]] \in {"refused", "gone"}
    BY <1>1, <2>2, <2>3, OwnPlace
  <2> QED BY <1>7, <2>1, <2>4 DEF Place, Holds
<1>8. CASE Again(p) /\ pc'[p] = "unlink"
  <2>1. pc[p] = "again" /\ file # NoFile /\ file.of = seen[p]
    BY <1>1, <1>8, NextAttemptTyped DEF Again, At, Goes, Same, TypeOK
  <2>2. pc[seen[p][1]] \in {"refused", "gone"}
    BY <1>1, <2>1 DEF Place
  <2>3. \A q \in Process : ~Holds(q) /\ pc[q] # "write"
    <3> SUFFICES ASSUME NEW q \in Process, Holds(q) \/ pc[q] = "write" PROVE FALSE
      OBVIOUS
    <3>1. file.of = Mine(q)
      BY DEF LInv, Place
    <3> QED BY <1>1, <2>1, <2>2, <3>1, Pairs DEF Holds
  <2>4. \A q \in Process : ~Holds(q)' /\ pc'[q] # "write"
    BY <1>1, <1>8, <2>3, OwnPlace DEF Holds
  <2> QED BY <1>8, <2>4 DEF Place, Holds
<1>9. CASE Release(p) /\ pc'[p] = "releasing"
  <2>1. Holds(p) /\ file' = file /\ Mine(p)' = Mine(p)
    BY <1>9 DEF Release, At, Holds, Mine
  <2> QED BY <1>1, <1>9, <2>1 DEF Place, Holds
<1>10. CASE NextAttempt(p)
  BY <1>1, <1>2, <1>10, NextAttemptTyped
<1>11. CASE Start(p) \/ WriteFails(p) \/ Remove(p) \/ Crash(p)
  BY <1>1, <1>2, <1>11 DEF Start, WriteFails, Remove, Crash, Goes, TypeOK
<1>12. CASE Open(p)
  BY <1>1, <1>2, <1>3, <1>12 DEF Open, Goes, TypeOK
<1>13. CASE Stat(p) \/ Unlink(p)
  BY <1>1, <1>5, <1>10, <1>13 DEF Stat, Unlink, Goes, TypeOK
<1>14. CASE Read(p)
  BY <1>1, <1>2, <1>6, <1>10, <1>14 DEF Read, Goes, TypeOK
<1>15. CASE Check(p) \/ Release(p)
  BY <1>1, <1>2, <1>7, <1>9, <1>15 DEF Check, Release, Goes, TypeOK
<1>16. CASE Again(p)
  BY <1>1, <1>2, <1>8, <1>10, <1>16 DEF Again, Goes, TypeOK
<1> QED BY <1>4, <1>11, <1>12, <1>13, <1>14, <1>15, <1>16 DEF Acts

\* As long as it is calm, everybody's place is as it should be.
LockInv == TypeOK /\ Fresh /\ OffFirst /\ (calm => \A p \in Process : Place(p))

LEMMA LockInit == Init => LockInv
<1>1. Init => TypeOK
  BY DEF Init, TypeOK
<1>2. Init => \A p \in Process : Place(p)
  BY DEF Init, Place, Holds
<1> QED BY <1>1, <1>2, FreshInit DEF LockInv

LEMMA LockStep == LockInv /\ TypeOK' /\ [Next]_vars => LockInv'
<1> SUFFICES ASSUME LockInv, TypeOK', [Next]_vars PROVE LockInv'
  OBVIOUS
<1>1. Fresh' /\ OffFirst'
  BY FreshStep DEF LockInv
<1>2. ASSUME calm' PROVE \A p \in Process : Place(p)'
  <2>0. LInv
    BY <1>2, CalmBefore DEF LockInv, LInv
  <2>1. CASE UNCHANGED vars
    BY <2>0, <2>1 DEF vars, LInv, Place, Holds, Mine
  <2>2. ASSUME NEW t \in Token, Age(t), NEW p \in Process PROVE Place(p)'
    <3>1. pc[p] = "write" => Mine(p) # t
      BY <1>2, <2>0, <2>2, Pairs DEF Age, LInv
    <3> QED BY <2>0, <2>2, <3>1 DEF Age, LInv, Place, Holds, Mine
  <2>3. ASSUME NEW r \in Process, Acts(r), NEW p \in Process PROVE Place(p)'
    BY <1>2, <2>0, <2>3, PlacesOfOthers, OwnPlaceKept
  <2> QED BY <2>1, <2>2, <2>3, Steps
<1> QED BY <1>1, <1>2 DEF LockInv

\* Unless somebody acts between a worker's last look at the file and its
\* removal, or needs ten seconds to write its record, the file is that of the
\* worker which holds the lock.
THEOREM HolderHasTheFile == Spec => []Exclusion
<1>1. LockInv => Exclusion
  <2> SUFFICES ASSUME LockInv, calm, NEW p \in Process, Holds(p)
               PROVE  file = [of |-> Mine(p), written |-> TRUE]
    BY DEF Exclusion
  <2>1. file # NoFile /\ file.of = Mine(p) /\ file.written
    BY DEF LockInv, Place
  <2>2. file \in FileRecord /\ file.written = TRUE
    BY <2>1 DEF LockInv, TypeOK, FileRecord
  <2> QED BY <2>1, <2>2, FileFields
<1>2. Spec => []LockInv
  BY LockInit, LockStep, LockTypes, PTL DEF Spec
<1> QED BY <1>1, <1>2, PTL

\* And so there is one such worker at most.
THEOREM OneHolder ==
    Spec => [](calm => \A p, q \in Process : Holds(p) /\ Holds(q) => p = q)
<1>1. TypeOK /\ Exclusion
        => (calm => \A p, q \in Process : Holds(p) /\ Holds(q) => p = q)
  <2> SUFFICES ASSUME TypeOK, Exclusion, calm, NEW p \in Process,
                      NEW q \in Process, Holds(p), Holds(q)
               PROVE  p = q
    OBVIOUS
  <2>1. file.of = Mine(p) /\ file.of = Mine(q)
    BY DEF Exclusion
  <2> QED BY <2>1, Pairs
<1> QED BY <1>1, HolderHasTheFile, LockTypes, PTL

(***************************************************************************)
(* Running alone                                                           *)
(***************************************************************************)

\* The way of a worker that runs alone: at its first attempt it may meet the
\* file of another, which is dead, and removes it; it finds none at the second.
Way(p) ==
    /\ \A q \in Process \ {p} : ~Alive(q)
    /\ pc[p] \in {"open", "stat", "read", "check", "again", "unlink"} =>
         \/ pc[p] = "open" /\ attempt[p] = 2 /\ file = NoFile
         \/ /\ attempt[p] = 1
            /\ file = NoFile => pc[p] = "open"
            /\ file # NoFile => file.of[1] # p
    /\ pc[p] \in {"check", "again"} => file.written /\ seen[p] = file.of
    /\ pc[p] = "refused" => file # NoFile /\ ~file.written

AloneInv == TypeOK /\ Fresh /\ OffFirst /\ \A p \in alone : Way(p)

\* A worker that has not started has not created a file.
LEMMA NothingOfItsOwn ==
    ASSUME TypeOK, Fresh, OffFirst, NEW p \in Process, pc[p] = "off", file # NoFile
    PROVE  file.of[1] # p
<1>1. file.of \in Token
  BY FileFields DEF TypeOK, FileRecord
<1>2. ASSUME NEW b \in 1..3 PROVE file.of # <<p, b>>
  <2>1. Unborn(p, b)
    BY DEF Unborn, OffFirst
  <2> QED BY <2>1 DEF Fresh
<1> QED BY <1>1, <1>2 DEF Token

\* Who is alone after a step of a worker is that worker, and was alone before,
\* unless it starts.
LEMMA StaysAlone ==
    ASSUME TypeOK, NEW p \in Process, Acts(p), NEW q \in alone'
    PROVE  /\ q = p
           /\ p \in alone \/ (Start(p) /\ Others(p) = {})
<1>1. CASE Start(p)
  BY <1>1 DEF Start
<1>2. CASE ~Start(p)
  BY <1>2 DEF Acts, Open, Write, WriteFails, Stat, Read, Check, Again, Unlink,
              Release, Remove, Crash, At
<1> QED BY <1>1, <1>2

LEMMA StartsItsWay ==
    ASSUME TypeOK, Fresh, OffFirst, NEW p \in Process, Start(p), Others(p) = {}
    PROVE  Way(p)'
<1>1. \A q \in Process \ {p} : ~Alive(q)'
  BY DEF Start, Others, Alive, Goes, TypeOK
<1>2. file # NoFile => file.of[1] # p
  BY NothingOfItsOwn DEF Start
<1>3. pc'[p] = "open" /\ attempt'[p] = 1 /\ file' = file
  BY DEF Start, Goes, OffFirst, TypeOK
<1> QED BY <1>1, <1>2, <1>3 DEF Way

\* Each step leads on, or to a refusal for the one cause.
LEMMA KeepsItsWay ==
    ASSUME TypeOK, NEW p \in Process, Way(p), Acts(p), ~Start(p)
    PROVE  Way(p)'
<1>1. \A q \in Process \ {p} : ~Alive(q)'
  BY OwnPlace DEF Way, Alive
<1>2. CASE Open(p)
  BY <1>1, <1>2 DEF Open, At, Goes, Way, TypeOK
<1>3. CASE Write(p) \/ WriteFails(p)
  BY <1>1, <1>3 DEF Write, WriteFails, At, Goes, Way, TypeOK
<1>4. CASE Stat(p)
  BY <1>1, <1>4 DEF Stat, At, Goes, Way, TypeOK
<1>5. CASE Read(p)
  BY <1>1, <1>5 DEF Read, At, Goes, Way, TypeOK
<1>6. CASE Check(p)
  <2>1. file # NoFile /\ file.of \in Token /\ seen[p] = file.of /\ file.of[1] # p
    BY <1>6, FileFields DEF Check, At, Way, TypeOK, FileRecord
  <2>2. ~OwnerAlive(p)
    BY <2>1 DEF Way, OwnerAlive, Token
  <2> QED BY <1>1, <1>6, <2>1, <2>2 DEF Check, At, Goes, Way, TypeOK
<1>7. CASE Again(p)
  <2>1. file # NoFile /\ file.written /\ Same(p)
    BY <1>7 DEF Again, At, Way, Same
  <2> QED BY <1>1, <1>7, <2>1 DEF Again, At, Goes, Way, TypeOK
<1>8. CASE Unlink(p)
  <2>1. attempt[p] = 1 /\ file' = NoFile
    BY <1>8 DEF Unlink, At, Way
  <2>2. pc'[p] = "open" /\ attempt'[p] = 2
    BY <1>8, <2>1 DEF Unlink, NextAttempt, Attempts, Goes, TypeOK
  <2> QED BY <1>1, <2>1, <2>2 DEF Way
<1>9. CASE Release(p) \/ Remove(p) \/ Crash(p)
  BY <1>1, <1>9 DEF Release, Remove, Crash, At, Alive, Goes, Way, TypeOK
<1> QED BY <1>2, <1>3, <1>4, <1>5, <1>6, <1>7, <1>8, <1>9 DEF Acts

LEMMA AloneStep == AloneInv /\ TypeOK' /\ [Next]_vars => AloneInv'
<1> SUFFICES ASSUME AloneInv, TypeOK', [Next]_vars PROVE AloneInv'
  OBVIOUS
<1>1. Fresh' /\ OffFirst'
  BY FreshStep DEF AloneInv
<1>2. ASSUME NEW q \in alone' PROVE Way(q)'
  <2>0. TypeOK /\ Fresh /\ OffFirst /\ (q \in alone => Way(q))
    BY DEF AloneInv
  <2>1. CASE UNCHANGED vars
    BY <1>2, <2>0, <2>1 DEF vars, Way, Alive
  <2>2. ASSUME NEW t \in Token, Age(t) PROVE Way(q)'
    BY <1>2, <2>0, <2>2 DEF Age, Way, Alive
  <2>3. ASSUME NEW p \in Process, Acts(p) PROVE Way(q)'
    <3>1. q = p /\ (p \in alone \/ (Start(p) /\ Others(p) = {}))
      BY <1>2, <2>0, <2>3, StaysAlone
    <3>2. CASE Start(p) /\ Others(p) = {}
      BY <2>0, <3>1, <3>2, StartsItsWay
    <3>3. CASE Start(p) /\ Others(p) # {}
      BY <1>2, <3>3 DEF Start
    <3>4. CASE ~Start(p)
      BY <2>0, <2>3, <3>1, <3>4, KeepsItsWay
    <3> QED BY <3>2, <3>3, <3>4
  <2> QED BY <2>1, <2>2, <2>3, Steps
<1> QED BY <1>1, <1>2 DEF AloneInv

\* A worker that has run alone since it started is only refused because of a
\* file without a record; whatever dead workers left behind with a record it
\* removes, and gets the lock at its second attempt.
THEOREM LoneWorkerIsRefusedForCause == Spec => []RefusedForCause
<1>1. Init => AloneInv
  <2>1. Init => TypeOK
    BY DEF Init, TypeOK
  <2> QED BY <2>1, FreshInit DEF Init, AloneInv
<1>2. AloneInv => RefusedForCause
  BY DEF AloneInv, Way, RefusedForCause
<1> QED BY <1>1, <1>2, AloneStep, LockTypes, PTL DEF Spec

=============================================================================
