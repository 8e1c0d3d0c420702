-------------------------- MODULE ContainerProofs --------------------------
(***************************************************************************)
(* Theorems of Container, for any number of threads, jobs and handles: what *)
(* a failed Spawn leaves, what is done to a process before it executes, how *)
(* long what a thread borrows from the policy stays open, that a new process *)
(* is what the policy and the options ask for, and that a client sees all of *)
(* this as the one step of Sandbox.                                         *)
(* Inv follows each process through Spawn: who owns its job, and how much   *)
(* of it is done at each place.  Borrowing says who fills which cache, and  *)
(* Faithful what is in it.                                                  *)
(***************************************************************************)
EXTENDS Container, FilteringProofs

Held == {"options", "create", "assign", "harden", "hand over", "spawned"}
Process == [state : {"suspended", "running"}, quiet : BOOLEAN, in_job : BOOLEAN]

Shape ==
  /\ pc \in [Spawners -> Locations]
  /\ job \in [Spawners -> Jobs \cup {NoJob}]
  /\ handle \in [Jobs -> BOOLEAN]
  /\ limits \in [Jobs -> SUBSET {"kill", "options"}]
  /\ process \in [Jobs -> {NoProcess} \cup Process]

(* A job belongs to at most one thread, from MakeJobObject on. *)
JobsAreHeld ==
  /\ \A s \in Spawners : pc[s] \in Held <=> job[s] # NoJob
  /\ \A s \in Spawners : job[s] # NoJob => handle[job[s]]
  /\ \A s, u \in Spawners : job[s] = job[u] /\ job[s] # NoJob => s = u

(* How far the process is that a thread prepares or owns. *)
Prepared(s) ==
  /\ pc[s] \in {"options", "create"} => process[job[s]] = NoProcess
  /\ pc[s] \in {"assign", "harden", "hand over", "spawned"} =>
       process[job[s]] \in Process
  /\ pc[s] \in {"assign", "harden", "hand over"} =>
       process[job[s]].state = "suspended"
  /\ pc[s] \in {"harden", "hand over", "spawned"} => process[job[s]].in_job
  /\ pc[s] \in {"hand over", "spawned"} => process[job[s]].quiet

ProcessFollowsSpawn == \A s \in Spawners : Prepared(s)

(* A process nobody owns is in a job that was not to kill it. *)
LeftBehind ==
  \A j \in Jobs : process[j] # NoProcess =>
    \/ \E s \in Spawners : job[s] = j
    \/ process[j].in_job /\ "kill" \notin limits[j]

Inv == /\ Shape
       /\ JobsAreHeld
       /\ ProcessFollowsSpawn
       /\ LeftBehind
       /\ NothingRunsUncontained

-----------------------------------------------------------------------------
(* NoProcess is no process. *)
LEMMA NoProcessIsNone == NoProcess \notin Process /\ NoProcess.state = "none"
  BY DEF NoProcess, Process

(* No thread has made anything yet.                                         *)
LEMMA InvInit == Init => Inv
  BY NoProcessIsNone
  DEF Init, Inv, Shape, Locations, Held, JobsAreHeld, Prepared,
      ProcessFollowsSpawn, LeftBehind, NothingRunsUncontained

(* Closing the job of a thread that then holds none preserves Inv, if what *)
(* it leaves there may be left.                                            *)
LEMMA Closing ==
  ASSUME Inv, NEW s \in Spawners, pc[s] \in Held,
         NEW p \in {NoProcess} \cup Process, CloseJob(s, p),
         pc' = [pc EXCEPT ![s] = "idle"],
         p # NoProcess => p = process[job[s]],
         p # NoProcess => p.in_job
  PROVE  Inv'
<1> USE ContainerAssumption, NoProcessIsNone DEF Inv, Shape
<1> DEFINE j == job[s]
<1>1. j \in Jobs
  BY DEF JobsAreHeld
<1>2. /\ handle' = [handle EXCEPT ![j] = FALSE]
      /\ job' = [job EXCEPT ![s] = NoJob]
      /\ \/ /\ process' = [process EXCEPT ![j] = NoProcess]
            /\ limits' = [limits EXCEPT ![j] = {}]
         \/ /\ process' = process /\ limits' = limits
            /\ process[j].in_job /\ "kill" \notin limits[j]
  <2>1. CASE p = NoProcess \/ "kill" \in limits[j]
    BY <1>1, <2>1 DEF CloseJob, Dies
  <2>2. CASE p # NoProcess /\ "kill" \notin limits[j]
    <3>1. p = process[j] /\ p.in_job
      BY <2>2
    <3>2. process' = process /\ limits' = limits
      BY <1>1, <2>2, <3>1 DEF CloseJob, Dies
    <3> QED BY <1>1, <2>2, <3>1, <3>2 DEF CloseJob
  <2> QED BY <2>1, <2>2
<1>3. Shape'
  BY <1>1, <1>2 DEF Locations
<1>4. JobsAreHeld'
  BY <1>1, <1>2 DEF JobsAreHeld, Held, Locations
<1>5. ProcessFollowsSpawn'
  <2> SUFFICES ASSUME NEW u \in Spawners PROVE Prepared(u)'
    BY DEF ProcessFollowsSpawn
  <2>1. CASE u = s
    BY <2>1 DEF Prepared
  <2>2. CASE u # s /\ pc[u] \in Held
    <3>1. job'[u] = job[u] /\ pc'[u] = pc[u] /\ process'[job[u]] = process[job[u]]
      BY <1>1, <1>2, <2>2 DEF JobsAreHeld
    <3>2. Prepared(u)
      BY DEF ProcessFollowsSpawn
    <3> QED BY ONLY <3>1, <3>2 DEF Prepared
  <2>3. CASE u # s /\ pc[u] \notin Held
    BY <2>3 DEF Prepared, Held
  <2> QED BY <2>1, <2>2, <2>3
<1>6. LeftBehind'
  BY <1>1, <1>2 DEF LeftBehind
<1>7. NothingRunsUncontained'
  BY <1>1, <1>2 DEF NothingRunsUncontained
<1> QED BY <1>3, <1>4, <1>5, <1>6, <1>7

(* What Spawn does before it has a job, or in making none, preserves Inv. *)
LEMMA Early ==
  ASSUME Inv, NEW s \in Spawners, NEW x \in Locations \ Held, pc[s] \notin Held,
         pc' = [pc EXCEPT ![s] = x], UNCHANGED <<job, jobs>>
  PROVE  Inv'
<1> USE DEF Inv, Shape, jobs
<1>1. Shape' /\ JobsAreHeld'
  BY DEF JobsAreHeld
<1>2. ProcessFollowsSpawn'
  <2> SUFFICES ASSUME NEW u \in Spawners PROVE Prepared(u)'
    BY DEF ProcessFollowsSpawn
  <2> QED BY DEF ProcessFollowsSpawn, Prepared, Held
<1>3. LeftBehind' /\ NothingRunsUncontained'
  BY DEF LeftBehind, NothingRunsUncontained
<1> QED BY <1>1, <1>2, <1>3

(* What a thread does to its own job and process preserves Inv, if the      *)
(* process is then as far as its place in Spawn says.                       *)
LEMMA Preparing ==
  ASSUME Inv, NEW s \in Spawners, pc[s] \in Held, NEW x \in Held,
         NEW q \in {NoProcess} \cup Process, NEW l \in SUBSET {"kill", "options"},
         pc' = [pc EXCEPT ![s] = x],
         process' = [process EXCEPT ![job[s]] = q],
         limits' = [limits EXCEPT ![job[s]] = l],
         UNCHANGED <<job, handle>>,
         Prepared(s)',
         q.state = "running" => q.in_job /\ q.quiet
  PROVE  Inv'
<1> USE ContainerAssumption DEF Inv, Shape
<1> DEFINE j == job[s]
<1>1. j \in Jobs
  BY DEF JobsAreHeld
<1>2. Shape' /\ JobsAreHeld'
  BY <1>1 DEF JobsAreHeld, Held, Locations
<1>3. ProcessFollowsSpawn'
  <2> SUFFICES ASSUME NEW u \in Spawners, u # s PROVE Prepared(u)'
    BY DEF ProcessFollowsSpawn
  <2>1. CASE pc[u] \in Held
    <3>1. job'[u] = job[u] /\ pc'[u] = pc[u] /\ process'[job[u]] = process[job[u]]
      BY <1>1, <2>1 DEF JobsAreHeld
    <3>2. Prepared(u)
      BY DEF ProcessFollowsSpawn
    <3> QED BY ONLY <3>1, <3>2 DEF Prepared
  <2>2. CASE pc[u] \notin Held
    BY <2>2 DEF Prepared, Held
  <2> QED BY <2>1, <2>2
<1>4. LeftBehind'
  BY <1>1 DEF LeftBehind
<1>5. NothingRunsUncontained'
  BY <1>1 DEF NothingRunsUncontained
<1> QED BY <1>2, <1>3, <1>4, <1>5

-----------------------------------------------------------------------------
(* A failure closes the job of a thread whose process, if it has one, is in *)
(* the job: the limit decides whether it dies.                              *)
LEMMA Failing ==
  ASSUME Inv, NEW s \in Spawners, GiveUp(s, pc[s]),
         pc[s] \in {"options", "create", "harden"}
  PROVE  Inv'
<1>1. /\ pc' = [pc EXCEPT ![s] = "idle"]
      /\ CloseJob(s, process[job[s]])
  BY DEF GiveUp, Goto
<1>2. /\ pc[s] \in Held
      /\ process[job[s]] \in {NoProcess} \cup Process
      /\ process[job[s]] # NoProcess => process[job[s]].in_job
  BY ContainerAssumption
  DEF Inv, Shape, JobsAreHeld, ProcessFollowsSpawn, Prepared, Held
<1> QED BY <1>1, <1>2, Closing

(* A step of a thread, or of its client, preserves Inv. *)
LEMMA InvStep ==
  ASSUME Inv, NEW s \in Spawners, Spawn(s) \/ StartTarget(s) \/ DestroyTarget(s)
  PROVE  Inv'
<1> USE DEF Inv
<1>1. CASE \/ CallSpawn(s) \/ GetPolicy(s) \/ BorrowToken(s) \/ NewToken(s)
           \/ CacheToken(s) \/ BorrowDesktop(s) \/ NewDesktop(s) \/ CacheDesktop(s)
           \/ ReadName(s)
  <2>1. pc[s] \notin Held /\ UNCHANGED <<job, jobs>>
    BY <1>1 DEF CallSpawn, GetPolicy, BorrowToken, NewToken, CacheToken, BorrowDesktop,
                NewDesktop, CacheDesktop, ReadName, GiveUpEarly, Goto, Held
  <2>2. \E x \in Locations \ Held : pc' = [pc EXCEPT ![s] = x]
    BY <1>1 DEF CallSpawn, GetPolicy, BorrowToken, NewToken, CacheToken, BorrowDesktop,
                NewDesktop, CacheDesktop, ReadName, GiveUpEarly, Goto, Held, Locations
  <2> QED BY <2>1, <2>2, Early
<1>2. CASE MakeJobObject(s)
  <2>1. CASE GiveUpEarly(s, "job")
    <3>1. /\ pc[s] \notin Held /\ UNCHANGED <<job, jobs>>
          /\ pc' = [pc EXCEPT ![s] = "idle"] /\ "idle" \in Locations \ Held
      BY <2>1 DEF GiveUpEarly, Goto, Held, Locations
    <3> QED BY <3>1, Early
  <2>2. ASSUME NEW j \in Jobs, ~handle[j], process[j] = NoProcess, pc[s] = "job",
               handle' = [handle EXCEPT ![j] = TRUE], UNCHANGED process,
               NEW l \in SUBSET {"kill", "options"},
               limits' = [limits EXCEPT ![j] = l],
               pc' = [pc EXCEPT ![s] = "options"],
               job' = [job EXCEPT ![s] = j]
        PROVE  Inv'
    <3> USE ContainerAssumption, <2>2 DEF Shape
    <3>1. Shape'
      BY DEF Locations
    <3>2. JobsAreHeld'
      BY DEF JobsAreHeld, Held
    <3>3. ProcessFollowsSpawn'
      <4> SUFFICES ASSUME NEW u \in Spawners PROVE Prepared(u)'
        BY DEF ProcessFollowsSpawn
      <4>1. CASE u = s
        BY <4>1 DEF Prepared
      <4>2. CASE u # s
        <5>1. job'[u] = job[u] /\ pc'[u] = pc[u] /\ process' = process
          BY <4>2
        <5>2. Prepared(u)
          BY DEF ProcessFollowsSpawn
        <5> QED BY ONLY <5>1, <5>2 DEF Prepared
      <4> QED BY <4>1, <4>2
    <3>4. LeftBehind'
      BY DEF LeftBehind, JobsAreHeld, Held
    <3>5. NothingRunsUncontained'
      BY DEF NothingRunsUncontained
    <3> QED BY <3>1, <3>2, <3>3, <3>4, <3>5
  <2>3. ASSUME NEW j \in Jobs, pc[s] = "job", pc' = [pc EXCEPT ![s] = "idle"],
               handle' = [handle EXCEPT ![j] = TRUE],
               UNCHANGED <<process, limits, job>>
        PROVE  Inv'
    <3> USE <2>3 DEF Shape
    <3>1. Shape' /\ JobsAreHeld'
      BY DEF Locations, JobsAreHeld, Held
    <3>2. ProcessFollowsSpawn'
      <4> SUFFICES ASSUME NEW u \in Spawners PROVE Prepared(u)'
        BY DEF ProcessFollowsSpawn
      <4> QED BY DEF ProcessFollowsSpawn, Prepared
    <3>3. LeftBehind' /\ NothingRunsUncontained'
      BY DEF LeftBehind, NothingRunsUncontained
    <3> QED BY <3>1, <3>2, <3>3
  <2> QED BY <1>2, <2>1, <2>2, <2>3 DEF MakeJobObject, Goto
<1>3. CASE ApplyOptions(s)
  <2>1. pc[s] = "options"
    BY <1>3 DEF ApplyOptions, GiveUp, Goto
  <2>2. CASE GiveUp(s, "options")
    BY <2>1, <2>2, Failing
  <2>3. CASE ~GiveUp(s, "options")
    <3>1. /\ job[s] \in Jobs /\ process[job[s]] = NoProcess
          /\ NoProcess.state # "running"
      BY <2>1, NoProcessIsNone
      DEF Shape, JobsAreHeld, ProcessFollowsSpawn, Prepared, Held
    <3>2. PICK l \in SUBSET {"kill", "options"} :
            limits' = [limits EXCEPT ![job[s]] = l]
      BY <1>3, <2>3, <3>1 DEF ApplyOptions, WithOptions, Shape
    <3>3. /\ pc' = [pc EXCEPT ![s] = "create"]
          /\ process' = [process EXCEPT ![job[s]] = NoProcess]
          /\ UNCHANGED <<job, handle>>
      BY <1>3, <2>3, <3>1 DEF ApplyOptions, Goto, Shape
    <3>4. Prepared(s)'
      BY <3>1, <3>3 DEF Prepared, Shape
    <3> QED BY <2>1, <3>1, <3>2, <3>3, <3>4, Preparing DEF Held
  <2> QED BY <2>2, <2>3
<1>4. CASE CreateProcess(s)
  <2>1. pc[s] = "create"
    BY <1>4 DEF CreateProcess, GiveUp, Goto
  <2>2. CASE GiveUp(s, "create")
    BY <2>1, <2>2, Failing
  <2>3. CASE ~GiveUp(s, "create")
    <3> DEFINE q == [state |-> "suspended", quiet |-> FALSE, in_job |-> FALSE]
    <3>1. job[s] \in Jobs
      BY <2>1 DEF Shape, JobsAreHeld, Held
    <3>2. q \in Process /\ q.state # "running"
      BY DEF Process
    <3>3. /\ pc' = [pc EXCEPT ![s] = "assign"]
          /\ process' = [process EXCEPT ![job[s]] = q]
          /\ limits' = [limits EXCEPT ![job[s]] = limits[job[s]]]
          /\ UNCHANGED <<job, handle>>
      BY <1>4, <2>3, <3>1 DEF CreateProcess, InitialState, Goto, Shape
    <3>4. Prepared(s)'
      BY <3>1, <3>2, <3>3 DEF Prepared, Shape
    <3>5. limits[job[s]] \in SUBSET {"kill", "options"}
      BY <3>1 DEF Shape
    <3> HIDE DEF q
    <3> QED BY <2>1, <3>2, <3>3, <3>4, <3>5, Preparing DEF Held
  <2> QED BY <2>2, <2>3
<1>5. CASE AssignProcess(s)
  <2>1. /\ pc[s] = "assign" /\ pc[s] \in Held /\ job[s] \in Jobs
        /\ process[job[s]] \in Process /\ process[job[s]].state = "suspended"
    BY <1>5 DEF AssignProcess, Goto, Shape, JobsAreHeld, Held,
                ProcessFollowsSpawn, Prepared
  <2>2. CASE pc' = [pc EXCEPT ![s] = "harden"]
    <3> DEFINE q == [process[job[s]] EXCEPT !.in_job = TRUE]
    <3>1. q \in Process /\ q.state = "suspended" /\ q.in_job
      BY <2>1 DEF Process
    <3>2. /\ process' = [process EXCEPT ![job[s]] = q]
          /\ limits' = [limits EXCEPT ![job[s]] = limits[job[s]]]
          /\ UNCHANGED <<job, handle>>
      BY <1>5, <2>1, <2>2 DEF AssignProcess, Goto, Shape
    <3> HIDE DEF q
    <3>3. Prepared(s)'
      BY <2>1, <2>2, <3>1, <3>2 DEF Prepared, Shape
    <3>4. limits[job[s]] \in SUBSET {"kill", "options"}
      BY <2>1 DEF Shape
    <3> QED BY <2>1, <2>2, <3>1, <3>2, <3>3, <3>4, Preparing DEF Held
  <2>3. CASE pc' = [pc EXCEPT ![s] = "idle"] /\ CloseJob(s, NoProcess)
    BY <2>1, <2>3, Closing
  <2> QED BY <1>5, <2>2, <2>3 DEF AssignProcess, Terminated, Goto
<1>6. CASE HardenProcess(s)
  <2>1. /\ pc[s] = "harden" /\ pc[s] \in Held /\ job[s] \in Jobs
        /\ process[job[s]] \in Process /\ process[job[s]].state = "suspended"
        /\ process[job[s]].in_job
    BY <1>6 DEF HardenProcess, GiveUp, Goto, Shape, JobsAreHeld, Held,
                ProcessFollowsSpawn, Prepared
  <2>2. CASE GiveUp(s, "harden")
    BY <2>1, <2>2, Failing
  <2>3. CASE ~GiveUp(s, "harden")
    <3> DEFINE q == [process[job[s]] EXCEPT !.quiet = TRUE]
    <3>1. q \in Process /\ q.state = "suspended" /\ q.in_job /\ q.quiet
      BY <2>1 DEF Process
    <3>2. /\ pc' = [pc EXCEPT ![s] = "hand over"]
          /\ process' = [process EXCEPT ![job[s]] = q]
          /\ limits' = [limits EXCEPT ![job[s]] = limits[job[s]]]
          /\ UNCHANGED <<job, handle>>
      BY <1>6, <2>1, <2>3 DEF HardenProcess, Goto, Shape
    <3> HIDE DEF q
    <3>3. Prepared(s)'
      BY <2>1, <3>1, <3>2 DEF Prepared, Shape
    <3>4. limits[job[s]] \in SUBSET {"kill", "options"}
      BY <2>1 DEF Shape
    <3> QED BY <2>1, <3>1, <3>2, <3>3, <3>4, Preparing DEF Held
  <2> QED BY <2>2, <2>3
<1>7. CASE HandOver(s) \/ StartTarget(s)
  <2>1. /\ pc[s] \in {"hand over", "spawned"} /\ pc[s] \in Held /\ job[s] \in Jobs
        /\ process[job[s]] \in Process
        /\ process[job[s]].in_job /\ process[job[s]].quiet
    BY <1>7 DEF HandOver, StartTarget, Goto, Shape, JobsAreHeld, Held,
                ProcessFollowsSpawn, Prepared
  <2>2. PICK q \in Process :
          /\ q.in_job /\ q.quiet
          /\ process' = [process EXCEPT ![job[s]] = q]
    <3>1. CASE HandOver(s)
      <4>1. process' = [process EXCEPT ![job[s]] = process[job[s]]]
        BY <2>1, <3>1 DEF HandOver, Shape, jobs
      <4> QED BY <2>1, <4>1
    <3>2. CASE StartTarget(s)
      <4> DEFINE q == [process[job[s]] EXCEPT !.state = "running"]
      <4>1. q \in Process /\ q.in_job /\ q.quiet
        BY <2>1 DEF Process
      <4>2. process' = [process EXCEPT ![job[s]] = q]
        BY <3>2 DEF StartTarget
      <4> QED BY <4>1, <4>2
    <3> QED BY <1>7, <3>1, <3>2
  <2>3. /\ pc' = [pc EXCEPT ![s] = "spawned"]
        /\ limits' = [limits EXCEPT ![job[s]] = limits[job[s]]]
        /\ UNCHANGED <<job, handle>>
    BY <1>7, <2>1 DEF HandOver, StartTarget, Goto, Shape, jobs
  <2>4. Prepared(s)'
    BY <2>1, <2>2, <2>3 DEF Prepared, Shape
  <2>5. limits[job[s]] \in SUBSET {"kill", "options"}
    BY <2>1 DEF Shape
  <2> QED BY <2>1, <2>2, <2>3, <2>4, <2>5, Preparing DEF Held
<1>8. CASE DestroyTarget(s)
  <2>1. /\ pc[s] \in Held /\ pc' = [pc EXCEPT ![s] = "idle"]
        /\ process[job[s]] \in Process /\ process[job[s]].in_job
        /\ CloseJob(s, process[job[s]])
    BY <1>8 DEF DestroyTarget, Goto, Held, ProcessFollowsSpawn, Prepared
  <2> QED BY <2>1, Closing
<1> QED
  BY <1>1, <1>2, <1>3, <1>4, <1>5, <1>6, <1>7, <1>8 DEF Spawn

(* So does a setter, and a step that changes nothing. *)
LEMMA Invariant == Spec => []Inv
<1>1. ASSUME Inv, UNCHANGED <<pc, job, jobs>> PROVE Inv'
  BY <1>1 DEF jobs, Inv, Shape, JobsAreHeld, ProcessFollowsSpawn, Prepared,
              LeftBehind, NothingRunsUncontained
<1>2. Inv /\ [Next]_vars => Inv'
  BY <1>1, InvStep DEF Next, ChangePolicy, vars, container_vars
<1> QED BY <1>2, InvInit, PTL DEF Spec

-----------------------------------------------------------------------------
(* No process executes before Spawn has put it into its job and set its    *)
(* error mode, whichever call fails (core/container.cc:115-157).           *)
THEOREM Contained == Spec => []NothingRunsUncontained
<1>1. Inv => NothingRunsUncontained
  BY DEF Inv
<1> QED BY <1>1, Invariant, PTL

(* A process that is alive is being prepared by Spawn, belongs to a target, *)
(* or is in a job that was not to kill it: no failing call leaves another.  *)
THEOREM NoneStrays == Spec => []NoStrayProcess
<1>1. Inv => NoStrayProcess
  BY NoProcessIsNone DEF Inv, LeftBehind, NoStrayProcess
<1> QED BY <1>1, Invariant, PTL

-----------------------------------------------------------------------------
(***************************************************************************)
(* Spawn may use the policy's token and desktop without a lock and without *)
(* a count of references, provided that threads overlap only where MayCall *)
(* lets them.                                                              *)
(***************************************************************************)
OpenDesktop == [open : {TRUE}, is : SUBSET Logons, named : BOOLEAN]

PolicyShape ==
  /\ pc \in [Spawners -> Locations]
  /\ tok \in [Spawners -> Tokens \cup {NoToken}]
  /\ desk \in [Spawners -> Desktops \cup {NoDesktop}]
  /\ logon \in Logons \cup {NoLogon}
  /\ use_desktop \in BOOLEAN
  /\ default_desktop \in BOOLEAN
  /\ restricted_token \in Tokens \cup {NoToken}
  /\ alternate_desktop \in Desktops \cup {NoDesktop}
  /\ DOMAIN token = Tokens
  /\ desktop \in [Desktops -> {Closed} \cup OpenDesktop]

(* What is cached is open. *)
CachedIsOpen ==
  /\ restricted_token # NoToken => token[restricted_token].open
  /\ alternate_desktop # NoDesktop => desktop[alternate_desktop].open

(* A thread that fills a cache found it empty and has not closed what it   *)
(* made; one that is past a cache works with what is in it.                *)
Place(s) ==
  /\ pc[s] = "policy" => ~policy
  /\ pc[s] = "install token" =>
       /\ restricted_token = NoToken
       /\ tok[s] \in Tokens /\ token[tok[s]].open
  /\ pc[s] \in {"desktop", "install desktop", "name", "job", "options", "create"} =>
       tok[s] = restricted_token /\ restricted_token # NoToken
  /\ pc[s] = "install desktop" =>
       /\ use_desktop /\ alternate_desktop = NoDesktop
       /\ desk[s] \in Desktops /\ desktop[desk[s]].open
  /\ pc[s] = "name" =>
       use_desktop /\ alternate_desktop # NoDesktop /\ desk[s] = alternate_desktop
  /\ pc[s] \in {"job", "options", "create"} /\ desk[s] # NoDesktop =>
       desk[s] = alternate_desktop

(* Two threads are in Spawn only where neither has a cache to fill. *)
OverlapIsWarm ==
  \A s, u \in Spawners : s # u /\ InSpawn(s) /\ InSpawn(u) => Warm

Borrowing == /\ PolicyShape
             /\ CachedIsOpen
             /\ \A s \in Spawners : Place(s)
             /\ OverlapIsWarm

-----------------------------------------------------------------------------
(* No cache is filled yet.                                                  *)
LEMMA BorrowingInit == Init => Borrowing
  BY DEF Init, PolicyInit, Borrowing, PolicyShape, Locations, CachedIsOpen, Place,
         OverlapIsWarm, InSpawn, Closed

(* A step that leaves the policy and the thread's token and desktop alone, *)
(* and either goes on in Spawn or leaves it, preserves Borrowing.                *)
LEMMA Outside ==
  ASSUME Borrowing, NEW s \in Spawners, NEW x \in Locations,
         pc' = [pc EXCEPT ![s] = x],
         UNCHANGED <<policy_vars, policy>>,
         default_desktop' \in BOOLEAN, default_desktop => default_desktop',
         NEW h \in Tokens \cup {NoToken}, tok' = [tok EXCEPT ![s] = h],
         NEW d \in Desktops \cup {NoDesktop}, desk' = [desk EXCEPT ![s] = d],
         InSpawn(s)' => InSpawn(s),
         Place(s)'
  PROVE  Borrowing'
<1> USE DEF Borrowing, PolicyShape, policy_vars
<1>1. PolicyShape' /\ CachedIsOpen'
  BY DEF CachedIsOpen
<1>2. ASSUME NEW u \in Spawners PROVE Place(u)'
  <2>1. CASE u = s
    BY <2>1
  <2>2. CASE u # s
    BY <2>2 DEF Place
  <2> QED BY <2>1, <2>2
<1>3. OverlapIsWarm'
  BY DEF OverlapIsWarm, InSpawn, Warm
<1> QED BY <1>1, <1>2, <1>3

(* The calls of Spawn that fill a cache, alone as they are, preserve Borrowing. *)
LEMMA Filling ==
  ASSUME Borrowing, NEW s \in Spawners, InSpawn(s),
         NewToken(s) \/ CacheToken(s) \/ NewDesktop(s) \/ CacheDesktop(s),
         pc' # [pc EXCEPT ![s] = "idle"]
  PROVE  Borrowing'
<1> USE PolicyAssumption DEF Borrowing, PolicyShape
<1>1. CASE NewToken(s)
  <2>1. PICK h \in Tokens :
          /\ FilterToken(h)
          /\ Goto(s, "token", "install token")
          /\ tok' = [tok EXCEPT ![s] = h]
          /\ restricted_token = NoToken
          /\ UNCHANGED <<policy, default_desktop, desk>>
    BY <1>1 DEF NewToken, NotCached, GiveUpEarly, Goto, locals
  <2>2. PolicyShape' /\ CachedIsOpen'
    BY <2>1 DEF FilterToken, Goto, Locations, CachedIsOpen, GetLogon, Opened
  <2>3. \A u \in Spawners \ {s} : ~InSpawn(u)
    BY <2>1 DEF OverlapIsWarm, Warm
  <2>4. \A u \in Spawners : Place(u)'
    BY <2>1, <2>3 DEF FilterToken, Goto, Place, InSpawn, Opened
  <2>5. OverlapIsWarm'
    BY <2>1, <2>3 DEF Goto, OverlapIsWarm, InSpawn
  <2> QED BY <2>2, <2>4, <2>5
<1>2. CASE CacheToken(s)
  <2>1. /\ Goto(s, "install token", "desktop")
        /\ restricted_token = NoToken /\ tok[s] \in Tokens /\ token[tok[s]].open
    BY <1>2 DEF CacheToken, Goto, Place
  <2>2. /\ restricted_token' = tok[s]
        /\ DOMAIN token' = Tokens /\ token'[tok[s]] = token[tok[s]]
        /\ UNCHANGED <<logon, use_desktop, alternate_desktop, desktop>>
        /\ UNCHANGED <<policy, default_desktop, tok, desk>>
    BY <1>2, <2>1 DEF CacheToken, InstallToken, Without, locals
  <2>3. PolicyShape' /\ CachedIsOpen'
    BY <2>1, <2>2 DEF Goto, Locations, CachedIsOpen
  <2>4. \A u \in Spawners \ {s} : ~InSpawn(u)
    BY <2>1 DEF OverlapIsWarm, Warm
  <2>5. \A u \in Spawners : Place(u)'
    BY <2>1, <2>2, <2>4 DEF Goto, Place, InSpawn
  <2>6. OverlapIsWarm'
    BY <2>1, <2>4 DEF Goto, OverlapIsWarm, InSpawn
  <2> QED BY <2>3, <2>5, <2>6
<1>3. CASE NewDesktop(s)
  <2>1. PICK d \in Desktops :
          /\ MakeDesktop(d)
          /\ Goto(s, "desktop", "install desktop")
          /\ desk' = [desk EXCEPT ![s] = d]
          /\ use_desktop /\ alternate_desktop = NoDesktop
          /\ UNCHANGED <<policy, default_desktop, tok>>
    BY <1>3 DEF NewDesktop, GiveUpEarly, Goto
  <2>2. /\ GetLogon \in Logons
        /\ desktop' = [desktop EXCEPT ![d] =
              [open |-> TRUE, is |-> {GetLogon}, named |-> FALSE]]
        /\ [open |-> TRUE, is |-> {GetLogon}, named |-> FALSE] \in OpenDesktop
    BY <2>1 DEF MakeDesktop, GrantedTo, GetLogon, OpenDesktop
  <2>3. PolicyShape' /\ CachedIsOpen'
    BY <2>1, <2>2 DEF MakeDesktop, Goto, Locations, CachedIsOpen
  <2>4. \A u \in Spawners \ {s} : ~InSpawn(u)
    BY <2>1 DEF OverlapIsWarm, Warm, Goto
  <2>5. \A u \in Spawners : Place(u)'
    <3>1. Place(s)'
      <4>1. pc'[s] = "install desktop" /\ tok'[s] = restricted_token
        BY <2>1 DEF Goto, Place
      <4>2. desk'[s] = d /\ desktop'[d].open
        BY <2>1, <2>2
      <4>3. UNCHANGED <<restricted_token, use_desktop, alternate_desktop>>
        BY <2>1 DEF MakeDesktop
      <4>4. restricted_token # NoToken
        BY <2>1 DEF Goto, Place
      <4> QED BY <2>1, <4>1, <4>2, <4>3, <4>4 DEF Place
    <3>2. ASSUME NEW u \in Spawners, u # s PROVE Place(u)'
      BY <2>1, <2>4, <3>2 DEF Goto, Place, InSpawn
    <3> QED BY <3>1, <3>2
  <2>6. OverlapIsWarm'
    BY <2>1, <2>4 DEF Goto, OverlapIsWarm, InSpawn
  <2> QED BY <2>3, <2>5, <2>6
<1>4. CASE CacheDesktop(s)
  <2>1. /\ Goto(s, "install desktop", "name")
        /\ use_desktop /\ alternate_desktop = NoDesktop
        /\ desk[s] \in Desktops /\ desktop[desk[s]].open
    BY <1>4 DEF CacheDesktop, Goto, Place
  <2>2. /\ alternate_desktop' = desk[s]
        /\ desktop' = desktop
        /\ UNCHANGED <<logon, use_desktop, restricted_token, token>>
        /\ UNCHANGED <<policy, default_desktop, tok, desk>>
    BY <1>4, <2>1 DEF CacheDesktop, InstallDesktop, Without, locals
  <2>3. PolicyShape' /\ CachedIsOpen'
    BY <2>1, <2>2 DEF Goto, Locations, CachedIsOpen
  <2>4. \A u \in Spawners \ {s} : ~InSpawn(u)
    BY <2>1 DEF OverlapIsWarm, Warm, Goto
  <2>5. \A u \in Spawners : Place(u)'
    BY <2>1, <2>2, <2>4 DEF Goto, Place, InSpawn
  <2>6. OverlapIsWarm'
    BY <2>1, <2>4 DEF Goto, OverlapIsWarm, InSpawn
  <2> QED BY <2>3, <2>5, <2>6
<1> QED BY <1>1, <1>2, <1>3, <1>4

(* So does every other step of Spawn or of its client. *)
LEMMA BorrowingStep ==
  ASSUME Borrowing, NEW s \in Spawners, Spawn(s) \/ StartTarget(s) \/ DestroyTarget(s)
  PROVE  Borrowing'
<1> USE DEF Goto
<1>0. CASE CallSpawn(s)
  <2> USE DEF Borrowing, PolicyShape
  <2>1. /\ pc[s] = "idle" /\ MayCall(s)
        /\ pc' = [pc EXCEPT ![s] = IF policy THEN "token" ELSE "policy"]
        /\ UNCHANGED <<policy_vars, policy, default_desktop, tok, desk>>
    BY <1>0 DEF CallSpawn
  <2>2. PolicyShape' /\ CachedIsOpen'
    BY <2>1 DEF Locations, CachedIsOpen, policy_vars
  <2>3. \A u \in Spawners : Place(u)'
    BY <2>1 DEF Place, policy_vars
  <2>4. OverlapIsWarm'
    BY <2>1 DEF MayCall, OverlapIsWarm, InSpawn, Warm, policy_vars
  <2> QED BY <2>2, <2>3, <2>4
<1>1. CASE GetPolicy(s) /\ DefaultPolicy
  <2> USE DEF Borrowing, PolicyShape
  <2>1. /\ pc[s] = "policy" /\ pc'[s] \in {"token", "idle"}
        /\ pc' = [pc EXCEPT ![s] = pc'[s]]
        /\ UNCHANGED <<default_desktop, use_desktop, restricted_token,
                       alternate_desktop, token, desktop>>
        /\ logon' \in Logons \cup {NoLogon}
        /\ tok' = [tok EXCEPT ![s] = tok'[s]] /\ tok'[s] \in Tokens \cup {NoToken}
        /\ desk' = [desk EXCEPT ![s] = desk'[s]] /\ desk'[s] \in Desktops \cup {NoDesktop}
    BY <1>1, PolicyAssumption DEF GetPolicy, DefaultPolicy, GetLogon, Forget, locals
  <2>2. \A u \in Spawners \ {s} : ~InSpawn(u)
    BY <2>1 DEF OverlapIsWarm, Warm, Place, InSpawn
  <2>3. PolicyShape' /\ CachedIsOpen'
    BY <2>1 DEF Locations, CachedIsOpen
  <2>4. \A u \in Spawners : Place(u)'
    BY <2>1, <2>2 DEF Place, InSpawn
  <2>5. OverlapIsWarm'
    BY <2>1, <2>2 DEF OverlapIsWarm, InSpawn
  <2> QED BY <2>3, <2>4, <2>5
<1>2. ASSUME NewToken(s) \/ CacheToken(s) \/ NewDesktop(s) \/ CacheDesktop(s),
             pc' # [pc EXCEPT ![s] = "idle"]
      PROVE  Borrowing'
  BY <1>2, Filling DEF Borrowing, PolicyShape, InSpawn, NewToken, CacheToken, NewDesktop,
     CacheDesktop, GiveUpEarly
<1> DEFINE Leaves ==
      /\ pc' = [pc EXCEPT ![s] = "idle"]
      /\ UNCHANGED <<policy_vars, policy, default_desktop>>
      /\ \/ tok' = tok /\ desk' = desk
         \/ Forget(s)
<1>3. CASE Leaves
  <2>1. "idle" \in Locations
    BY DEF Locations
  <2>2. /\ tok' = [tok EXCEPT ![s] = tok'[s]] /\ tok'[s] \in Tokens \cup {NoToken}
        /\ desk' = [desk EXCEPT ![s] = desk'[s]] /\ desk'[s] \in Desktops \cup {NoDesktop}
    BY <1>3 DEF Borrowing, PolicyShape, Forget
  <2>3. Place(s)' /\ ~InSpawn(s)'
    BY <1>3 DEF Borrowing, PolicyShape, Place, InSpawn
  <2> QED BY <1>3, <2>1, <2>2, <2>3, Outside DEF Borrowing, PolicyShape
<1>4. CASE ReadName(s) /\ ~Leaves
  <2> USE DEF Borrowing, PolicyShape
  <2>1. /\ pc[s] = "name" /\ pc' = [pc EXCEPT ![s] = "job"]
        /\ KeepName(desk[s])
        /\ UNCHANGED <<policy, default_desktop, tok, desk>>
        /\ desk[s] = alternate_desktop /\ desk[s] \in Desktops
    BY <1>4 DEF ReadName, GiveUpEarly, Place, locals
  <2>2. desktop[desk[s]] \in OpenDesktop
    <3>1. desktop[desk[s]].open
      BY <2>1, PolicyAssumption DEF CachedIsOpen
    <3>2. ~Closed.open
      BY DEF Closed
    <3> QED BY <2>1, <3>1, <3>2
  <2>3. /\ [desktop[desk[s]] EXCEPT !.named = TRUE] \in OpenDesktop
        /\ [desktop[desk[s]] EXCEPT !.named = TRUE].open
        /\ [desktop[desk[s]] EXCEPT !.named = TRUE].named
    BY <2>2 DEF OpenDesktop
  <2>4. /\ desktop' = [desktop EXCEPT ![desk[s]] = [desktop[desk[s]] EXCEPT !.named = TRUE]]
        /\ UNCHANGED <<logon, use_desktop, restricted_token, alternate_desktop, token>>
    BY <2>1 DEF KeepName
  <2>5. desktop' \in [Desktops -> {Closed} \cup OpenDesktop]
    BY <2>1, <2>3, <2>4
  <2>6. /\ desktop'[desk[s]].open /\ desktop'[desk[s]].named
        /\ \A d \in Desktops : d # desk[s] => desktop'[d] = desktop[d]
    BY <2>1, <2>3, <2>4
  <2>7. PolicyShape' /\ CachedIsOpen'
    BY <2>1, <2>4, <2>5, <2>6 DEF CachedIsOpen, Locations
  <2>8. \A u \in Spawners : Place(u)'
    BY <2>1, <2>4, <2>6 DEF Place
  <2>9. OverlapIsWarm'
    BY <2>1, <2>4, <2>6 DEF OverlapIsWarm, InSpawn, Warm
  <2> QED BY <2>7, <2>8, <2>9
<1>5. CASE BorrowToken(s) \/ BorrowDesktop(s)
  <2> USE DEF Borrowing, PolicyShape
  <2>1. PICK x \in Locations : pc' = [pc EXCEPT ![s] = x]
    BY <1>5 DEF BorrowToken, BorrowDesktop, Locations
  <2>2. /\ UNCHANGED <<policy_vars, policy>>
        /\ default_desktop' \in BOOLEAN /\ (default_desktop => default_desktop')
        /\ InSpawn(s)
    BY <1>5 DEF BorrowToken, BorrowDesktop, InSpawn
  <2>3. /\ tok' = [tok EXCEPT ![s] = tok'[s]] /\ tok'[s] \in Tokens \cup {NoToken}
        /\ desk' = [desk EXCEPT ![s] = desk'[s]] /\ desk'[s] \in Desktops \cup {NoDesktop}
    BY <1>5 DEF BorrowToken, BorrowDesktop
  <2>4. Place(s)'
    BY <1>5, <2>2, PolicyAssumption DEF BorrowToken, BorrowDesktop, Place, policy_vars
  <2> HIDE DEF Borrowing, PolicyShape
  <2> QED BY <2>1, <2>2, <2>3, <2>4, Outside
<1>6. CASE /\ \/ MakeJobObject(s) \/ ApplyOptions(s) \/ CreateProcess(s)
              \/ AssignProcess(s) \/ HardenProcess(s) \/ HandOver(s)
              \/ StartTarget(s) \/ DestroyTarget(s)
           /\ ~Leaves
  <2> USE DEF Borrowing, PolicyShape
  <2>1. PICK x \in {"options", "create", "assign", "harden", "hand over", "spawned"} :
          /\ pc' = [pc EXCEPT ![s] = x]
          /\ x \in {"options", "create"} =>
               pc[s] \in {"job", "options"} /\ UNCHANGED <<tok, desk>>
          /\ x \in {"assign", "harden", "hand over"} => InSpawn(s)
    BY <1>6 DEF MakeJobObject, ApplyOptions, CreateProcess, AssignProcess,
       HardenProcess, HandOver, StartTarget, DestroyTarget, GiveUp, GiveUpEarly,
       InSpawn, locals
  <2>2. UNCHANGED <<policy_vars, policy, default_desktop>>
    BY <1>6 DEF MakeJobObject, ApplyOptions, CreateProcess, AssignProcess,
       HardenProcess, HandOver, StartTarget, DestroyTarget, GiveUp, GiveUpEarly
  <2>3. /\ tok' = [tok EXCEPT ![s] = tok'[s]] /\ tok'[s] \in Tokens \cup {NoToken}
        /\ desk' = [desk EXCEPT ![s] = desk'[s]] /\ desk'[s] \in Desktops \cup {NoDesktop}
    BY <1>6 DEF MakeJobObject, ApplyOptions, CreateProcess, AssignProcess,
       HardenProcess, HandOver, StartTarget, DestroyTarget, GiveUp, GiveUpEarly,
       Forget, locals
  <2>4. x \in Locations /\ Place(s)' /\ (InSpawn(s)' => InSpawn(s))
    BY <2>1, <2>2 DEF Place, InSpawn, Locations, policy_vars
  <2> HIDE DEF Borrowing, PolicyShape
  <2> QED BY <2>1, <2>2, <2>3, <2>4, Outside DEF Borrowing, PolicyShape
<1>7. CASE \/ NewToken(s) /\ ~Leaves
           \/ NewDesktop(s) /\ ~Leaves
           \/ CacheToken(s) \/ CacheDesktop(s)
  <2>1. pc' # [pc EXCEPT ![s] = "idle"]
    BY <1>7 DEF NewToken, NewDesktop, CacheToken, CacheDesktop, GiveUpEarly,
                Borrowing, PolicyShape
  <2> QED BY <1>2, <1>7, <2>1
<1>8. CASE GetPolicy(s) /\ ~DefaultPolicy
  BY <1>3, <1>8 DEF GetPolicy, PolicyDropped
<1> HIDE DEF Leaves
<1> QED BY <1>0, <1>1, <1>3, <1>4, <1>5, <1>6, <1>7, <1>8 DEF Spawn

(* A setter, called while no thread is in Spawn, preserves Borrowing. *)
LEMMA SetterStep == ASSUME Borrowing, ChangePolicy PROVE Borrowing'
<1> USE PolicyAssumption DEF Borrowing, PolicyShape
<1>1. /\ \A s \in Spawners : ~InSpawn(s)
      /\ UNCHANGED <<pc, policy, default_desktop, tok, desk>>
  BY DEF ChangePolicy, container_vars, locals
<1>2. /\ logon' \in Logons \cup {NoLogon} /\ use_desktop' \in BOOLEAN
      /\ \/ UNCHANGED <<restricted_token, token>>
         \/ restricted_token' = NoToken /\ DOMAIN token' = Tokens
  BY DEF ChangePolicy, Setter, SetLogon, AddRestrictSid, RemoveRestrictSid,
         SetUseDesktop, SetBasicLimit, ResetToken, Without
<1>3. \/ UNCHANGED <<alternate_desktop, desktop>>
      \/ /\ alternate_desktop' = NoDesktop
         /\ desktop' \in [Desktops -> {Closed} \cup OpenDesktop]
  BY DEF ChangePolicy, Setter, SetLogon, AddRestrictSid, RemoveRestrictSid,
         SetUseDesktop, SetBasicLimit, ResetDesktop, Without
<1>4. PolicyShape' /\ CachedIsOpen'
  BY <1>1, <1>2, <1>3 DEF CachedIsOpen
<1>5. \A s \in Spawners : Place(s)'
  BY <1>1 DEF Place, InSpawn
<1>6. OverlapIsWarm'
  BY <1>1 DEF OverlapIsWarm, InSpawn
<1> QED BY <1>4, <1>5, <1>6

(* Threads that overlap only with full caches keep it always.               *)
LEMMA BorrowingInvariant == Spec => []Borrowing
<1>1. ASSUME Borrowing, UNCHANGED vars PROVE Borrowing'
  BY <1>1 DEF vars, policy_vars, container_vars, locals, Borrowing, PolicyShape,
              CachedIsOpen, Place, OverlapIsWarm, InSpawn, Warm
<1>2. Borrowing /\ [Next]_vars => Borrowing'
  BY <1>1, BorrowingStep, SetterStep DEF Next
<1> QED BY <1>2, BorrowingInit, PTL DEF Spec

-----------------------------------------------------------------------------
(* The token and the desktop a thread has borrowed are still the policy's,  *)
(* and open, when it creates the process with them (core/container.cc:34, :43,   *)
(* :115), whatever other threads do meanwhile.                              *)
THEOREM BorrowedOpen == Spec => []BorrowedStaysOpen
<1>1. Borrowing => BorrowedStaysOpen
  BY DEF Borrowing, PolicyShape, CachedIsOpen, Place, BorrowedStaysOpen
<1> QED BY <1>1, BorrowingInvariant, PTL

-----------------------------------------------------------------------------
(* The desktop that the policy asks for, once its name is known. *)
AsksFor(d) ==
  IF use_desktop
  THEN d # NoDesktop /\ d = alternate_desktop /\ desktop[d].named
  ELSE d = NoDesktop

AskedLimits(s) == (IF options[s] THEN {"options"} ELSE {})
PolicyLimits == IF kill_on_close THEN {"kill"} ELSE {}

(* What a thread has made, or is about to install or to use, is what the    *)
(* policy asks for now.                                                     *)
AsAsked(s) ==
  /\ pc[s] = "install token" => token[tok[s]] = Opened(AsPolicySays)
  /\ pc[s] = "install desktop" => logon \in desktop[desk[s]].is
  /\ pc[s] \in {"job", "options", "create"} => AsksFor(desk[s])
  /\ pc[s] \in {"assign", "harden", "hand over"} =>
       born_as[s].token = AsPolicySays /\ AsksFor(born_as[s].desktop)

Limited(s) ==
  /\ pc[s] = "options" => limits[job[s]] = PolicyLimits
  /\ pc[s] \in {"create", "assign", "harden", "hand over"} =>
       limits[job[s]] = PolicyLimits \cup AskedLimits(s)

(* The policy is made with a logon; before, there is nothing to cache. *)
MadeWhole ==
  IF policy
  THEN logon # NoLogon
  ELSE /\ restricted_token = NoToken /\ alternate_desktop = NoDesktop
       /\ \A s \in Spawners : pc[s] \in {"idle", "policy", "spawned"}

LocalsShape == DOMAIN born_as = Spawners /\ options \in [Spawners -> BOOLEAN]

Faithful ==
  /\ LocalsShape
  /\ MadeWhole
  /\ CachesAreFresh
  /\ \A s \in Spawners : AsAsked(s)

(* Every handle has an owner; a job that is gone has no limits. *)
TokensOwned ==
  \A h \in Tokens : token[h].open =>
    h = restricted_token \/ \E s \in Spawners : pc[s] = "install token" /\ tok[s] = h

DesktopsOwned ==
  \A d \in Desktops : desktop[d].open =>
    d = alternate_desktop \/ \E s \in Spawners : pc[s] = "install desktop" /\ desk[s] = d

JobsOwned ==
  \A j \in Jobs :
    /\ handle[j] => \/ \E s \in Spawners : job[s] = j
                    \/ limits[j] = {} /\ process[j] = NoProcess
    /\ ~handle[j] /\ process[j] = NoProcess => limits[j] = {}
Step(s) == Spawn(s) \/ StartTarget(s) \/ DestroyTarget(s)

-----------------------------------------------------------------------------
(* A step of a thread leaves the locals of every other thread alone. *)
LEMMA OwnLocals ==
  ASSUME PolicyShape, LocalsShape, NEW s \in Spawners, Step(s)
  PROVE  /\ LocalsShape'
         /\ \A u \in Spawners : u # s =>
              /\ pc'[u] = pc[u] /\ tok'[u] = tok[u] /\ desk'[u] = desk[u]
              /\ born_as'[u] = born_as[u] /\ options'[u] = options[u]
<1> USE DEF PolicyShape, LocalsShape, Goto, Forget, locals
<1>1. CASE \/ CallSpawn(s) \/ GetPolicy(s) \/ BorrowToken(s) \/ NewToken(s)
           \/ CacheToken(s) \/ BorrowDesktop(s) \/ NewDesktop(s) \/ CacheDesktop(s)
           \/ ReadName(s)
  BY <1>1 DEF CallSpawn, GetPolicy, BorrowToken, NewToken, CacheToken, BorrowDesktop,
     NewDesktop, CacheDesktop, ReadName, GiveUpEarly
<1>2. CASE \/ MakeJobObject(s) \/ ApplyOptions(s) \/ CreateProcess(s)
           \/ AssignProcess(s) \/ HardenProcess(s) \/ HandOver(s)
  BY <1>2 DEF MakeJobObject, ApplyOptions, CreateProcess, AssignProcess, HardenProcess,
              HandOver, GiveUpEarly, GiveUp
<1>3. CASE StartTarget(s) \/ DestroyTarget(s)
  BY <1>3 DEF StartTarget, DestroyTarget
<1> QED BY <1>1, <1>2, <1>3 DEF Step, Spawn

(* While a thread is in Spawn, no other changes the policy: whoever is in   *)
(* Spawn with it has nothing to fill.                                       *)
LEMMA PolicyIsHeld ==
  ASSUME Borrowing, NEW s \in Spawners, NEW u \in Spawners, u # s, InSpawn(u), Step(s)
  PROVE  UNCHANGED <<policy_vars, policy>>
<1> USE DEF Borrowing, PolicyShape, Goto
<1>1. CASE CallSpawn(s) \/ GetPolicy(s)
  <2>1. CASE CallSpawn(s)
    BY <2>1 DEF CallSpawn
  <2>2. CASE GetPolicy(s)
    BY <2>2 DEF GetPolicy, PolicyDropped, OverlapIsWarm, Warm, Place, InSpawn
  <2> QED BY <1>1, <2>1, <2>2
<1>2. CASE \/ BorrowToken(s) \/ BorrowDesktop(s) \/ MakeJobObject(s) \/ ApplyOptions(s)
           \/ CreateProcess(s) \/ AssignProcess(s) \/ HardenProcess(s) \/ HandOver(s)
           \/ StartTarget(s) \/ DestroyTarget(s)
  BY <1>2 DEF BorrowToken, BorrowDesktop, MakeJobObject, ApplyOptions, CreateProcess,
              AssignProcess, HardenProcess, HandOver, StartTarget, DestroyTarget,
              GiveUpEarly, GiveUp
<1>3. CASE NewToken(s) \/ CacheToken(s) \/ NewDesktop(s) \/ CacheDesktop(s) \/ ReadName(s)
  <2>1. InSpawn(s)
    BY <1>3 DEF NewToken, CacheToken, NewDesktop, CacheDesktop, ReadName, InSpawn,
                GiveUpEarly
  <2>2. Warm
    BY <2>1 DEF OverlapIsWarm
  <2>3. CASE NewToken(s)
    BY <2>2, <2>3 DEF NewToken, NotCached, Warm
  <2>4. CASE CacheToken(s)
    BY <2>2, <2>4 DEF CacheToken, Place, Warm
  <2>5. CASE NewDesktop(s)
    BY <2>2, <2>5 DEF NewDesktop, Warm
  <2>6. CASE CacheDesktop(s)
    BY <2>2, <2>6 DEF CacheDesktop, Place, Warm
  <2>7. CASE ReadName(s)
    <3>1. CASE GiveUpEarly(s, "name")
      BY <3>1 DEF GiveUpEarly
    <3>2. CASE KeepName(desk[s]) /\ pc[s] = "name" /\ UNCHANGED policy
      <4>1. desk[s] \in Desktops /\ desktop[desk[s]].open
        BY <3>2, PolicyAssumption DEF Place, CachedIsOpen
      <4>2. desktop[desk[s]] \in OpenDesktop
        BY <4>1 DEF Closed
      <4>3. [desktop[desk[s]] EXCEPT !.named = TRUE] = desktop[desk[s]]
        <5>1. desktop[desk[s]].named
          BY <2>2, <3>2 DEF Warm, Place
        <5> QED BY <4>2, <5>1 DEF OpenDesktop
      <4> QED BY <3>2, <4>1, <4>3 DEF KeepName, policy_vars
    <3> QED BY <2>7, <3>1, <3>2 DEF ReadName
  <2> QED BY <1>3, <2>3, <2>4, <2>5, <2>6, <2>7
<1> QED BY <1>1, <1>2, <1>3 DEF Step, Spawn

(* What another thread is about is not disturbed. *)
LEMMA OthersAsAsked ==
  ASSUME Borrowing, Faithful, NEW s \in Spawners, Step(s), NEW u \in Spawners, u # s
  PROVE  AsAsked(u)'
<1>1. /\ pc'[u] = pc[u] /\ tok'[u] = tok[u] /\ desk'[u] = desk[u]
      /\ born_as'[u] = born_as[u]
  BY OwnLocals DEF Borrowing, Faithful
<1>2. AsAsked(u)
  BY DEF Faithful
<1>3. CASE InSpawn(u)
  <2>1. UNCHANGED policy_vars
    BY <1>3, PolicyIsHeld
  <2> QED BY ONLY <1>1, <1>2, <2>1 DEF AsAsked, AsksFor, AsPolicySays, policy_vars
<1>4. CASE ~InSpawn(u)
  BY <1>1, <1>4 DEF AsAsked, InSpawn
<1> QED BY <1>3, <1>4

(* The steps that fill a cache keep it fresh. *)
LEMMA FillingFresh ==
  ASSUME Borrowing, Faithful, NEW s \in Spawners,
         NewToken(s) \/ CacheToken(s) \/ NewDesktop(s) \/ CacheDesktop(s) \/ ReadName(s)
  PROVE  CachesAreFresh' /\ AsAsked(s)'
<1> USE PolicyAssumption DEF Borrowing, Faithful, PolicyShape, Goto
<1>0. \A d \in Desktops : desktop[d].open => desktop[d] \in OpenDesktop
  BY DEF Closed
<1>1. CASE pc' = [pc EXCEPT ![s] = "idle"] /\ UNCHANGED policy_vars
  BY <1>1 DEF CachesAreFresh, AsPolicySays, AsAsked, policy_vars
<1>2. ASSUME NEW h \in Tokens, FilterToken(h), NotCached,
             Goto(s, "token", "install token"), tok' = [tok EXCEPT ![s] = h]
      PROVE  CachesAreFresh' /\ AsAsked(s)'
  <2>1. token'[h] = Opened(AsPolicySays)'
    BY <1>2 DEF FilterToken, RestrictedTo, AsPolicySays
  <2>2. logon' = logon
    BY <1>2 DEF MadeWhole, InSpawn, FilterToken, GetLogon
  <2>3. CachesAreFresh'
    BY <1>2, <2>2 DEF CachesAreFresh, FilterToken, NotCached
  <2>4. AsAsked(s)'
    BY <1>2, <2>1 DEF AsAsked
  <2> QED BY <2>3, <2>4
<1>3. CASE CacheToken(s)
  <2>1. /\ restricted_token = NoToken /\ tok[s] \in Tokens
        /\ token[tok[s]] = Opened(AsPolicySays)
    BY <1>3 DEF CacheToken, Place, AsAsked
  <2>2. /\ restricted_token' = tok[s] /\ token'[tok[s]] = token[tok[s]]
        /\ UNCHANGED <<logon, restricted_sids, alternate_desktop, desktop>>
    BY <1>3, <2>1 DEF CacheToken, InstallToken, Without
  <2> QED BY <1>3, <2>1, <2>2 DEF CacheToken, CachesAreFresh, AsPolicySays, AsAsked
<1>4. ASSUME NEW d \in Desktops, MakeDesktop(d), alternate_desktop = NoDesktop,
             Goto(s, "desktop", "install desktop"), desk' = [desk EXCEPT ![s] = d]
      PROVE  CachesAreFresh' /\ AsAsked(s)'
  <2>1. logon' = logon
    BY <1>4 DEF MadeWhole, InSpawn, MakeDesktop, GetLogon
  <2>2. desktop'[d].is = {logon}
    BY <1>4, <2>1 DEF MakeDesktop, GrantedTo, GetLogon
  <2>3. CachesAreFresh'
    <3>1. UNCHANGED <<logon, restricted_sids, restricted_token, alternate_desktop, token>>
      BY <1>4, <2>1 DEF MakeDesktop
    <3> QED BY <1>4, <3>1 DEF CachesAreFresh, AsPolicySays
  <2>4. AsAsked(s)'
    BY <1>4, <2>1, <2>2 DEF AsAsked
  <2> QED BY <2>3, <2>4
<1>5. CASE CacheDesktop(s)
  <2>1. /\ alternate_desktop = NoDesktop /\ desk[s] \in Desktops
        /\ desktop[desk[s]].open /\ logon \in desktop[desk[s]].is
    BY <1>5 DEF CacheDesktop, Place, AsAsked
  <2>2. /\ alternate_desktop' = desk[s] /\ desktop' = Without(desktop, NoDesktop)
        /\ UNCHANGED <<logon, restricted_sids, restricted_token, token>>
    BY ONLY <1>5, <2>1 DEF CacheDesktop, InstallDesktop
  <2>3. desktop' = desktop
    BY <2>2 DEF Without
  <2> QED BY <1>5, <2>1, <2>2, <2>3 DEF CacheDesktop, CachesAreFresh, AsPolicySays, AsAsked
<1>6. ASSUME ReadName(s), KeepName(desk[s]), Goto(s, "name", "job"), UNCHANGED desk
      PROVE  CachesAreFresh' /\ AsAsked(s)'
  <2>1. /\ use_desktop /\ desk[s] \in Desktops /\ desk[s] = alternate_desktop
        /\ desktop[desk[s]] \in OpenDesktop
    BY <1>6, <1>0 DEF Place, CachedIsOpen
  <2>2. desktop'[desk[s]] = [desktop[desk[s]] EXCEPT !.named = TRUE]
    BY <1>6, <2>1 DEF KeepName
  <2>3. /\ desktop'[desk[s]].open /\ desktop'[desk[s]].named
        /\ desktop'[desk[s]].is = desktop[desk[s]].is
    BY <2>1, <2>2 DEF OpenDesktop
  <2>4. UNCHANGED <<logon, restricted_sids, use_desktop, restricted_token,
                    alternate_desktop, token>>
    BY <1>6 DEF KeepName
  <2>5. CachesAreFresh'
    BY <2>1, <2>3, <2>4 DEF CachesAreFresh, AsPolicySays
  <2>6. AsAsked(s)'
    BY <1>6, <2>1, <2>3, <2>4 DEF AsAsked, AsksFor
  <2> QED BY <2>5, <2>6
<1>7. CASE NewToken(s)
  BY <1>1, <1>2, <1>7 DEF NewToken, GiveUpEarly
<1>8. CASE NewDesktop(s)
  BY <1>1, <1>4, <1>8 DEF NewDesktop, GiveUpEarly
<1>9. CASE ReadName(s)
  BY <1>1, <1>6, <1>9 DEF ReadName, GiveUpEarly, locals
<1> QED BY <1>3, <1>5, <1>7, <1>8, <1>9

(* The other steps do not touch a cache. *)
LEMMA WorkingFresh ==
  ASSUME Borrowing, Faithful, NEW s \in Spawners, Step(s),
         ~(NewToken(s) \/ CacheToken(s) \/ NewDesktop(s) \/ CacheDesktop(s) \/ ReadName(s))
  PROVE  CachesAreFresh' /\ AsAsked(s)'
<1>0. /\ PolicyShape /\ LocalsShape /\ MadeWhole /\ CachesAreFresh
      /\ AsAsked(s) /\ Place(s)
  BY DEF Borrowing, Faithful
<1>1. ASSUME pc'[s] \in {"idle", "policy", "token", "desktop", "spawned"} PROVE AsAsked(s)'
  BY ONLY <1>1 DEF AsAsked
<1>2. ASSUME UNCHANGED policy_vars PROVE CachesAreFresh'
  BY ONLY <1>0, <1>2 DEF CachesAreFresh, AsPolicySays, policy_vars
<1>3. CASE GetPolicy(s)
  <2>1. pc[s] = "policy" /\ pc'[s] \in {"idle", "token"}
    BY <1>0, <1>3 DEF GetPolicy, PolicyShape, Goto
  <2>2. DefaultPolicy => CachesAreFresh'
    BY <1>0, <2>1 DEF DefaultPolicy, MadeWhole, CachesAreFresh, Place
  <2>3. DefaultPolicy \/ UNCHANGED policy_vars
    BY <1>3 DEF GetPolicy, PolicyDropped
  <2> QED BY <1>1, <1>2, <2>1, <2>2, <2>3
<1>4. CASE ~GetPolicy(s)
  <2> USE <1>0 DEF PolicyShape, LocalsShape, Goto
  <2>1. UNCHANGED policy_vars
    BY <1>4 DEF Step, Spawn, CallSpawn, BorrowToken, BorrowDesktop, MakeJobObject,
       ApplyOptions, CreateProcess, AssignProcess, HardenProcess, HandOver, StartTarget,
       DestroyTarget, GiveUpEarly, GiveUp
  <2>2. CachesAreFresh'
    BY <1>2, <2>1
  <2>3. CASE pc' = [pc EXCEPT ![s] = "idle"]
    BY <1>1, <2>2, <2>3
  <2>4. CASE \/ CallSpawn(s) \/ BorrowToken(s) \/ HandOver(s) \/ StartTarget(s)
             \/ DestroyTarget(s)
    <3>1. pc'[s] \in {"idle", "policy", "token", "desktop", "spawned"}
      BY <2>4 DEF CallSpawn, BorrowToken, HandOver, StartTarget, DestroyTarget
    <3> QED BY <1>1, <2>2, <3>1
  <2>5. CASE BorrowDesktop(s)
    <3>1. /\ pc'[s] \in {"name", "job"}
          /\ pc'[s] = "job" => ~use_desktop
          /\ desk'[s] = IF use_desktop THEN alternate_desktop ELSE NoDesktop
      BY <2>5 DEF BorrowDesktop
    <3>2. AsAsked(s)'
      BY ONLY <2>1, <3>1 DEF AsAsked, AsksFor, policy_vars
    <3> QED BY <2>2, <3>2
  <2>6. ASSUME pc[s] \in {"job", "options"}, pc'[s] \in {"options", "create"},
               desk' = desk
        PROVE  AsAsked(s)'
    BY ONLY <1>0, <2>1, <2>6 DEF AsAsked, AsksFor, policy_vars
  <2>7. CASE CreateProcess(s) /\ ~GiveUp(s, "create")
    <3>1. /\ pc[s] = "create" /\ pc'[s] = "assign"
          /\ born_as'[s] = [token |-> token[tok[s]].is, desktop |-> desk[s]]
      BY <2>7 DEF CreateProcess
    <3>2. token[tok[s]] = Opened(AsPolicySays)
      BY <3>1 DEF Place, CachesAreFresh
    <3>3. born_as'[s].token = AsPolicySays /\ born_as'[s].desktop = desk[s]
      BY <3>1, <3>2 DEF Opened
    <3>4. AsAsked(s)'
      BY ONLY <1>0, <2>1, <3>1, <3>3 DEF AsAsked, AsksFor, AsPolicySays, policy_vars
    <3> QED BY <2>2, <3>4
  <2>8. ASSUME pc[s] \in {"assign", "harden"}, pc'[s] \in {"harden", "hand over"},
               born_as' = born_as
        PROVE  AsAsked(s)'
    BY ONLY <1>0, <2>1, <2>8 DEF AsAsked, AsksFor, AsPolicySays, policy_vars
  <2>9. CASE MakeJobObject(s) \/ ApplyOptions(s)
    BY <2>2, <2>3, <2>6, <2>9 DEF MakeJobObject, ApplyOptions, GiveUpEarly, GiveUp, locals
  <2>10. CASE AssignProcess(s) \/ HardenProcess(s)
    BY <2>2, <2>3, <2>8, <2>10 DEF AssignProcess, HardenProcess, GiveUp, locals
  <2>11. CASE GiveUp(s, "create")
    BY <2>3, <2>11 DEF GiveUp
  <2> QED
    BY <1>4, <2>2, <2>4, <2>5, <2>7, <2>9, <2>10, <2>11 DEF Step, Spawn
<1> QED BY <1>3, <1>4

(* The policy, once made, has a logon, and no step unmakes it. *)
LEMMA StaysWhole ==
  ASSUME Borrowing, Faithful, NEW s \in Spawners, Step(s) PROVE MadeWhole'
<1> USE PolicyAssumption DEF Borrowing, Faithful, PolicyShape, Goto, MadeWhole, InSpawn
<1>1. CASE CallSpawn(s) \/ GetPolicy(s)
  <2>1. CASE CallSpawn(s)
    BY <2>1 DEF CallSpawn, policy_vars
  <2>2. CASE GetPolicy(s) /\ DefaultPolicy
    BY <2>2 DEF DefaultPolicy, GetLogon
  <2>3. CASE GetPolicy(s) /\ ~DefaultPolicy
    BY <2>3 DEF GetPolicy, PolicyDropped, policy_vars
  <2> QED BY <1>1, <2>1, <2>2, <2>3
<1>2. CASE NewToken(s) \/ CacheToken(s) \/ NewDesktop(s) \/ CacheDesktop(s) \/ ReadName(s)
  <2>1. policy /\ logon # NoLogon /\ policy' = policy
    BY <1>2 DEF NewToken, CacheToken, NewDesktop, CacheDesktop, ReadName, GiveUpEarly
  <2>2. logon' = logon
    BY <1>2, <2>1 DEF NewToken, CacheToken, NewDesktop, CacheDesktop, ReadName, GiveUpEarly,
       policy_vars, FilterToken, InstallToken, MakeDesktop, InstallDesktop, KeepName, GetLogon
  <2> QED BY ONLY <2>1, <2>2 DEF MadeWhole
<1>3. CASE \/ BorrowToken(s) \/ BorrowDesktop(s) \/ MakeJobObject(s) \/ ApplyOptions(s)
           \/ CreateProcess(s) \/ AssignProcess(s) \/ HardenProcess(s) \/ HandOver(s)
           \/ StartTarget(s) \/ DestroyTarget(s)
  <2>1. UNCHANGED <<policy_vars, policy>>
    BY <1>3 DEF BorrowToken, BorrowDesktop, MakeJobObject, ApplyOptions,
       CreateProcess, AssignProcess, HardenProcess, HandOver, StartTarget,
       DestroyTarget, GiveUpEarly, GiveUp
  <2>2. ~policy => pc[s] = "spawned" /\ pc'[s] \in {"idle", "spawned"}
    BY <1>3 DEF BorrowToken, BorrowDesktop, MakeJobObject, ApplyOptions,
       CreateProcess, AssignProcess, HardenProcess, HandOver, StartTarget,
       DestroyTarget, GiveUpEarly, GiveUp
  <2>3. \A u \in Spawners : u # s => pc'[u] = pc[u]
    BY OwnLocals
  <2> QED BY <2>1, <2>2, <2>3 DEF policy_vars
<1> QED BY <1>1, <1>2, <1>3 DEF Step, Spawn

(* A setter drops every cache it makes stale. *)
LEMMA SetterFresh == ASSUME Borrowing, Faithful, ChangePolicy PROVE Faithful'
<1> USE PolicyAssumption DEF Borrowing, Faithful, PolicyShape
<1>1. /\ policy /\ \A s \in Spawners : ~InSpawn(s)
      /\ UNCHANGED <<pc, policy, born_as, options>>
      /\ logon # NoLogon
  BY DEF ChangePolicy, container_vars, locals, MadeWhole
<1>2. LocalsShape' /\ \A s \in Spawners : AsAsked(s)'
  BY <1>1 DEF LocalsShape, AsAsked, InSpawn
<1>3. CASE \E l \in Logons : SetLogon(l)
  BY <1>2, <1>1, <1>3 DEF SetLogon, ResetToken, ResetDesktop, CachesAreFresh, MadeWhole
<1>4. CASE \E sid \in Sids : AddRestrictSid(sid) \/ RemoveRestrictSid(sid)
  BY <1>2, <1>1, <1>4 DEF AddRestrictSid, RemoveRestrictSid, ResetToken, CachesAreFresh,
     MadeWhole
<1>5. CASE \E b \in BOOLEAN : SetUseDesktop(b) \/ SetBasicLimit(b)
  BY <1>2, <1>1, <1>5 DEF SetUseDesktop, SetBasicLimit, CachesAreFresh, AsPolicySays,
     MadeWhole
<1> QED BY <1>2, <1>3, <1>4, <1>5 DEF ChangePolicy, Setter

(* It holds always.                                                         *)
LEMMA FaithfulInvariant == Spec => []Faithful
<1>1. Init => Faithful
  BY DEF Init, PolicyInit, Faithful, LocalsShape, MadeWhole, CachesAreFresh, AsAsked,
     InSpawn
<1>2. ASSUME Borrowing, Faithful, NEW s \in Spawners, Step(s) PROVE Faithful'
  <2>1. CachesAreFresh' /\ AsAsked(s)'
    BY <1>2, FillingFresh, WorkingFresh
  <2>2. LocalsShape' /\ MadeWhole'
    BY <1>2, OwnLocals, StaysWhole DEF Borrowing, Faithful
  <2> QED BY <1>2, <2>1, <2>2, OthersAsAsked DEF Faithful
<1>3. ASSUME Faithful, UNCHANGED vars PROVE Faithful'
  BY <1>3 DEF vars, policy_vars, container_vars, locals, Faithful, LocalsShape, MadeWhole,
              CachesAreFresh, AsPolicySays, AsAsked, AsksFor, InSpawn
<1>4. Borrowing /\ Faithful /\ [Next]_vars => Faithful'
  BY <1>2, <1>3, SetterFresh DEF Next, Step
<1> QED BY <1>1, <1>4, BorrowingInvariant, PTL DEF Spec

-----------------------------------------------------------------------------
(* Whatever setters are called, and however many threads fill the caches of *)
(* the policy, a cached token or desktop is what GetRestrictedToken or     *)
(* GetDesktop would make now (core/policy.cc:55, :84).                      *)
THEOREM CachesFresh == Spec => []CachesAreFresh
<1>1. Faithful => CachesAreFresh
  BY DEF Faithful
<1> QED BY <1>1, FaithfulInvariant, PTL

-----------------------------------------------------------------------------
(* The job a thread holds is out of reach of the others. *)
LEMMA OthersJobs ==
  ASSUME Inv, NEW s \in Spawners, Step(s), NEW u \in Spawners, u # s, job[u] # NoJob
  PROVE  job'[u] = job[u] /\ limits'[job[u]] = limits[job[u]] /\ handle'[job[u]]
<1> USE ContainerAssumption DEF Inv, Shape, JobsAreHeld, Goto
<1>1. job[u] \in Jobs /\ handle[job[u]] /\ job[s] # job[u]
  OBVIOUS
<1>2. ASSUME NEW p, CloseJob(s, p), job[s] # NoJob
      PROVE  job'[u] = job[u] /\ limits'[job[u]] = limits[job[u]] /\ handle'[job[u]]
  BY <1>1, <1>2 DEF CloseJob
<1>3. CASE \/ CallSpawn(s) \/ GetPolicy(s) \/ BorrowToken(s) \/ NewToken(s)
           \/ CacheToken(s) \/ BorrowDesktop(s) \/ NewDesktop(s) \/ CacheDesktop(s)
           \/ ReadName(s) \/ HandOver(s) \/ StartTarget(s)
  BY <1>1, <1>3 DEF CallSpawn, GetPolicy, BorrowToken, NewToken, CacheToken, BorrowDesktop,
     NewDesktop, CacheDesktop, ReadName, GiveUpEarly, HandOver, StartTarget, jobs
<1>4. CASE MakeJobObject(s)
  BY <1>1, <1>4 DEF MakeJobObject, GiveUpEarly, jobs
<1>5. CASE ApplyOptions(s) \/ CreateProcess(s) \/ AssignProcess(s) \/ HardenProcess(s)
           \/ DestroyTarget(s)
  <2>1. job[s] \in Jobs
    BY <1>5 DEF ApplyOptions, CreateProcess, AssignProcess, HardenProcess, DestroyTarget,
                GiveUp, Held
  <2>2. CASE \E p : CloseJob(s, p)
    BY <1>2, <2>1, <2>2
  <2> QED
    BY <1>1, <1>5, <2>1, <2>2 DEF ApplyOptions, CreateProcess, AssignProcess,
       HardenProcess, DestroyTarget, GiveUp
<1> QED BY <1>3, <1>4, <1>5 DEF Step, Spawn

(* The limits of a thread's job are what policy and options ask for. *)
LEMMA LimitsInvariant == Spec => []\A s \in Spawners : Limited(s)
<1> DEFINE AllLimited == \A s \in Spawners : Limited(s)
<1>1. Init => AllLimited
  BY DEF Init, Limited
<1>2. ASSUME Inv, Borrowing, Faithful, AllLimited, NEW s \in Spawners, Step(s)
      PROVE  AllLimited'
  <2> SUFFICES ASSUME NEW u \in Spawners PROVE Limited(u)'
    OBVIOUS
  <2>1. CASE u # s
    <3>1. pc'[u] = pc[u] /\ options'[u] = options[u]
      BY <1>2, <2>1, OwnLocals DEF Borrowing, Faithful
    <3>2. CASE InSpawn(u) /\ pc[u] \in Held
      <4>1. kill_on_close' = kill_on_close
        BY <1>2, <2>1, <3>2, PolicyIsHeld DEF policy_vars
      <4>2. job'[u] = job[u] /\ limits'[job[u]] = limits[job[u]]
        BY <1>2, <2>1, <3>2, OthersJobs DEF Inv, JobsAreHeld
      <4>3. Limited(u)
        BY <1>2
      <4> QED BY ONLY <3>1, <4>1, <4>2, <4>3 DEF Limited, PolicyLimits, AskedLimits
    <3>3. CASE ~(InSpawn(u) /\ pc[u] \in Held)
      BY <3>1, <3>3 DEF Limited, InSpawn, Held
    <3> QED BY <3>2, <3>3
  <2>2. CASE u = s
    <3>0. /\ PolicyShape /\ LocalsShape /\ Shape /\ JobsAreHeld /\ Limited(s)
      BY <1>2 DEF Inv, Borrowing, Faithful
    <3> USE <3>0 DEF PolicyShape, LocalsShape, Shape, Goto
    <3>1. CASE pc'[s] \notin {"options", "create", "assign", "harden", "hand over"}
      BY <2>2, <3>1 DEF Limited
    <3>2. CASE pc'[s] = "options"
      <4>1. MakeJobObject(s)
        BY <1>2, <3>2 DEF Step, Spawn, CallSpawn, GetPolicy, BorrowToken, NewToken,
           CacheToken, BorrowDesktop, NewDesktop, CacheDesktop, ReadName, GiveUpEarly,
           MakeJobObject, ApplyOptions, CreateProcess, AssignProcess, HardenProcess,
           HandOver, StartTarget, DestroyTarget, GiveUp
      <4>2. PICK j \in Jobs :
              /\ limits' = [limits EXCEPT ![j] = PolicyLimits]
              /\ job' = [job EXCEPT ![s] = j]
              /\ UNCHANGED policy_vars
        BY <3>2, <4>1 DEF MakeJobObject, GiveUpEarly, PolicyLimits
      <4>3. limits'[job'[s]] = PolicyLimits'
        BY <4>2 DEF policy_vars, PolicyLimits
      <4> QED BY ONLY <2>2, <3>2, <4>3 DEF Limited
    <3>3. CASE pc'[s] \in {"create", "assign", "harden", "hand over"}
      <4>1. /\ UNCHANGED <<policy_vars, job, options>>
            /\ \/ ApplyOptions(s) /\ ~GiveUp(s, "options")
               \/ limits' = limits /\ pc[s] \in {"create", "assign", "harden"}
        BY <1>2, <3>3 DEF Step, Spawn, CallSpawn, GetPolicy, BorrowToken, NewToken,
           CacheToken, BorrowDesktop, NewDesktop, CacheDesktop, ReadName, GiveUpEarly,
           MakeJobObject, ApplyOptions, CreateProcess, AssignProcess, HardenProcess,
           HandOver, StartTarget, DestroyTarget, GiveUp, locals
      <4>2. PolicyLimits' = PolicyLimits /\ AskedLimits(s)' = AskedLimits(s)
        BY <4>1 DEF PolicyLimits, AskedLimits, policy_vars
      <4>3. CASE ApplyOptions(s) /\ ~GiveUp(s, "options")
        <5>1. pc[s] = "options" /\ pc'[s] = "create" /\ job[s] \in Jobs
          BY <4>3 DEF ApplyOptions, JobsAreHeld, Held
        <5>2. limits'[job[s]] = IF options[s] THEN limits[job[s]] \cup {"options"}
                                ELSE limits[job[s]]
          BY <4>3, <5>1 DEF ApplyOptions, WithOptions
        <5>3. limits'[job[s]] = PolicyLimits \cup AskedLimits(s)
          BY <5>1, <5>2 DEF Limited, AskedLimits
        <5> QED BY ONLY <2>2, <4>1, <4>2, <5>1, <5>3 DEF Limited
      <4>4. CASE limits' = limits /\ pc[s] \in {"create", "assign", "harden"}
        BY ONLY <2>2, <3>0, <3>3, <4>1, <4>2, <4>4 DEF Limited
      <4> QED BY <4>1, <4>3, <4>4
    <3> QED BY <3>1, <3>2, <3>3
  <2> QED BY <2>1, <2>2
<1>3. ASSUME AllLimited, UNCHANGED vars PROVE AllLimited'
  BY <1>3 DEF vars, policy_vars, container_vars, locals, jobs, Limited, PolicyLimits,
              AskedLimits
<1>4. ASSUME AllLimited, ChangePolicy PROVE AllLimited'
  BY <1>4 DEF ChangePolicy, container_vars, locals, jobs, Limited, InSpawn
<1>5. Inv /\ Borrowing /\ Faithful /\ AllLimited /\ [Next]_vars => AllLimited'
  BY <1>2, <1>3, <1>4 DEF Next, Step
<1> QED BY <1>1, <1>5, Invariant, BorrowingInvariant, FaithfulInvariant, PTL DEF Spec

(* The process Spawn hands over was created with the token and on the       *)
(* desktop of the present policy, in a job with the limits of the policy    *)
(* and of the options (core/container.cc:33-157).                           *)
THEOREM SpawnsAsAsked == Spec => []SpawnedAsAsked
<1>1. ASSUME Borrowing, Faithful, \A s \in Spawners : Limited(s) PROVE SpawnedAsAsked
  <2> SUFFICES ASSUME NEW s \in Spawners, pc[s] \in {"assign", "harden", "hand over"}
               PROVE  /\ born_as[s].token = AsPolicySays
                      /\ IF use_desktop
                         THEN /\ desktop[born_as[s].desktop].named
                              /\ logon \in desktop[born_as[s].desktop].is
                         ELSE born_as[s].desktop = NoDesktop
                      /\ limits[job[s]] = PolicyLimits \cup AskedLimits(s)
    BY DEF SpawnedAsAsked, PolicyLimits, AskedLimits
  <2> QED BY <1>1 DEF Faithful, AsAsked, AsksFor, CachesAreFresh, Limited
<1> QED BY <1>1, BorrowingInvariant, FaithfulInvariant, LimitsInvariant, PTL

-----------------------------------------------------------------------------
(* The steps that make or install a token keep it owned; so do the others. *)
LEMMA TokensStep ==
  ASSUME Borrowing, Faithful, TokensOwned, NEW s \in Spawners, Step(s)
  PROVE  TokensOwned'
<1>0. PolicyShape /\ LocalsShape /\ Place(s)
  BY DEF Borrowing, Faithful
<1>1. \A u \in Spawners : u # s => pc'[u] = pc[u] /\ tok'[u] = tok[u]
  BY <1>0, OwnLocals
<1> USE <1>0 DEF PolicyShape, Goto
<1>2. CASE NewToken(s) /\ pc' # [pc EXCEPT ![s] = "idle"]
  <2>1. PICK h \in Tokens :
          /\ pc[s] = "token" /\ pc'[s] = "install token" /\ tok'[s] = h
          /\ \A x \in Tokens : x # h => token'[x] = token[x]
          /\ restricted_token' = restricted_token
    BY <1>2 DEF NewToken, FilterToken, GiveUpEarly
  <2> SUFFICES ASSUME NEW x \in Tokens, x # h, token'[x].open
               PROVE  \/ x = restricted_token'
                      \/ \E u \in Spawners : pc'[u] = "install token" /\ tok'[u] = x
    BY <2>1 DEF TokensOwned
  <2>2. x = restricted_token \/ \E u \in Spawners : pc[u] = "install token" /\ tok[u] = x
    BY <2>1 DEF TokensOwned
  <2> QED BY <1>1, <2>1, <2>2
<1>3. CASE CacheToken(s)
  <2>1. /\ pc[s] = "install token" /\ restricted_token = NoToken
        /\ restricted_token' = tok[s] /\ token' = Without(token, NoToken)
    BY <1>3 DEF CacheToken, Place, InstallToken
  <2>2. \A h \in Tokens : token'[h] = token[h]
    BY <2>1, PolicyAssumption DEF Without
  <2> QED BY ONLY <1>1, <2>1, <2>2, TokensOwned, PolicyAssumption DEF TokensOwned,
     PolicyAssumption
<1>4. CASE ~CacheToken(s) /\ ~(NewToken(s) /\ pc' # [pc EXCEPT ![s] = "idle"])
  <2>1. UNCHANGED <<token, restricted_token>> /\ pc[s] # "install token"
    BY <1>4 DEF Step, Spawn, CallSpawn, GetPolicy, DefaultPolicy, PolicyDropped,
       BorrowToken, NewToken, BorrowDesktop, NewDesktop, CacheDesktop, ReadName,
       MakeDesktop, InstallDesktop, KeepName, MakeJobObject, ApplyOptions, CreateProcess,
       AssignProcess, HardenProcess, HandOver, StartTarget, DestroyTarget, GiveUpEarly,
       GiveUp, policy_vars
  <2> QED BY ONLY <1>1, <2>1, TokensOwned DEF TokensOwned
<1> QED BY <1>2, <1>3, <1>4

(* A desktop is open only as long as somebody has it.                       *)
LEMMA DesktopsStep ==
  ASSUME Borrowing, Faithful, DesktopsOwned, NEW s \in Spawners, Step(s)
  PROVE  DesktopsOwned'
<1>0. PolicyShape /\ LocalsShape /\ Place(s)
  BY DEF Borrowing, Faithful
<1>1. \A u \in Spawners : u # s => pc'[u] = pc[u] /\ desk'[u] = desk[u]
  BY <1>0, OwnLocals
<1> USE <1>0 DEF PolicyShape, Goto
<1>2. CASE NewDesktop(s) /\ pc' # [pc EXCEPT ![s] = "idle"]
  <2>1. PICK d \in Desktops :
          /\ pc[s] = "desktop" /\ pc'[s] = "install desktop" /\ desk'[s] = d
          /\ \A x \in Desktops : x # d => desktop'[x] = desktop[x]
          /\ alternate_desktop' = alternate_desktop
    BY <1>2 DEF NewDesktop, MakeDesktop, GiveUpEarly
  <2> SUFFICES ASSUME NEW x \in Desktops, x # d, desktop'[x].open
               PROVE  \/ x = alternate_desktop'
                      \/ \E u \in Spawners : pc'[u] = "install desktop" /\ desk'[u] = x
    BY <2>1 DEF DesktopsOwned
  <2>2. x = alternate_desktop \/ \E u \in Spawners : pc[u] = "install desktop" /\ desk[u] = x
    BY <2>1 DEF DesktopsOwned
  <2> QED BY <1>1, <2>1, <2>2
<1>3. CASE CacheDesktop(s)
  <2>1. /\ pc[s] = "install desktop" /\ alternate_desktop = NoDesktop
        /\ alternate_desktop' = desk[s] /\ desktop' = Without(desktop, NoDesktop)
    BY <1>3 DEF CacheDesktop, Place, InstallDesktop
  <2>2. \A d \in Desktops : desktop'[d] = desktop[d]
    BY <2>1, PolicyAssumption DEF Without
  <2> QED BY ONLY <1>1, <2>1, <2>2, DesktopsOwned, PolicyAssumption
          DEF DesktopsOwned, PolicyAssumption
<1>4. CASE ReadName(s) /\ ~GiveUpEarly(s, "name")
  <2>1. /\ pc[s] = "name" /\ desk[s] = alternate_desktop
        /\ \A d \in Desktops : d # alternate_desktop => desktop'[d] = desktop[d]
        /\ alternate_desktop' = alternate_desktop
    BY <1>4 DEF ReadName, KeepName, Place
  <2> QED BY ONLY <1>1, <2>1, DesktopsOwned DEF DesktopsOwned
<1>5. CASE /\ ~CacheDesktop(s) /\ ~(ReadName(s) /\ ~GiveUpEarly(s, "name"))
           /\ ~(NewDesktop(s) /\ pc' # [pc EXCEPT ![s] = "idle"])
  <2>1. UNCHANGED <<desktop, alternate_desktop>> /\ pc[s] # "install desktop"
    BY <1>5 DEF Step, Spawn, CallSpawn, GetPolicy, DefaultPolicy, PolicyDropped,
       BorrowToken, NewToken, CacheToken, BorrowDesktop, NewDesktop, ReadName,
       FilterToken, InstallToken, MakeJobObject, ApplyOptions, CreateProcess,
       AssignProcess, HardenProcess, HandOver, StartTarget, DestroyTarget, GiveUpEarly,
       GiveUp, policy_vars
  <2> QED BY ONLY <1>1, <2>1, DesktopsOwned DEF DesktopsOwned
<1> QED BY <1>2, <1>3, <1>4, <1>5

(* A thread that closes its job leaves nothing without an owner. *)
LEMMA JobsStep ==
  ASSUME Inv, JobsOwned, NEW s \in Spawners, Step(s) PROVE JobsOwned'
<1>0. Shape /\ JobsAreHeld
  BY DEF Inv
<1> USE <1>0, ContainerAssumption DEF Shape, Goto
<1>1. ASSUME NEW p \in {NoProcess} \cup Process, CloseJob(s, p), job[s] \in Jobs
      PROVE  JobsOwned'
  <2> DEFINE j == job[s]
  <2>1. /\ handle' = [handle EXCEPT ![j] = FALSE] /\ job' = [job EXCEPT ![s] = NoJob]
        /\ process' = [process EXCEPT ![j] = process'[j]]
        /\ limits' = [limits EXCEPT ![j] = limits'[j]]
        /\ process'[j] = NoProcess => limits'[j] = {}
    BY <1>1 DEF CloseJob, Dies
  <2> QED BY <1>1, <2>1 DEF JobsOwned
<1>2. CASE UNCHANGED <<job, jobs>>
  BY <1>2 DEF JobsOwned, jobs
<1>3. CASE \/ CallSpawn(s) \/ GetPolicy(s) \/ BorrowToken(s) \/ NewToken(s)
           \/ CacheToken(s) \/ BorrowDesktop(s) \/ NewDesktop(s) \/ CacheDesktop(s)
           \/ ReadName(s) \/ HandOver(s)
  BY <1>2, <1>3 DEF CallSpawn, GetPolicy, BorrowToken, NewToken, CacheToken,
     BorrowDesktop, NewDesktop, CacheDesktop, ReadName, GiveUpEarly, HandOver
<1>4. CASE MakeJobObject(s) /\ ~GiveUpEarly(s, "job")
  <2>1. PICK j \in Jobs :
          /\ ~handle[j] /\ process[j] = NoProcess
          /\ handle' = [handle EXCEPT ![j] = TRUE] /\ process' = process
          /\ \/ limits' = [limits EXCEPT ![j] = limits'[j]] /\ job' = [job EXCEPT ![s] = j]
             \/ limits' = limits /\ job' = job
          /\ job[s] = NoJob
    BY <1>4 DEF MakeJobObject, JobsAreHeld, Held
  <2> QED BY <2>1 DEF JobsOwned
<1>5. ASSUME job[s] \in Jobs, UNCHANGED <<job, handle>>,
             process' = [process EXCEPT ![job[s]] = process'[job[s]]],
             limits' = [limits EXCEPT ![job[s]] = limits'[job[s]]]
      PROVE  JobsOwned'
  BY <1>5 DEF JobsOwned, JobsAreHeld
<1>6. CASE ApplyOptions(s) \/ CreateProcess(s) \/ AssignProcess(s) \/ HardenProcess(s)
           \/ StartTarget(s) \/ DestroyTarget(s)
  <2>1. job[s] \in Jobs /\ process[job[s]] \in {NoProcess} \cup Process
    BY <1>6 DEF ApplyOptions, CreateProcess, AssignProcess, HardenProcess, StartTarget,
                DestroyTarget, GiveUp, JobsAreHeld, Held
  <2>2. \/ CloseJob(s, process[job[s]]) \/ CloseJob(s, NoProcess)
        \/ /\ UNCHANGED <<job, handle>>
           /\ process' = [process EXCEPT ![job[s]] = process'[job[s]]]
           /\ limits' = [limits EXCEPT ![job[s]] = limits'[job[s]]]
    <3>1. CASE ApplyOptions(s)
      BY <2>1, <3>1 DEF ApplyOptions, GiveUp
    <3>2. CASE CreateProcess(s) \/ HardenProcess(s) \/ StartTarget(s)
      BY <2>1, <3>2 DEF CreateProcess, HardenProcess, StartTarget, GiveUp
    <3>3. CASE AssignProcess(s) \/ DestroyTarget(s)
      BY <2>1, <3>3 DEF AssignProcess, DestroyTarget, Terminated
    <3> QED BY <1>6, <3>1, <3>2, <3>3
  <2> QED BY <1>1, <1>5, <2>1, <2>2
<1>7. CASE GiveUpEarly(s, "job")
  BY <1>2, <1>7 DEF GiveUpEarly
<1> QED BY <1>3, <1>4, <1>6, <1>7 DEF Step, Spawn, MakeJobObject

(* A setter closes only what it takes out of a cache. *)
LEMMA SetterOwned ==
  ASSUME Borrowing, TokensOwned, DesktopsOwned, ChangePolicy
  PROVE  TokensOwned' /\ DesktopsOwned'
<1>1. UNCHANGED <<pc, tok, desk>>
  BY DEF ChangePolicy, container_vars, locals
<1>2. \/ UNCHANGED <<token, restricted_token>>
      \/ /\ restricted_token' = NoToken
         /\ \A h \in Tokens : token'[h] = IF h = restricted_token THEN Closed ELSE token[h]
  BY DEF ChangePolicy, Setter, SetLogon, AddRestrictSid, RemoveRestrictSid, SetUseDesktop,
         SetBasicLimit, ResetToken, Without, Borrowing, PolicyShape
<1>3. \/ UNCHANGED <<desktop, alternate_desktop>>
      \/ /\ alternate_desktop' = NoDesktop
         /\ \A d \in Desktops : desktop'[d] = IF d = alternate_desktop THEN Closed ELSE desktop[d]
  BY DEF ChangePolicy, Setter, SetLogon, AddRestrictSid, RemoveRestrictSid, SetUseDesktop,
         SetBasicLimit, ResetDesktop, Without, Borrowing, PolicyShape
<1>4. ~Closed.open
  BY DEF Closed
<1>5. TokensOwned'
  BY ONLY TokensOwned, <1>1, <1>2, <1>4 DEF TokensOwned
<1>6. DesktopsOwned'
  BY ONLY DesktopsOwned, <1>1, <1>3, <1>4 DEF DesktopsOwned
<1> QED BY <1>5, <1>6

(* Every open token, desktop and job has an owner, whichever call of Spawn  *)
(* failed on whichever thread, but for the jobs that Policy::MakeJobObject  *)
(* gives up (core/policy.cc:110-132): no other handle is leaked.            *)
THEOREM HandlesOwned == Spec => []HandlesAreOwned
<1> DEFINE Owned == TokensOwned /\ DesktopsOwned /\ JobsOwned
<1>1. Init => Owned
  BY DEF Init, PolicyInit, Closed, TokensOwned, DesktopsOwned, JobsOwned
<1>2. ASSUME Owned, UNCHANGED vars PROVE Owned'
  BY <1>2 DEF vars, policy_vars, container_vars, locals, jobs, TokensOwned, DesktopsOwned,
              JobsOwned
<1>3. ASSUME Borrowing, Owned, ChangePolicy PROVE Owned'
  BY <1>3, SetterOwned DEF ChangePolicy, container_vars, jobs, JobsOwned
<1>4. Inv /\ Borrowing /\ Faithful /\ Owned /\ [Next]_vars => Owned'
  BY <1>2, <1>3, TokensStep, DesktopsStep, JobsStep DEF Next, Step
<1>5. Owned => HandlesAreOwned
  BY DEF TokensOwned, DesktopsOwned, JobsOwned, HandlesAreOwned
<1> QED BY <1>1, <1>4, <1>5, Invariant, BorrowingInvariant, FaithfulInvariant, PTL DEF Spec

-----------------------------------------------------------------------------
(***************************************************************************)
(* Types                                                                   *)
(***************************************************************************)
SidsShape == restricted_sids \in Seq(Sids) /\ Len(restricted_sids) <= MaxSids

BornAs(s) ==
  pc[s] \in {"assign", "harden", "hand over"} =>
    born_as[s] \in [token : TokenInfo, desktop : Desktops \cup {NoDesktop}]

Typed ==
  /\ policy \in BOOLEAN /\ kill_on_close \in BOOLEAN
  /\ SidsShape
  /\ \A h \in Tokens : token[h].open => token[h].is \in TokenInfo
  /\ \A s \in Spawners : BornAs(s)

(* GetPolicy and the setters keep the list of SIDs within its bound. *)
LEMMA SidsStep == ASSUME Borrowing, SidsShape, Next PROVE SidsShape'
<1> USE PolicyAssumption DEF SidsShape, Sids, Borrowing, PolicyShape
<1>1. GetLogon \in Logons
  BY DEF GetLogon
<1>2. CASE DefaultPolicy
  <2>1. WellKnownSids \in Seq(Sids) /\ <<GetLogon>> \in Seq(Sids)
    BY <1>1
  <2> QED BY <1>2, <2>1 DEF DefaultPolicy
<1>3. ASSUME NEW sid \in Sids, AddRestrictSid(sid) PROVE SidsShape'
  BY <1>3 DEF AddRestrictSid
<1>4. ASSUME NEW sid \in Sids, RemoveRestrictSid(sid) PROVE SidsShape'
  <2> DEFINE kept == Only(restricted_sids, Sids \ {sid})
  <2>1. kept \in Seq(Sids \cap (Sids \ {sid})) /\ Len(kept) <= Len(restricted_sids)
    BY OnlyType
  <2>2. restricted_sids' = kept
    BY <1>4 DEF RemoveRestrictSid
  <2> HIDE DEF kept
  <2> QED BY <2>1, <2>2
<1>5. CASE UNCHANGED restricted_sids
  BY <1>5
<1>6. ASSUME NEW s \in Spawners, Step(s) PROVE DefaultPolicy \/ UNCHANGED restricted_sids
  <2>1. CASE \/ CallSpawn(s) \/ GetPolicy(s) \/ BorrowToken(s) \/ NewToken(s)
             \/ CacheToken(s) \/ BorrowDesktop(s) \/ NewDesktop(s) \/ CacheDesktop(s)
             \/ ReadName(s)
    BY <2>1 DEF CallSpawn, GetPolicy, BorrowToken, NewToken, CacheToken, BorrowDesktop,
       NewDesktop, CacheDesktop, ReadName, PolicyDropped, GiveUpEarly, FilterToken,
       InstallToken, MakeDesktop, InstallDesktop, KeepName, policy_vars
  <2>2. CASE \/ MakeJobObject(s) \/ ApplyOptions(s) \/ CreateProcess(s)
             \/ AssignProcess(s) \/ HardenProcess(s) \/ HandOver(s)
             \/ StartTarget(s) \/ DestroyTarget(s)
    BY <2>2 DEF MakeJobObject, ApplyOptions, CreateProcess, AssignProcess, HardenProcess,
                HandOver, GiveUpEarly, GiveUp, StartTarget, DestroyTarget, policy_vars
  <2> QED BY <1>6, <2>1, <2>2 DEF Step, Spawn
<1>7. CASE ChangePolicy
  BY <1>3, <1>4, <1>5, <1>7 DEF ChangePolicy, Setter, SetLogon, SetUseDesktop, SetBasicLimit
<1> QED BY <1>2, <1>5, <1>6, <1>7 DEF Next, Step

(* A token is made for one logon and some of the SIDs. *)
LEMMA TokenInfoStep ==
  ASSUME Borrowing, SidsShape, Next, NEW h \in Tokens, token'[h].open,
         token[h].open => token[h].is \in TokenInfo
  PROVE  token'[h].is \in TokenInfo
<1> USE PolicyAssumption DEF Borrowing, PolicyShape
<1>1. RestrictedTo(GetLogon, restricted_sids) \in TokenInfo
  <2>1. GetLogon \in Logons
    BY DEF GetLogon
  <2>2. ToSet(restricted_sids) \subseteq Sids
    BY DEF ToSet, SidsShape
  <2> QED BY <2>1, <2>2 DEF RestrictedTo, TokenInfo
<1>2. CASE token'[h] = Opened(RestrictedTo(GetLogon, restricted_sids))
  BY <1>1, <1>2 DEF Opened
<1>3. CASE token'[h] \in {token[h], Closed}
  BY <1>3 DEF Closed
<1>4. ASSUME NEW s \in Spawners, Step(s)
      PROVE  \/ token'[h] = Opened(RestrictedTo(GetLogon, restricted_sids))
             \/ token'[h] \in {token[h], Closed}
  <2>1. CASE NewToken(s)
    BY <2>1 DEF NewToken, GiveUpEarly, FilterToken, policy_vars
  <2>2. CASE CacheToken(s)
    BY <2>2 DEF CacheToken, InstallToken, Without
  <2>3. CASE \/ CallSpawn(s) \/ GetPolicy(s) \/ BorrowToken(s)
             \/ BorrowDesktop(s) \/ NewDesktop(s) \/ CacheDesktop(s) \/ ReadName(s)
    BY <2>3 DEF CallSpawn, GetPolicy, DefaultPolicy, PolicyDropped, BorrowToken,
       BorrowDesktop, NewDesktop, CacheDesktop, ReadName, GiveUpEarly, MakeDesktop,
       InstallDesktop, KeepName, policy_vars
  <2>4. CASE \/ MakeJobObject(s) \/ ApplyOptions(s) \/ CreateProcess(s)
             \/ AssignProcess(s) \/ HardenProcess(s) \/ HandOver(s)
             \/ StartTarget(s) \/ DestroyTarget(s)
    BY <2>4 DEF MakeJobObject, ApplyOptions, CreateProcess, AssignProcess, HardenProcess,
                HandOver, GiveUpEarly, GiveUp, StartTarget, DestroyTarget, policy_vars
  <2> QED BY <1>4, <2>1, <2>2, <2>3, <2>4 DEF Step, Spawn
<1>5. CASE ChangePolicy
  BY <1>3, <1>5 DEF ChangePolicy, Setter, SetLogon, AddRestrictSid, RemoveRestrictSid,
     SetUseDesktop, SetBasicLimit, ResetToken, Without
<1> QED BY <1>2, <1>3, <1>4, <1>5 DEF Next, Step

(* A process is born with a token that is open and with the thread's desktop. *)
LEMMA BornAsStep ==
  ASSUME Borrowing, Faithful, Typed, NEW s \in Spawners, Step(s), NEW u \in Spawners
  PROVE  BornAs(u)'
<1>0. PolicyShape /\ LocalsShape /\ Place(s) /\ BornAs(u) /\ BornAs(s)
  BY DEF Borrowing, Faithful, Typed
<1>1. CASE u # s
  BY <1>0, <1>1, OwnLocals DEF BornAs
<1>2. CASE u = s
  <2> USE <1>0, PolicyAssumption DEF PolicyShape, LocalsShape, Goto
  <2>1. CASE CreateProcess(s) /\ ~GiveUp(s, "create")
    <3>1. /\ pc[s] = "create" /\ token[tok[s]].open
          /\ born_as'[s] = [token |-> token[tok[s]].is, desktop |-> desk[s]]
      BY <2>1 DEF CreateProcess
    <3>2. tok[s] \in Tokens
      BY <3>1 DEF Place
    <3>3. token[tok[s]].is \in TokenInfo
      BY <3>1, <3>2 DEF Typed
    <3>4. [token |-> token[tok[s]].is, desktop |-> desk[s]]
            \in [token : TokenInfo, desktop : Desktops \cup {NoDesktop}]
      BY <3>3
    <3> QED BY <1>2, <3>1, <3>4 DEF BornAs
  <2>2. CASE pc'[s] \notin {"assign", "harden", "hand over"}
    BY <1>2, <2>2 DEF BornAs
  <2>3. CASE pc[s] \in {"assign", "harden", "hand over"} /\ born_as' = born_as
    BY <1>2, <2>3 DEF BornAs
  <2>4. \/ CreateProcess(s) /\ ~GiveUp(s, "create")
        \/ pc'[s] \notin {"assign", "harden", "hand over"}
        \/ pc[s] \in {"assign", "harden", "hand over"} /\ born_as' = born_as
    <3>1. CASE \/ CallSpawn(s) \/ GetPolicy(s) \/ BorrowToken(s) \/ NewToken(s)
               \/ CacheToken(s) \/ BorrowDesktop(s) \/ NewDesktop(s) \/ CacheDesktop(s)
               \/ ReadName(s)
      BY <3>1 DEF CallSpawn, GetPolicy, BorrowToken, NewToken, CacheToken, BorrowDesktop,
         NewDesktop, CacheDesktop, ReadName, GiveUpEarly
    <3>2. CASE \/ MakeJobObject(s) \/ ApplyOptions(s) \/ CreateProcess(s)
               \/ AssignProcess(s) \/ HardenProcess(s) \/ HandOver(s)
      BY <3>2 DEF MakeJobObject, ApplyOptions, CreateProcess, AssignProcess, HardenProcess,
                  HandOver, GiveUpEarly, GiveUp, locals
    <3>3. CASE StartTarget(s) \/ DestroyTarget(s)
      BY <3>3 DEF StartTarget, DestroyTarget, locals
    <3> QED BY <3>1, <3>2, <3>3 DEF Step, Spawn
  <2> QED BY <2>1, <2>2, <2>3, <2>4
<1> QED BY <1>1, <1>2

(* The flags of the container stay flags.                                   *)
LEMMA FlagsStep ==
  ASSUME policy \in BOOLEAN, kill_on_close \in BOOLEAN, Next
  PROVE  policy' \in BOOLEAN /\ kill_on_close' \in BOOLEAN
<1>1. CASE ChangePolicy
  BY <1>1 DEF ChangePolicy, container_vars, Setter, SetLogon, AddRestrictSid,
              RemoveRestrictSid, SetUseDesktop, SetBasicLimit
<1>2. ASSUME NEW s \in Spawners, Step(s)
      PROVE  policy' \in BOOLEAN /\ kill_on_close' \in BOOLEAN
  <2>1. CASE \/ CallSpawn(s) \/ GetPolicy(s) \/ BorrowToken(s) \/ NewToken(s)
             \/ CacheToken(s) \/ BorrowDesktop(s) \/ NewDesktop(s) \/ CacheDesktop(s)
             \/ ReadName(s)
    BY <2>1 DEF CallSpawn, GetPolicy, DefaultPolicy, PolicyDropped, BorrowToken,
       NewToken, CacheToken, BorrowDesktop, NewDesktop, CacheDesktop, ReadName,
       GiveUpEarly, FilterToken, InstallToken, MakeDesktop, InstallDesktop, KeepName,
       policy_vars
  <2>2. CASE \/ MakeJobObject(s) \/ ApplyOptions(s) \/ CreateProcess(s)
             \/ AssignProcess(s) \/ HardenProcess(s) \/ HandOver(s)
             \/ StartTarget(s) \/ DestroyTarget(s)
    BY <2>2 DEF MakeJobObject, ApplyOptions, CreateProcess, AssignProcess, HardenProcess,
                HandOver, GiveUpEarly, GiveUp, StartTarget, DestroyTarget, policy_vars
  <2> QED BY <1>2, <2>1, <2>2 DEF Step, Spawn
<1> QED BY <1>1, <1>2 DEF Next, Step

(* Flags, SIDs, tokens and new processes have their types always. *)
LEMMA TypedInvariant == Spec => []Typed
<1>1. ASSUME Init PROVE Typed
  <2>1. SidsShape
    BY <1>1, PolicyAssumption DEF Init, PolicyInit, SidsShape
  <2>2. \A s \in Spawners : BornAs(s)
    BY <1>1 DEF Init, BornAs
  <2> QED BY <1>1, <2>1, <2>2 DEF Init, PolicyInit, Typed, Closed
<1>2. ASSUME Typed, UNCHANGED vars PROVE Typed'
  BY <1>2 DEF vars, policy_vars, container_vars, locals, Typed, SidsShape, BornAs
<1>3. ASSUME Borrowing, Faithful, Typed, Next PROVE Typed'
  <2>1. /\ policy' \in BOOLEAN /\ kill_on_close' \in BOOLEAN /\ SidsShape'
    BY <1>3, FlagsStep, SidsStep DEF Typed
  <2>2. \A h \in Tokens : token'[h].open => token'[h].is \in TokenInfo
    BY <1>3, TokenInfoStep DEF Typed
  <2>3. CASE ChangePolicy
    <3>1. \A s \in Spawners : BornAs(s)'
      BY <1>3, <2>3 DEF ChangePolicy, InSpawn, container_vars, locals, BornAs
    <3> QED BY <2>1, <2>2, <3>1 DEF Typed
  <2>4. ASSUME NEW s \in Spawners, Step(s) PROVE Typed'
    BY <1>3, <2>1, <2>2, <2>4, BornAsStep DEF Typed
  <2> QED BY <1>3, <2>3, <2>4 DEF Next, Step
<1>4. Borrowing /\ Faithful /\ Typed /\ [Next]_vars => Typed'
  BY <1>2, <1>3
<1> QED BY <1>1, <1>4, BorrowingInvariant, FaithfulInvariant, PTL DEF Spec

(* Every variable of the container and of its policy has its type; a new    *)
(* process's token is one that FilterToken has made (core/policy.cc:66).    *)
THEOREM Types == Spec => []TypeOK
<1>1. Inv /\ Borrowing /\ Faithful /\ Typed => TypeOK
  <2> SUFFICES ASSUME Inv, Borrowing, Faithful, Typed PROVE TypeOK
    OBVIOUS
  <2>1. PolicyTypeOK
    <3>1. \A d \in Desktops : desktop[d].open =>
            desktop[d].is \in SUBSET Logons /\ desktop[d].named \in BOOLEAN
      <4> SUFFICES ASSUME NEW d \in Desktops, desktop[d].open
                   PROVE  desktop[d].is \in SUBSET Logons /\ desktop[d].named \in BOOLEAN
        OBVIOUS
      <4>1. desktop[d] # Closed
        BY DEF Closed
      <4>2. desktop[d] \in OpenDesktop
        BY <4>1 DEF Borrowing, PolicyShape
      <4> HIDE DEF Typed
      <4> QED BY <4>2 DEF OpenDesktop
    <3> QED BY <3>1 DEF Borrowing, PolicyShape, Typed, SidsShape, PolicyTypeOK
  <2>2. \A j \in Jobs : process[j] = NoProcess \/ process[j] \in Process
    BY DEF Inv, Shape
  <2> QED BY <2>1, <2>2 DEF Inv, Shape, Borrowing, PolicyShape, Faithful, LocalsShape,
     Typed, BornAs, TypeOK, Process
<1> QED BY <1>1, Invariant, BorrowingInvariant, FaithfulInvariant, TypedInvariant, PTL

-----------------------------------------------------------------------------
(***************************************************************************)
(* Container implements Sandbox: a client sees one step for all of Spawn.  *)
(* Only the last steps show.  Before them the process is behind a job that *)
(* only the spawning thread knows, and the policy asks for the same whether *)
(* it is still to be made, or some of its caches are still to be filled.   *)
(***************************************************************************)
OwnedBy(s) == IF pc[s] = "spawned" THEN job[s] ELSE NoJob
Owned == [s \in Spawners |-> OwnedBy(s)]
SeenJobs == [j \in Jobs |-> Seen(j)]

(* Until the policy is made nobody can have set its logon. *)
LogonIsUnset == ~policy => logon = NoLogon

(* The threads whose spawn is under way. *)
Calling == {s \in Spawners : InSpawn(s)}

(* A step that shows nothing, and one that is not a step of Sandbox. *)
Hidden == UNCHANGED <<Asked, Owned, SeenJobs>>
Unseen == Hidden /\ Calling' = Calling

-----------------------------------------------------------------------------
(* What no thread does in Spawn: change what the policy asks for.  That     *)
(* GetPolicy makes the default one, and that a null logon becomes the       *)
(* process's own, is not to be seen.                                        *)
LEMMA AskedStays ==
  ASSUME Borrowing, Faithful, LogonIsUnset, NEW s \in Spawners, Step(s)
  PROVE  Asked' = Asked /\ LogonIsUnset'
<1> USE PolicyAssumption DEF LogonIsUnset
<1>1. CASE DefaultPolicy /\ ~policy
  <2>1. GetLogon = CurrentLogon /\ GetLogon' = GetLogon /\ policy'
    BY <1>1 DEF DefaultPolicy, GetLogon
  <2>2. ToSet(<<GetLogon>> \o WellKnownSids) = {CurrentLogon} \cup ToSet(WellKnownSids)
    <3>1. <<GetLogon>> \in Seq(Sids) /\ WellKnownSids \in Seq(Sids)
      BY <2>1 DEF Sids
    <3>2. ToSet(<<GetLogon>>) = {CurrentLogon}
      BY <2>1 DEF ToSet
    <3>3. ToSet(<<GetLogon>> \o WellKnownSids) = ToSet(<<GetLogon>>) \cup ToSet(WellKnownSids)
      BY ONLY <3>1, ToSetConcat
    <3> QED BY <3>2, <3>3
  <2> QED BY <1>1, <2>1, <2>2 DEF DefaultPolicy, Asked
<1>2. CASE /\ policy' = policy /\ GetLogon' = GetLogon /\ (~policy => logon' = logon)
           /\ UNCHANGED <<restricted_sids, use_desktop, kill_on_close>>
  BY <1>2 DEF Asked
<1>3. CASE CallSpawn(s) \/ GetPolicy(s)
  <2>1. CASE GetPolicy(s) /\ DefaultPolicy
    <3>1. ~policy
      BY <2>1 DEF GetPolicy, Goto, Borrowing, Place
    <3> QED BY <1>1, <2>1, <3>1
  <2>2. CASE CallSpawn(s) \/ (GetPolicy(s) /\ ~DefaultPolicy)
    BY <1>2, <2>2 DEF CallSpawn, GetPolicy, PolicyDropped, policy_vars, GetLogon
  <2> QED BY <1>3, <2>1, <2>2
<1>4. CASE NewToken(s) \/ NewDesktop(s)
  <2>1. policy /\ logon # NoLogon
    BY <1>4 DEF NewToken, NewDesktop, GiveUpEarly, Goto, Faithful, MadeWhole, InSpawn
  <2>2. policy' = policy /\ logon' = logon
        /\ UNCHANGED <<restricted_sids, use_desktop, kill_on_close>>
    BY <1>4, <2>1 DEF NewToken, NewDesktop, GiveUpEarly, FilterToken, MakeDesktop,
                      GetLogon, policy_vars
  <2> QED BY <1>2, <2>1, <2>2 DEF GetLogon
<1>5. CASE \/ BorrowToken(s) \/ CacheToken(s) \/ BorrowDesktop(s) \/ CacheDesktop(s)
           \/ ReadName(s) \/ MakeJobObject(s) \/ ApplyOptions(s) \/ CreateProcess(s)
           \/ AssignProcess(s) \/ HardenProcess(s) \/ HandOver(s)
           \/ StartTarget(s) \/ DestroyTarget(s)
  <2>1. UNCHANGED <<policy, logon, restricted_sids, use_desktop, kill_on_close>>
    BY <1>5 DEF BorrowToken, CacheToken, BorrowDesktop, CacheDesktop, ReadName,
       MakeJobObject, ApplyOptions, CreateProcess, AssignProcess, HardenProcess, HandOver,
       StartTarget, DestroyTarget, GiveUpEarly, GiveUp, InstallToken, InstallDesktop,
       KeepName, policy_vars
  <2> QED BY <1>2, <2>1 DEF GetLogon
<1> QED BY <1>3, <1>4, <1>5 DEF Step, Spawn

(* What is asked for is a policy. *)
LEMMA AskedIsPolicy == ASSUME Borrowing, Typed PROVE Asked \in PolicyInfo
<1> USE PolicyAssumption
<1>1. GetLogon \in Logons /\ use_desktop \in BOOLEAN
  BY DEF Borrowing, PolicyShape, GetLogon
<1>2. policy \in BOOLEAN /\ kill_on_close \in BOOLEAN
  BY DEF Typed
<1>3. ToSet(restricted_sids) \in SUBSET Sids
  BY DEF Typed, SidsShape, ToSet
<1>4. {CurrentLogon} \cup ToSet(WellKnownSids) \in SUBSET Sids
  BY DEF Sids
<1> QED BY <1>1, <1>2, <1>3, <1>4 DEF Asked, PolicyInfo

(* Nothing is made yet. *)
LEMMA SandboxInit == Init => Client!Init
<1> SUFFICES ASSUME Init PROVE Client!Init
  OBVIOUS
<1>1. Asked \in PolicyInfo
  <2>1. logon = NoLogon /\ ~policy /\ use_desktop = FALSE
    BY DEF Init, PolicyInit
  <2> QED BY <2>1, PolicyAssumption DEF Asked, PolicyInfo, GetLogon, Sids
<1>2. /\ Owned = [s \in Spawners |-> NoJob] /\ SeenJobs = [j \in Jobs |-> NoProcess]
      /\ Calling = {}
  BY DEF Init, Owned, OwnedBy, SeenJobs, Seen, Calling, InSpawn
<1> QED BY <1>1, <1>2 DEF Client!Init, Client!Nothing, NoProcess, Owned, OwnedBy, SeenJobs,
                           Calling

-----------------------------------------------------------------------------
(* A thread's step shows in no job but its own, and in no other target. *)
LEMMA SeenElsewhere ==
  ASSUME Inv, Borrowing, Faithful, NEW s \in Spawners, Step(s)
  PROVE  /\ \A u \in Spawners : u # s => pc'[u] = pc[u] /\ job'[u] = job[u]
         /\ \A j \in Jobs : j # job[s] /\ j # job'[s] => Seen(j)' = Seen(j)
<1> USE DEF Inv, Shape
<1>1. \A u \in Spawners : u # s => pc'[u] = pc[u]
  BY OwnLocals DEF Borrowing, Faithful
<1>2. /\ \A u \in Spawners : u # s => job'[u] = job[u]
      /\ \A j \in Jobs : j # job[s] /\ j # job'[s] =>
           process'[j] = process[j] /\ limits'[j] = limits[j]
  <2>1. CASE UNCHANGED <<job, process, limits>>
    BY <2>1
  <2>2. ASSUME NEW p, CloseJob(s, p)
        PROVE  /\ \A u \in Spawners : u # s => job'[u] = job[u]
               /\ \A j \in Jobs : j # job[s] =>
                    process'[j] = process[j] /\ limits'[j] = limits[j]
    BY <2>2 DEF CloseJob
  <2>3. CASE \/ CallSpawn(s) \/ GetPolicy(s) \/ BorrowToken(s) \/ NewToken(s)
             \/ CacheToken(s) \/ BorrowDesktop(s) \/ NewDesktop(s) \/ CacheDesktop(s)
             \/ ReadName(s) \/ HandOver(s)
    BY <2>1, <2>3 DEF CallSpawn, GetPolicy, BorrowToken, NewToken, CacheToken,
       BorrowDesktop, NewDesktop, CacheDesktop, ReadName, GiveUpEarly, HandOver, jobs
  <2>4. CASE MakeJobObject(s)
    BY <2>4 DEF MakeJobObject, GiveUpEarly, jobs
  <2>5. CASE \E p : CloseJob(s, p)
    BY <2>2, <2>5
  <2>6. CASE \/ ApplyOptions(s) \/ CreateProcess(s) \/ AssignProcess(s)
             \/ HardenProcess(s) \/ StartTarget(s) \/ DestroyTarget(s)
    BY <2>5, <2>6 DEF ApplyOptions, CreateProcess, AssignProcess, HardenProcess,
                      StartTarget, DestroyTarget, GiveUp
  <2> QED BY <2>3, <2>4, <2>6 DEF Step, Spawn
<1>3. ASSUME NEW j \in Jobs, j # job[s], j # job'[s] PROVE Seen(j)' = Seen(j)
  <2>1. (\E u \in Spawners : InSpawn(u) /\ job[u] = j)'
          <=> \E u \in Spawners : InSpawn(u) /\ job[u] = j
    BY <1>1, <1>2, <1>3 DEF InSpawn
  <2>2. process'[j] = process[j] /\ limits'[j] = limits[j]
    BY <1>2, <1>3
  <2> QED BY ONLY <2>1, <2>2 DEF Seen
<1> QED BY <1>1, <1>2, <1>3

(* The job a thread holds in Spawn is not to be seen, and one that it gives *)
(* up is as CloseJob leaves it.                                             *)
LEMMA SeenOwn ==
  ASSUME Inv, Borrowing, Faithful, NEW s \in Spawners, Step(s)
  PROVE  /\ job[s] # NoJob =>
              Seen(job[s]) = IF InSpawn(s) \/ process[job[s]] = NoProcess THEN NoProcess
                             ELSE [state |-> process[job[s]].state, limits |-> limits[job[s]]]
         /\ \A j \in Jobs : j \in {job[s], job'[s]} =>
              Seen(j)' = IF (InSpawn(s)' /\ job'[s] = j) \/ process'[j] = NoProcess
                         THEN NoProcess
                         ELSE [state |-> process'[j].state, limits |-> limits'[j]]
<1> USE ContainerAssumption DEF Inv, Shape, JobsAreHeld
<1>1. \A u \in Spawners : u # s => pc'[u] = pc[u] /\ job'[u] = job[u]
  BY SeenElsewhere
<1>2. ASSUME job[s] # NoJob
      PROVE  (\E u \in Spawners : InSpawn(u) /\ job[u] = job[s]) <=> InSpawn(s)
  BY <1>2
<1>3. ASSUME NEW j \in Jobs, j \in {job[s], job'[s]}
      PROVE  (\E u \in Spawners : InSpawn(u) /\ job[u] = j)' <=> InSpawn(s)' /\ job'[s] = j
  <2>1. \A u \in Spawners : u # s => job[u] # j
    <3>1. CASE j = job[s]
      BY <3>1
    <3>2. CASE j # job[s]
      <4>1. MakeJobObject(s) /\ ~handle[j]
        BY <1>3, <3>2 DEF Step, Spawn, CallSpawn, GetPolicy, BorrowToken, NewToken,
           CacheToken, BorrowDesktop, NewDesktop, CacheDesktop, ReadName, GiveUpEarly,
           MakeJobObject, ApplyOptions, CreateProcess, AssignProcess, HardenProcess,
           HandOver, StartTarget, DestroyTarget, GiveUp, CloseJob
      <4> QED BY <4>1
    <3> QED BY <3>1, <3>2
  <2> QED BY <1>1, <2>1 DEF InSpawn
<1>4. ASSUME job[s] # NoJob
      PROVE Seen(job[s]) = IF InSpawn(s) \/ process[job[s]] = NoProcess THEN NoProcess
                           ELSE [state |-> process[job[s]].state, limits |-> limits[job[s]]]
  BY <1>2, <1>4 DEF Seen
<1>5. ASSUME NEW j \in Jobs, j \in {job[s], job'[s]}
      PROVE  Seen(j)' = IF (InSpawn(s)' /\ job'[s] = j) \/ process'[j] = NoProcess
                        THEN NoProcess
                        ELSE [state |-> process'[j].state, limits |-> limits'[j]]
  BY <1>3, <1>5 DEF Seen
<1> QED BY <1>4, <1>5

(* What a step of a thread makes of the jobs and targets that are seen. *)
LEMMA SeenStep ==
  ASSUME Inv, Borrowing, Faithful, NEW s \in Spawners, Step(s)
  PROVE  /\ Owned' = [Owned EXCEPT ![s] = OwnedBy(s)']
         /\ \A j \in Jobs : j = job[s] \/ (job[s] = NoJob /\ j = job'[s]) =>
              SeenJobs' = [SeenJobs EXCEPT ![j] = Seen(j)']
         /\ job[s] = NoJob /\ job'[s] = NoJob => SeenJobs' = SeenJobs
<1>1. /\ \A u \in Spawners : u # s => pc'[u] = pc[u] /\ job'[u] = job[u]
      /\ \A j \in Jobs : j # job[s] /\ j # job'[s] => Seen(j)' = Seen(j)
  BY SeenElsewhere
<1>2. job[s] # NoJob => job'[s] \in {job[s], NoJob}
  BY DEF Inv, Shape, JobsAreHeld, Held, Goto, Step, Spawn, CallSpawn, GetPolicy,
     BorrowToken, NewToken, CacheToken, BorrowDesktop, NewDesktop, CacheDesktop,
     ReadName, GiveUpEarly, MakeJobObject, ApplyOptions, CreateProcess, AssignProcess,
     HardenProcess, HandOver, StartTarget, DestroyTarget, GiveUp, CloseJob
<1>3. Owned' = [Owned EXCEPT ![s] = OwnedBy(s)']
  BY <1>1 DEF Owned, OwnedBy
<1>4. ASSUME NEW j \in Jobs, j = job[s] \/ (job[s] = NoJob /\ j = job'[s])
      PROVE  SeenJobs' = [SeenJobs EXCEPT ![j] = Seen(j)']
  BY <1>1, <1>2, <1>4, ContainerAssumption DEF SeenJobs
<1>5. ASSUME job[s] = NoJob, job'[s] = NoJob PROVE SeenJobs' = SeenJobs
  BY <1>1, <1>5, ContainerAssumption DEF SeenJobs
<1> QED BY <1>3, <1>4, <1>5

(* A thread enters and leaves Spawn by its own steps. *)
LEMMA CallingStep ==
  ASSUME Borrowing, Faithful, NEW s \in Spawners, Step(s)
  PROVE  Calling' = IF InSpawn(s)' THEN Calling \cup {s} ELSE Calling \ {s}
<1>1. \A u \in Spawners : u # s => pc'[u] = pc[u]
  BY OwnLocals DEF Borrowing, Faithful
<1> QED BY <1>1 DEF Calling, InSpawn

-----------------------------------------------------------------------------
SpawnInv == /\ Inv
            /\ Borrowing
            /\ Faithful
            /\ Typed
            /\ LogonIsUnset
            /\ \A s \in Spawners : Limited(s)

(* Up to the process, and where it fails, Spawn shows nothing. *)
LEMMA SpawnUnseen ==
  ASSUME SpawnInv, NEW s \in Spawners,
         \/ CallSpawn(s) \/ GetPolicy(s) \/ BorrowToken(s) \/ NewToken(s) \/ CacheToken(s)
         \/ BorrowDesktop(s) \/ NewDesktop(s) \/ CacheDesktop(s) \/ ReadName(s)
         \/ MakeJobObject(s) \/ ApplyOptions(s) \/ CreateProcess(s) \/ AssignProcess(s)
         \/ HardenProcess(s) /\ ~GiveUp(s, "harden")
  PROVE  Hidden
<1> USE ContainerAssumption DEF SpawnInv
<1>0. Step(s)
  BY DEF Step, Spawn
<1>1. Asked' = Asked
  BY <1>0, AskedStays
<1>2. OwnedBy(s) = NoJob /\ OwnedBy(s)' = NoJob
  BY DEF OwnedBy, Inv, Shape, Goto, CallSpawn, GetPolicy, BorrowToken, NewToken, CacheToken,
     BorrowDesktop, NewDesktop, CacheDesktop, ReadName, GiveUpEarly, MakeJobObject,
     ApplyOptions, CreateProcess, AssignProcess, HardenProcess, GiveUp
<1>3. Owned' = Owned
  <2>1. Owned' = [Owned EXCEPT ![s] = NoJob] /\ Owned[s] = NoJob
    BY <1>0, <1>2, SeenStep DEF Owned
  <2> QED BY <2>1 DEF Owned
<1>4. CASE job[s] = NoJob
  <2>1. CASE job'[s] = NoJob
    BY <1>0, <1>1, <1>3, <1>4, <2>1, SeenStep DEF Hidden
  <2>2. CASE job'[s] # NoJob
    <3>1. MakeJobObject(s)
      BY <1>4, <2>2 DEF CallSpawn, GetPolicy, BorrowToken, NewToken, CacheToken,
         BorrowDesktop, NewDesktop, CacheDesktop, ReadName, GiveUpEarly, MakeJobObject,
         ApplyOptions, CreateProcess, AssignProcess, HardenProcess, GiveUp, CloseJob,
         Inv, Shape, JobsAreHeld
    <3>2. PICK j \in Jobs : j = job'[s] /\ process[j] = NoProcess /\ process'[j] = NoProcess
      BY <1>4, <2>2, <3>1 DEF MakeJobObject, GiveUpEarly, Inv, Shape
    <3>3. Seen(j) = NoProcess /\ Seen(j)' = NoProcess
      BY <3>2 DEF Seen
    <3>4. SeenJobs' = [SeenJobs EXCEPT ![j] = NoProcess]
      BY <1>0, <1>4, <3>2, <3>3, SeenStep
    <3>5. SeenJobs' = SeenJobs
      BY <3>3, <3>4 DEF SeenJobs
    <3> QED BY <1>1, <1>3, <3>5 DEF Hidden
  <2> QED BY <2>1, <2>2
<1>5. CASE job[s] # NoJob
  <2>0. PICK j \in Jobs : j = job[s]
    BY <1>5 DEF Inv, Shape
  <2> USE <2>0
  <2>1. /\ pc[s] \in Held
        /\ \/ ApplyOptions(s) \/ CreateProcess(s) \/ AssignProcess(s)
           \/ HardenProcess(s) /\ ~GiveUp(s, "harden")
    BY <1>5 DEF Inv, Shape, JobsAreHeld, Held, Goto, CallSpawn, GetPolicy, BorrowToken,
       NewToken, CacheToken, BorrowDesktop, NewDesktop, CacheDesktop, ReadName,
       GiveUpEarly, MakeJobObject
  <2>2. InSpawn(s)
    BY <2>1 DEF Goto, ApplyOptions, CreateProcess, AssignProcess, HardenProcess, GiveUp,
                InSpawn
  <2>3. Seen(j) = NoProcess
    BY <1>5, <2>1, <2>2 DEF Seen
  <2>4. Seen(j)' = NoProcess
    <3>1. CASE job'[s] = j /\ InSpawn(s)'
      BY <3>1 DEF Seen
    <3>2. CASE process'[j] = NoProcess
      BY <3>2 DEF Seen
    <3>3. \/ job'[s] = j /\ pc'[s] \in {"create", "assign", "harden", "hand over"}
          \/ CloseJob(s, NoProcess)
      BY <2>1 DEF Inv, Shape, ProcessFollowsSpawn, Prepared, Goto, ApplyOptions,
         CreateProcess, AssignProcess, HardenProcess, GiveUp, Terminated
    <3>4. CASE CloseJob(s, NoProcess)
      BY <2>1, <3>2, <3>4 DEF CloseJob, Dies, Inv, Shape
    <3> QED BY <3>1, <3>3, <3>4 DEF InSpawn
  <2>5. SeenJobs' = SeenJobs
    BY <1>0, <2>1, <2>3, <2>4, SeenStep DEF SeenJobs
  <2> QED BY <1>1, <1>3, <2>5 DEF Hidden
<1> QED BY <1>4, <1>5

(* The first step of Spawn is its call; the others go on, or are a failure  *)
(* that leaves nothing.                                                     *)
LEMMA SpawnQuiet ==
  ASSUME SpawnInv, NEW s \in Spawners, Hidden,
         \/ CallSpawn(s) \/ GetPolicy(s) \/ BorrowToken(s) \/ NewToken(s) \/ CacheToken(s)
         \/ BorrowDesktop(s) \/ NewDesktop(s) \/ CacheDesktop(s) \/ ReadName(s)
         \/ MakeJobObject(s) \/ ApplyOptions(s) \/ CreateProcess(s) \/ AssignProcess(s)
         \/ HardenProcess(s)
  PROVE  Unseen \/ Client!Call(s) \/ Client!Fail(s)
<1>1. Calling' = IF InSpawn(s)' THEN Calling \cup {s} ELSE Calling \ {s}
  BY CallingStep DEF SpawnInv, Step, Spawn
<1>2. pc[s] # "spawned"
  BY DEF Goto, CallSpawn, GetPolicy, BorrowToken, NewToken, CacheToken, BorrowDesktop,
     NewDesktop, CacheDesktop, ReadName, GiveUpEarly, MakeJobObject, ApplyOptions,
     CreateProcess, AssignProcess, HardenProcess, GiveUp
<1>3. s \in Calling <=> InSpawn(s)
  BY DEF Calling
<1>4. CASE InSpawn(s) /\ InSpawn(s)'
  <2>1. Calling' = Calling
    BY <1>1, <1>3, <1>4
  <2> QED BY <2>1 DEF Unseen
<1>5. CASE ~InSpawn(s)
  <2>1. Owned[s] = NoJob
    BY <1>2 DEF Owned, OwnedBy
  <2>2. CASE InSpawn(s)'
    BY <1>1, <1>3, <1>5, <2>1, <2>2 DEF Hidden, Client!Call, Owned, OwnedBy, SeenJobs,
       Calling
  <2>3. CASE ~InSpawn(s)'
    <3>1. Calling' = Calling
      BY <1>1, <1>3, <1>5, <2>3
    <3> QED BY <3>1 DEF Unseen
  <2> QED BY <2>2, <2>3
<1>6. CASE InSpawn(s) /\ ~InSpawn(s)'
  BY <1>1, <1>3, <1>6 DEF Hidden, Client!Fail, Owned, OwnedBy, SeenJobs, Calling
<1> QED BY <1>4, <1>5, <1>6

(* Target::Assign is where a spawn shows, with the limits asked for then. *)
LEMMA HandOverSpawns ==
  ASSUME SpawnInv, NEW s \in Spawners, HandOver(s)
  PROVE  \E j \in Jobs : Client!Spawn(s, j)
<1> USE ContainerAssumption DEF SpawnInv
<1>0. Step(s)
  BY DEF Step, Spawn
<1>1. PICK j \in Jobs : j = job[s]
  BY DEF HandOver, Goto, Inv, Shape, JobsAreHeld, Held
<1>2. /\ pc[s] = "hand over" /\ pc'[s] = "spawned" /\ job[s] # NoJob
      /\ UNCHANGED <<job, process, limits>>
  BY <1>1 DEF HandOver, Goto, jobs, Inv, Shape
<1>3. /\ process[j] # NoProcess /\ process[j].state = "suspended"
      /\ limits[j] = PolicyLimits \cup AskedLimits(s)
  BY <1>1, <1>2, NoProcessIsNone
  DEF Inv, ProcessFollowsSpawn, Prepared, Limited
<1>4. Seen(j) = NoProcess
  BY <1>1, <1>2 DEF Seen, InSpawn
<1>5. Seen(j)' = [state |-> "suspended", limits |-> limits[j]]
  BY <1>0, <1>1, <1>2, <1>3, SeenOwn DEF InSpawn
<1>6. SeenJobs' = [SeenJobs EXCEPT ![j] = [state |-> "suspended", limits |-> limits[j]]]
  BY <1>0, <1>1, <1>5, SeenStep
<1>7. Owned[s] = NoJob /\ Owned' = [Owned EXCEPT ![s] = j]
  <2>1. OwnedBy(s) = NoJob /\ OwnedBy(s)' = j
    BY <1>1, <1>2 DEF OwnedBy
  <2> QED BY <1>0, <2>1, SeenStep DEF Owned
<1>8. Asked' = Asked
  BY <1>0, AskedStays
<1>9. limits[j] = Client!Limits(options[s]) /\ options[s] \in BOOLEAN
  <2>1. policy
    BY <1>2 DEF Faithful, MadeWhole, InSpawn
  <2>2. Asked.kill_on_close = kill_on_close
    BY <2>1 DEF Asked, Typed
  <2> QED BY <1>3, <2>2 DEF Client!Limits, PolicyLimits, AskedLimits, Faithful, LocalsShape
<1>10. Client!New(j)
  <2>1. SeenJobs[j] = Client!Nothing
    BY <1>4 DEF SeenJobs, Client!Nothing, NoProcess
  <2> QED BY <1>6, <1>9, <2>1 DEF Client!New, SeenJobs
<1>11. s \in Calling /\ Calling' = Calling \ {s}
  BY <1>0, <1>2, CallingStep DEF Calling, InSpawn
<1> QED BY <1>7, <1>8, <1>10, <1>11 DEF Client!Spawn, Owned, OwnedBy, Calling

(* A failure to harden the process, all that Spawn can fail at with a       *)
(* process in its job, shows where the job is not to kill it.               *)
LEMMA LateFailure ==
  ASSUME SpawnInv, NEW s \in Spawners, GiveUp(s, "harden")
  PROVE  Client!Fail(s)
<1> USE ContainerAssumption DEF SpawnInv
<1>0. Step(s)
  BY DEF Step, Spawn, HardenProcess
<1>1. PICK j \in Jobs : j = job[s]
  BY DEF GiveUp, Goto, Inv, Shape, JobsAreHeld, Held
<1>2. /\ pc[s] = "harden" /\ pc'[s] = "idle" /\ job[s] # NoJob
      /\ CloseJob(s, process[j])
  BY <1>1 DEF GiveUp, Goto, Inv, Shape
<1>3. /\ process[j] # NoProcess /\ process[j].state = "suspended" /\ process[j].in_job
      /\ limits[j] = PolicyLimits \cup AskedLimits(s)
  BY <1>1, <1>2, NoProcessIsNone
  DEF Inv, ProcessFollowsSpawn, Prepared, Limited
<1>4. Seen(j) = NoProcess
  BY <1>1, <1>2 DEF Seen, InSpawn
<1>5. Seen(j)' = IF "kill" \in limits[j] THEN NoProcess
                 ELSE [state |-> "suspended", limits |-> limits[j]]
  <2>1. Seen(j)' = IF process'[j] = NoProcess THEN NoProcess
                   ELSE [state |-> process'[j].state, limits |-> limits'[j]]
    BY <1>0, <1>1, <1>2, SeenOwn DEF InSpawn
  <2>2. /\ process'[j] = IF "kill" \in limits[j] THEN NoProcess ELSE process[j]
        /\ "kill" \notin limits[j] => limits'[j] = limits[j]
    BY <1>1, <1>2, <1>3 DEF CloseJob, Dies, Inv, Shape
  <2> QED BY <1>3, <2>1, <2>2
<1>6. Asked' = Asked /\ Owned' = Owned
  <2>1. OwnedBy(s) = NoJob /\ OwnedBy(s)' = NoJob
    BY <1>2 DEF OwnedBy
  <2>2. Owned' = [Owned EXCEPT ![s] = NoJob] /\ Owned[s] = NoJob
    BY <1>0, <2>1, SeenStep DEF Owned
  <2> QED BY <1>0, <2>2, AskedStays DEF Owned
<1>7. SeenJobs' = [SeenJobs EXCEPT ![j] = Seen(j)']
  BY <1>0, <1>1, SeenStep
<1>8. s \in Calling /\ Calling' = Calling \ {s}
  BY <1>0, <1>2, CallingStep DEF Calling, InSpawn
<1>9. CASE "kill" \in limits[j]
  <2>1. SeenJobs' = SeenJobs
    BY <1>4, <1>5, <1>7, <1>9 DEF SeenJobs
  <2> QED BY <1>6, <1>8, <2>1 DEF Client!Fail, Owned, OwnedBy, SeenJobs, Calling
<1>10. CASE "kill" \notin limits[j]
  <2>1. policy
    BY <1>2 DEF Faithful, MadeWhole, InSpawn
  <2>2. Asked.kill_on_close = kill_on_close /\ ~kill_on_close
    BY <1>3, <1>10, <2>1 DEF Asked, Typed, PolicyLimits
  <2>3. limits[j] = Client!Limits(options[s]) /\ options[s] \in BOOLEAN
    BY <1>3, <2>2 DEF Client!Limits, PolicyLimits, AskedLimits, Faithful, LocalsShape
  <2>4. SeenJobs[j] = Client!Nothing
    BY <1>4 DEF SeenJobs, Client!Nothing, NoProcess
  <2>5. SeenJobs' = [SeenJobs EXCEPT ![j] = [state |-> "suspended", limits |-> limits[j]]]
    BY <1>5, <1>7, <1>10
  <2>6. Client!New(j)
    BY <2>3, <2>4, <2>5 DEF Client!New, SeenJobs
  <2> QED BY <1>6, <1>8, <2>2, <2>6 DEF Client!Fail, Owned, OwnedBy, Calling
<1> QED BY <1>9, <1>10

(* The owner of a target starts it and destroys it. *)
LEMMA TargetSteps ==
  ASSUME SpawnInv, NEW s \in Spawners
  PROVE  /\ StartTarget(s) => Client!Start(s)
         /\ DestroyTarget(s) => Client!Destroy(s)
<1> SUFFICES ASSUME StartTarget(s) \/ DestroyTarget(s)
             PROVE  /\ StartTarget(s) => Client!Start(s)
                    /\ DestroyTarget(s) => Client!Destroy(s)
  OBVIOUS
<1> USE ContainerAssumption DEF SpawnInv
<1>0. Step(s)
  BY DEF Step
<1>1. PICK j \in Jobs : j = job[s]
  BY DEF StartTarget, DestroyTarget, Goto, Inv, Shape, JobsAreHeld, Held
<1>2. /\ pc[s] = "spawned" /\ job[s] # NoJob
      /\ process[j] # NoProcess /\ process[j] \in Process /\ process[j].in_job
  BY <1>1, NoProcessIsNone
  DEF StartTarget, DestroyTarget, Goto, Inv, ProcessFollowsSpawn, Prepared
<1>3. Asked' = Asked /\ SeenJobs' = [SeenJobs EXCEPT ![j] = Seen(j)']
  BY <1>0, <1>1, AskedStays, SeenStep
<1>4. /\ Owned[s] = j /\ Owned[s] # NoJob
      /\ SeenJobs[j] = [state |-> process[j].state, limits |-> limits[j]]
  BY <1>0, <1>1, <1>2, SeenOwn DEF Owned, OwnedBy, SeenJobs, InSpawn
<1>5. Calling' = Calling
  BY <1>0, <1>2, CallingStep DEF Calling, InSpawn, StartTarget, DestroyTarget, Goto,
     SpawnInv, Borrowing, PolicyShape
<1>6. ASSUME StartTarget(s) PROVE Client!Start(s)
  <2>1. /\ pc' = pc /\ job' = job /\ limits' = limits
        /\ process[j].state = "suspended"
        /\ process'[j] = [process[j] EXCEPT !.state = "running"]
    BY <1>1, <1>6 DEF StartTarget, Inv, Shape
  <2>2. Seen(j)' = [state |-> "running", limits |-> limits[j]]
    <3>1. process'[j].state = "running" /\ process'[j] # NoProcess
      BY <1>2, <2>1, NoProcessIsNone DEF Process
    <3>2. job'[s] = j /\ ~InSpawn(s)' /\ limits'[j] = limits[j]
      BY <1>1, <1>2, <2>1 DEF InSpawn
    <3> QED BY <1>0, <3>1, <3>2, SeenOwn
  <2>3. Owned' = Owned
    BY <2>1 DEF Owned, OwnedBy
  <2>4. SeenJobs' = [SeenJobs EXCEPT ![Owned[s]].state = "running"]
    <3>1. [SeenJobs[j] EXCEPT !.state = "running"]
            = [state |-> "running", limits |-> limits[j]]
      BY <1>4
    <3> QED BY ONLY <1>3, <1>4, <2>2, <3>1
  <2> QED BY <1>3, <1>4, <1>5, <2>1, <2>3, <2>4
          DEF Client!Start, Owned, OwnedBy, SeenJobs, Calling
<1>7. ASSUME DestroyTarget(s) PROVE Client!Destroy(s)
  <2>1. pc'[s] = "idle" /\ CloseJob(s, process[j])
    BY <1>1, <1>7 DEF DestroyTarget, Goto, Inv, Shape
  <2>2. /\ process'[j] = IF "kill" \in limits[j] THEN NoProcess ELSE process[j]
        /\ "kill" \notin limits[j] => limits'[j] = limits[j]
    BY <1>1, <1>2, <2>1 DEF CloseJob, Dies, Inv, Shape
  <2>3. Seen(j)' = IF "kill" \in limits[j] THEN NoProcess ELSE SeenJobs[j]
    BY <1>0, <1>1, <1>2, <1>4, <2>1, <2>2, SeenOwn DEF InSpawn
  <2>4. Owned' = [Owned EXCEPT ![s] = NoJob]
    <3>1. OwnedBy(s)' = NoJob
      BY <2>1 DEF OwnedBy
    <3> QED BY <1>0, <3>1, SeenStep
  <2>5. SeenJobs' = [SeenJobs EXCEPT ![Owned[s]] =
                       IF "kill" \in @.limits THEN Client!Nothing ELSE @]
    BY <1>3, <1>4, <2>3 DEF Client!Nothing, NoProcess
  <2> QED BY <1>3, <1>4, <1>5, <2>4, <2>5
          DEF Client!Destroy, Owned, OwnedBy, SeenJobs, Calling
<1> QED BY <1>6, <1>7

(* A setter changes what is asked for, and nothing else. *)
LEMMA SetterSeen ==
  ASSUME SpawnInv, Borrowing', Typed', ChangePolicy PROVE Client!ChangePolicy
<1>1. (Asked \in PolicyInfo)'
  BY AskedIsPolicy, PTL
<1>2. UNCHANGED <<pc, job, process, limits>>
  BY DEF ChangePolicy, container_vars, jobs
<1>3. Owned' = Owned /\ SeenJobs' = SeenJobs
  BY <1>2 DEF Owned, OwnedBy, SeenJobs, Seen, InSpawn
<1>4. Calling = {} /\ Calling' = Calling
  BY <1>2 DEF ChangePolicy, Calling, InSpawn
<1> QED BY <1>1, <1>3, <1>4 DEF Client!ChangePolicy, Owned, OwnedBy, SeenJobs, Calling

(* Every step of Container is one of Sandbox, or shows nothing. *)
LEMMA SandboxStep ==
  ASSUME SpawnInv, Borrowing', Typed', Next PROVE Client!Next \/ Unseen
<1>1. CASE ChangePolicy
  BY <1>1, SetterSeen DEF Client!Next
<1>2. ASSUME NEW s \in Spawners, Step(s) PROVE Client!Next \/ Unseen
  <2>1. CASE HandOver(s)
    BY <2>1, HandOverSpawns DEF Client!Next
  <2>2. CASE GiveUp(s, "harden")
    BY <2>2, LateFailure DEF Client!Next
  <2>3. CASE StartTarget(s) \/ DestroyTarget(s)
    BY <2>3, TargetSteps DEF Client!Next
  <2>4. CASE ~(HandOver(s) \/ GiveUp(s, "harden") \/ StartTarget(s) \/ DestroyTarget(s))
    <3>1. Hidden
      BY <1>2, <2>4, SpawnUnseen DEF Step, Spawn
    <3>2. Unseen \/ Client!Call(s) \/ Client!Fail(s)
      BY <1>2, <2>4, <3>1, SpawnQuiet DEF Step, Spawn
    <3> QED BY <3>2 DEF Client!Next
  <2> QED BY <2>1, <2>2, <2>3, <2>4
<1> QED BY <1>1, <1>2 DEF Next, Step

(* The logon of a policy that is still to be made is never set. *)
LEMMA LogonInvariant == Spec => []LogonIsUnset
<1>1. Init => LogonIsUnset
  BY DEF Init, PolicyInit, LogonIsUnset
<1>2. Borrowing /\ Faithful /\ LogonIsUnset /\ [Next]_vars => LogonIsUnset'
  <2>1. ASSUME LogonIsUnset, ChangePolicy PROVE LogonIsUnset'
    BY <2>1 DEF LogonIsUnset, ChangePolicy, container_vars
  <2>2. ASSUME LogonIsUnset, UNCHANGED vars PROVE LogonIsUnset'
    BY <2>2 DEF LogonIsUnset, vars, policy_vars, container_vars
  <2> QED BY <2>1, <2>2, AskedStays DEF Next, Step
<1> QED BY <1>1, <1>2, BorrowingInvariant, FaithfulInvariant, PTL DEF Spec

(* Container implements Sandbox.  To a client a call of Spawn takes effect  *)
(* in one step: it is handed a suspended process under the limits that      *)
(* policy and options ask for, the same from the call to the end of it, or  *)
(* nothing; whatever the caches, the overlap with other threads and the     *)
(* call that fails, only a failure after AssignProcess in a job without     *)
(* KILL_ON_JOB_CLOSE shows (core/container.cc:25-194).                      *)
THEOREM SpawnIsOneStep == Spec => ImplementsSandbox
<1>1. SpawnInv /\ SpawnInv' /\ [Next]_vars => [Client!Next]_(Client!vars)
  <2> SUFFICES ASSUME SpawnInv, SpawnInv', [Next]_vars PROVE Client!Next \/ Unseen
    BY DEF Unseen, Hidden, Client!vars, Owned, OwnedBy, SeenJobs, Calling
  <2>1. CASE Next
    BY <2>1, SandboxStep DEF SpawnInv
  <2>2. CASE UNCHANGED vars
    BY <2>2 DEF vars, policy_vars, container_vars, jobs, Unseen, Hidden, Asked,
                GetLogon, Owned, OwnedBy, SeenJobs, Seen, Calling, InSpawn
  <2> QED BY <2>1, <2>2
<1>2. Spec => []SpawnInv
  BY Invariant, BorrowingInvariant, FaithfulInvariant, TypedInvariant, LogonInvariant,
     LimitsInvariant, PTL DEF SpawnInv
<1> QED
  BY <1>1, <1>2, SandboxInit, PTL DEF Spec, ImplementsSandbox, Client!Spec
=============================================================================
