----------------------------- MODULE Container -----------------------------
(***************************************************************************)
(* Container::Spawn of core/container.cc, step by step, with the failure   *)
(* of each system call it makes, over the caches of its Policy.  A process *)
(* is created suspended and outside any job; Spawn puts it into its job    *)
(* and hands both to a target, or has to leave nothing behind.  Each job   *)
(* holds the one process Spawn makes for it.  A Target is only its job here. *)
(***************************************************************************)
EXTENDS Policy

CONSTANTS Spawners, \* threads that call Spawn, each for a target of its own
          Jobs,     \* identities of job objects, each made once
          NoJob

ASSUME ContainerAssumption == NoJob \notin Jobs

VARIABLES
  policy,   \* policy_ is not null
  pc,       \* how far each thread is in Spawn
  tok,      \* the token it has made or borrowed
  desk,     \* the desktop it has made or borrowed
  job,      \* the job it is preparing, then the one its target owns
  options,  \* its SpawnOptions ask for limits
  handle,   \* the job handle is open
  limits,   \* the limits of each job
  process,  \* the process spawned for each job
  default_desktop, \* default_desktop_ of the policy is not null
  born_as   \* the token and the desktop the thread's new process was created with

locals == <<tok, desk, options, born_as>>
jobs == <<handle, limits, process>>
container_vars == <<policy, pc, job, locals, jobs, default_desktop>>
vars == <<policy_vars, container_vars>>

Locations == {"idle", "policy", "token", "install token", "desktop", "install desktop", "name", "job",
              "options", "create", "assign", "harden", "hand over", "spawned"}

NoProcess == [state |-> "none"]

TypeOK ==
  /\ PolicyTypeOK
  /\ policy \in BOOLEAN
  /\ pc \in [Spawners -> Locations]
  /\ tok \in [Spawners -> Tokens \cup {NoToken}]
  /\ desk \in [Spawners -> Desktops \cup {NoDesktop}]
  /\ job \in [Spawners -> Jobs \cup {NoJob}]
  /\ default_desktop \in BOOLEAN
  /\ options \in [Spawners -> BOOLEAN]
  /\ handle \in [Jobs -> BOOLEAN]
  /\ limits \in [Jobs -> SUBSET {"kill", "options"}]
  /\ \A j \in Jobs : process[j] = NoProcess \/
       process[j] \in [state : {"suspended", "running"}, quiet : BOOLEAN, in_job : BOOLEAN]
  /\ \A s \in Spawners : pc[s] \in {"assign", "harden", "hand over"} =>
       born_as[s] \in [token : TokenInfo, desktop : Desktops \cup {NoDesktop}]

Init ==
  /\ PolicyInit
  /\ policy = FALSE
  /\ pc = [s \in Spawners |-> "idle"]
  /\ tok = [s \in Spawners |-> NoToken]
  /\ desk = [s \in Spawners |-> NoDesktop]
  /\ job = [s \in Spawners |-> NoJob]
  /\ options = [s \in Spawners |-> FALSE]
  /\ handle = [j \in Jobs |-> FALSE]
  /\ limits = [j \in Jobs |-> {}]
  /\ process = [j \in Jobs |-> NoProcess]
  /\ default_desktop = FALSE
  /\ born_as = [s \in Spawners |-> NoProcess]

Goto(s, from, to) == pc[s] = from /\ pc' = [pc EXCEPT ![s] = to]

InSpawn(s) == pc[s] \notin {"idle", "spawned"}

(* Spawn returns: its locals are gone. *)
Forget(s) ==
  /\ tok' = [tok EXCEPT ![s] = NoToken]
  /\ desk' = [desk EXCEPT ![s] = NoDesktop]
  /\ options' = [options EXCEPT ![s] = FALSE]
  /\ born_as' = [born_as EXCEPT ![s] = NoProcess]

(* The last handle of s's job is closed.  The system kills the process in   *)
(* it if the job has that limit; a job without process is gone.             *)
Dies(p, ls) == p = NoProcess \/ (p.in_job /\ "kill" \in ls)

CloseJob(s, p) ==
  LET j == job[s] IN
  /\ handle' = [handle EXCEPT ![j] = FALSE]
  /\ process' = [process EXCEPT ![j] = IF Dies(p, limits[j]) THEN NoProcess ELSE p]
  /\ limits' = [limits EXCEPT ![j] = IF Dies(p, @) THEN {} ELSE @]
  /\ job' = [job EXCEPT ![s] = NoJob]

(* Spawn returns an error: job_object_holder closes the job. *)
GiveUp(s, from) ==
  /\ Goto(s, from, "idle")
  /\ CloseJob(s, process[job[s]])
  /\ Forget(s)
  /\ UNCHANGED <<policy_vars, policy, default_desktop>>

(* Spawn returns an error before it has made the job. *)
GiveUpEarly(s, from) ==
  /\ Goto(s, from, "idle")
  /\ Forget(s)
  /\ UNCHANGED <<policy_vars, policy, default_desktop, job, jobs>>

(***************************************************************************)
(* Spawn                                                                   *)
(***************************************************************************)

(* The policy and its caches are not synchronised.  Threads may spawn at    *)
(* the same time only when nothing is left for Spawn to cache.              *)
Warm == /\ policy
        /\ restricted_token # NoToken
        /\ IF use_desktop
           THEN alternate_desktop # NoDesktop /\ desktop[alternate_desktop].named
           ELSE default_desktop

MayCall(s) == Warm \/ \A other \in Spawners \ {s} : ~InSpawn(other)

(* The first test of Spawn is that of GetPolicy. *)
CallSpawn(s) ==
  /\ MayCall(s)
  /\ Goto(s, "idle", IF policy THEN "token" ELSE "policy")
  /\ \E ask \in BOOLEAN : options' = [options EXCEPT ![s] = ask]
  /\ UNCHANGED <<policy_vars, policy, default_desktop, tok, desk, job, jobs, born_as>>

(* GetPolicy makes the default policy in a local variable, which becomes   *)
(* policy_ when it is whole.  Each call on the way may fail; what was made *)
(* so far is then dropped.                                                 *)
DefaultPolicy ==
  /\ policy' = TRUE
  /\ logon' = GetLogon
  /\ restricted_sids' = <<GetLogon>> \o WellKnownSids
  /\ kill_on_close' = TRUE
  /\ UNCHANGED <<use_desktop, restricted_token, alternate_desktop, token, desktop>>

PolicyHalfMade ==              \* mutant: policy_ is set before it is whole
  /\ policy' = TRUE
  /\ logon' = GetLogon
  /\ restricted_sids' = <<GetLogon>>
  /\ UNCHANGED <<use_desktop, kill_on_close, restricted_token, alternate_desktop,
                 token, desktop>>
PolicyDropped == UNCHANGED <<policy_vars, policy>>

GetPolicy(s) ==
  /\ \/ /\ Goto(s, "policy", "token")
        /\ DefaultPolicy
        /\ UNCHANGED locals
     \/ /\ Goto(s, "policy", "idle")
        /\ PolicyDropped
        /\ Forget(s)
  /\ UNCHANGED <<default_desktop, job, jobs>>

(* GetRestrictedToken *)
BorrowToken(s) ==
  /\ restricted_token # NoToken
  /\ Goto(s, "token", "desktop")
  /\ tok' = [tok EXCEPT ![s] = restricted_token]
  /\ UNCHANGED <<policy_vars, policy, default_desktop, desk, job, options, jobs, born_as>>

NeverCached == TRUE            \* mutant: the cache is not looked at
NotCached == restricted_token = NoToken

NewToken(s) ==
  /\ NotCached
  /\ \/ GiveUpEarly(s, "token")
     \/ \E h \in Tokens :
          /\ FilterToken(h)
          /\ Goto(s, "token", "install token")
          /\ tok' = [tok EXCEPT ![s] = h]
          /\ UNCHANGED <<policy, default_desktop, desk, job, options, jobs, born_as>>

CacheToken(s) ==
  /\ Goto(s, "install token", "desktop")
  /\ InstallToken(tok[s])
  /\ UNCHANGED <<policy, default_desktop, locals, job, jobs>>

(* GetDesktop; the default one is made when it is first asked for. *)
BorrowDesktop(s) ==
  /\ use_desktop => alternate_desktop # NoDesktop
  /\ Goto(s, "desktop", IF use_desktop THEN "name" ELSE "job")
  /\ desk' = [desk EXCEPT ![s] = IF use_desktop THEN alternate_desktop ELSE NoDesktop]
  /\ default_desktop' = (default_desktop \/ ~use_desktop)
  /\ UNCHANGED <<policy_vars, policy, tok, job, options, jobs, born_as>>

NewDesktop(s) ==
  /\ use_desktop /\ alternate_desktop = NoDesktop
  /\ \/ GiveUpEarly(s, "desktop")
     \/ \E d \in Desktops :
          /\ MakeDesktop(d)
          /\ Goto(s, "desktop", "install desktop")
          /\ desk' = [desk EXCEPT ![s] = d]
          /\ UNCHANGED <<default_desktop, policy, tok, job, options, jobs, born_as>>

CacheDesktop(s) ==
  /\ Goto(s, "install desktop", "name")
  /\ InstallDesktop(desk[s])
  /\ UNCHANGED <<policy, default_desktop, locals, job, jobs>>

(* GetFullName, as in PolicyObjects: it cannot fail once the name is      *)
(* cached.                                                                 *)
ReadName(s) ==
  /\ pc[s] = "name"
  /\ \/ /\ Goto(s, "name", "job")
        /\ KeepName(desk[s])
        /\ UNCHANGED <<policy, default_desktop, locals, job, jobs>>
     \/ /\ ~desktop[desk[s]].named
        /\ GiveUpEarly(s, "name")

(* Policy::MakeJobObject.  When a limit cannot be set, the JobObject, a    *)
(* plain pointer there, is never deleted: its handle stays open.           *)
MakeJobObject(s) ==
  \/ GiveUpEarly(s, "job")
  \/ \E j \in Jobs :
       /\ ~handle[j] /\ process[j] = NoProcess
       /\ handle' = [handle EXCEPT ![j] = TRUE]
       /\ \/ /\ Goto(s, "job", "options")
             /\ limits' = [limits EXCEPT ![j] = IF kill_on_close THEN {"kill"} ELSE {}]
             /\ job' = [job EXCEPT ![s] = j]
             /\ UNCHANGED <<locals>>
          \/ /\ Goto(s, "job", "idle")
             /\ Forget(s)
             /\ UNCHANGED <<limits, job>>
       /\ UNCHANGED <<policy_vars, policy, default_desktop, process>>

(* GetBasicLimit, the options' limits added, SetBasicLimit. *)
WithOptions(ls) == ls \cup {"options"}

ApplyOptions(s) ==
  \/ GiveUp(s, "options")
  \/ /\ Goto(s, "options", "create")
     /\ limits' = [limits EXCEPT ![job[s]] = IF options[s] THEN WithOptions(@) ELSE @]
     /\ UNCHANGED <<policy_vars, policy, default_desktop, locals, job, handle, process>>

(* CreateProcessAsUserW, suspended, with the borrowed token. *)
RunsAtOnce == "running"        \* mutant: CREATE_SUSPENDED is missing
InitialState == "suspended"

CreateProcess(s) ==
  \/ GiveUp(s, "create")
  \/ /\ Goto(s, "create", "assign")
     /\ token[tok[s]].open
     /\ process' = [process EXCEPT ![job[s]] =
          [state |-> InitialState, quiet |-> FALSE, in_job |-> FALSE]]
     /\ born_as' = [born_as EXCEPT ![s] = [token |-> token[tok[s]].is, desktop |-> desk[s]]]
     /\ UNCHANGED <<policy_vars, policy, default_desktop, tok, desk, job, options, handle, limits>>

(* AssignProcess; when it fails the process is terminated by hand. *)
NotTerminated(p) == p          \* mutant: no TerminateProcess
Terminated(p) == NoProcess

AssignProcess(s) ==
  \/ /\ Goto(s, "assign", "harden")
     /\ process' = [process EXCEPT ![job[s]].in_job = TRUE]
     /\ UNCHANGED <<policy_vars, policy, default_desktop, locals, job, handle, limits>>
  \/ /\ Goto(s, "assign", "idle")
     /\ CloseJob(s, Terminated(process[job[s]]))
     /\ Forget(s)
     /\ UNCHANGED <<policy_vars, policy, default_desktop>>

(* The hard error mode; when it cannot be set, only the job's limit kills *)
(* the process.                                                           *)
HardenProcess(s) ==
  \/ GiveUp(s, "harden")
  \/ /\ Goto(s, "harden", "hand over")
     /\ process' = [process EXCEPT ![job[s]].quiet = TRUE]
     /\ UNCHANGED <<policy_vars, policy, default_desktop, locals, job, handle, limits>>

(* Target::Assign *)
HandOver(s) ==
  /\ Goto(s, "hand over", "spawned")
  /\ Forget(s)
  /\ UNCHANGED <<policy_vars, policy, default_desktop, job, jobs>>

Spawn(s) ==
  \/ CallSpawn(s) \/ GetPolicy(s) \/ BorrowToken(s) \/ NewToken(s) \/ CacheToken(s)
  \/ BorrowDesktop(s) \/ NewDesktop(s) \/ CacheDesktop(s) \/ ReadName(s)
  \/ MakeJobObject(s)
  \/ ApplyOptions(s) \/ CreateProcess(s) \/ AssignProcess(s) \/ HardenProcess(s)
  \/ HandOver(s)

(***************************************************************************)
(* The client between two calls of Spawn                                   *)
(***************************************************************************)
StartTarget(s) ==
  /\ pc[s] = "spawned"
  /\ process[job[s]].state = "suspended"
  /\ process' = [process EXCEPT ![job[s]].state = "running"]
  /\ UNCHANGED <<policy_vars, policy, default_desktop, pc, locals, job, handle, limits>>

(* ~Target closes the job; the thread may spawn again. *)
DestroyTarget(s) ==
  /\ Goto(s, "spawned", "idle")
  /\ CloseJob(s, process[job[s]])
  /\ UNCHANGED <<policy_vars, policy, default_desktop, locals>>

(* A setter of the policy that GetPolicy returned. *)
ChangePolicy ==
  /\ policy
  /\ \A s \in Spawners : ~InSpawn(s)
  /\ Setter
  /\ UNCHANGED container_vars

Next ==
  \/ \E s \in Spawners : Spawn(s) \/ StartTarget(s) \/ DestroyTarget(s)
  \/ ChangePolicy

Spec == Init /\ [][Next]_vars
-----------------------------------------------------------------------------
(***************************************************************************)
(* Properties                                                              *)
(***************************************************************************)
AsPolicySays == [logon |-> logon, sids |-> ToSet(restricted_sids)]

(* Whatever setters were called since, a cached token is open and is that   *)
(* of the present logon and SIDs, and a cached desktop admits the present   *)
(* logon: each setter has dropped the caches it made stale.                 *)
CachesAreFresh ==
  /\ restricted_token # NoToken => token[restricted_token] = Opened(AsPolicySays)
  /\ alternate_desktop # NoDesktop =>
       desktop[alternate_desktop].open /\ logon \in desktop[alternate_desktop].is

(* What a thread has borrowed from the policy stays open until Spawn has    *)
(* made its last use of it, CreateProcessAsUserW, although the policy may   *)
(* be handing it to other threads at the same time.                         *)
BorrowedStaysOpen ==
  \A s \in Spawners :
    /\ pc[s] \in {"desktop", "install desktop", "name", "job", "options", "create"} =>
         tok[s] = restricted_token /\ token[tok[s]].open
    /\ pc[s] \in {"name", "job", "options", "create"} /\ desk[s] # NoDesktop =>
         desk[s] = alternate_desktop /\ desktop[desk[s]].open

(* The process Spawn makes has the token, the desktop and the job limits    *)
(* that the policy and the options ask for.                                 *)
SpawnedAsAsked ==
  \A s \in Spawners : pc[s] \in {"assign", "harden", "hand over"} =>
    LET p == born_as[s] IN
    /\ p.token = AsPolicySays
    /\ IF use_desktop
       THEN desktop[p.desktop].named /\ logon \in desktop[p.desktop].is
       ELSE p.desktop = NoDesktop
    /\ limits[job[s]] = (IF kill_on_close THEN {"kill"} ELSE {}) \cup
                        (IF options[s] THEN {"options"} ELSE {})

(* No process executes before it is in its job and its hard error mode is *)
(* set: it is created suspended and only a target that owns it resumes it. *)
NothingRunsUncontained ==
  \A j \in Jobs : process[j].state = "running" => process[j].in_job /\ process[j].quiet

(* A process that is alive is being prepared by Spawn or belongs to a       *)
(* target.  Whichever call failed, none is left behind, unless the client   *)
(* has taken KILL_ON_JOB_CLOSE out of the policy: that limit is all there   *)
(* is to stop the process once it is in its job.                            *)
NoStrayProcess ==
  \A j \in Jobs : process[j].state \in {"suspended", "running"} =>
    \/ \E s \in Spawners : job[s] = j
    \/ process[j].in_job /\ "kill" \notin limits[j]

(* Every open token and desktop is in a cache of the policy or about to be, *)
(* and every open job is somebody's, but for those MakeJobObject gave up.   *)
HandlesAreOwned ==
  /\ \A h \in Tokens : token[h].open =>
       h = restricted_token \/ \E s \in Spawners : pc[s] = "install token" /\ tok[s] = h
  /\ \A d \in Desktops : desktop[d].open =>
       d = alternate_desktop \/ \E s \in Spawners : pc[s] = "install desktop" /\ desk[s] = d
  /\ \A j \in Jobs : handle[j] =>
       \/ \E s \in Spawners : job[s] = j
       \/ limits[j] = {} /\ process[j] = NoProcess

(* A spawn is to its client a call of Sandbox, which takes effect in one    *)
(* step or in none, and asks for the same from its first step to its last.  *)
(* A policy that is still to be made is the default one, a logon that was   *)
(* not set the process's own; a process is not there before Target::Assign  *)
(* has handed it over, or Spawn has left it.                                *)
Asked ==
  [logon |-> GetLogon,
   sids |-> IF policy THEN ToSet(restricted_sids)
            ELSE {CurrentLogon} \cup ToSet(WellKnownSids),
   use_desktop |-> use_desktop,
   kill_on_close |-> ~policy \/ kill_on_close]

PolicyInfo == [logon : Logons, sids : SUBSET Sids,
               use_desktop : BOOLEAN, kill_on_close : BOOLEAN]

Seen(j) ==
  IF process[j] = NoProcess \/ \E s \in Spawners : InSpawn(s) /\ job[s] = j
  THEN NoProcess
  ELSE [state |-> process[j].state, limits |-> limits[j]]

Client == INSTANCE Sandbox
            WITH Clients <- Spawners, Policies <- PolicyInfo, asked <- Asked,
                 calling <- {s \in Spawners : InSpawn(s)},
                 owned <- [s \in Spawners |-> IF pc[s] = "spawned" THEN job[s] ELSE NoJob],
                 process <- [j \in Jobs |-> Seen(j)]

(* Container implements Sandbox. *)
ImplementsSandbox == Client!Spec
=============================================================================
