--------------------------- MODULE WincToolProofs ---------------------------
(***************************************************************************)
(* Theorems of WincTool, for any bounds, any exit codes and any faults.    *)
(* TargetEventsProofs supposes that no association fails; the tool needs   *)
(* no such hypothesis, since after a failed one it destroys nothing.       *)
(***************************************************************************)
EXTENDS WincTool, TargetEventsProofs

WincShape ==
  /\ mode \in [Jobs -> {"unborn", "suspended", "running", "killed"}]
  /\ active \in [Jobs -> SUBSET Nat]
  /\ born \in [Jobs -> Nat]
  /\ life \in [Targets -> {"free", "live", "dying"}]
  /\ step \in [Targets -> {"idle", "associate", "resume", "deassociate", "close"}]
  /\ job \in [Targets -> Jobs \cup {NoJob}]
  /\ has_thread \in [Targets -> BOOLEAN]
  /\ listening \in [Targets -> BOOLEAN]
  /\ attached \in SUBSET {MyTarget}

(* Before Spawn no job exists, after it none but the target's. *)
OneJob ==
  /\ \A j \in Jobs : mode[j] # "unborn" =>
       /\ j = job[MyTarget] /\ born[j] >= 1
       /\ pc \notin {"options", "search", "construct", "spawn"}
  /\ \A j \in Jobs : mode[j] = "unborn" => 1 \notin active[j]
  /\ job[MyTarget] \in Jobs => mode[job[MyTarget]] # "unborn"
  /\ pc \in {"start", "starting", "wait"} => job[MyTarget] \in Jobs
  /\ pc \in {"start", "starting"} => has_thread[MyTarget]

(* The target in attached_target will take itself out of it, or the tool *)
(* leaves without giving it back.                                        *)
AttachedIsKept ==
  MyTarget \in attached =>
    /\ life[MyTarget] # "free" /\ step[MyTarget] # "close"
    /\ listening[MyTarget] \/ step[MyTarget] = "associate" \/ pc \in {"exit", "gone"}

(* A process that has exited has left its code. *)
CodeFollowsExit ==
  \A j \in Jobs : mode[j] # "unborn" /\ 1 \notin active[j] => process_code \in ExitCodes

(* From the end of the wait on, the process is known to have exited. *)
Waited ==
  pc = "waited" \/ exit_code \in ExitCodes \cup {StillActive} =>
    /\ job[MyTarget] \in Jobs
    /\ 1 \notin active[job[MyTarget]]
    /\ pc \notin {"construct", "spawn"}

WincInv == /\ WincShape
       /\ OneJob
       /\ AttachedIsKept
       /\ CalledIsAttached
       /\ CodeFollowsExit
       /\ Waited
       /\ ExitCodeTells

-----------------------------------------------------------------------------
(* WincInv holds initially. *)
LEMMA WincInvInit == WincInit => WincInv
  BY WincAssumption, TargetAssumption
  DEF WincInit, Init, KernelInit, WincInv, WincShape, OneJob, AttachedIsKept,
      CalledIsAttached, CodeFollowsExit, Waited, ExitCodeTells, Untold

(* Closing the job's handle kills what is in it and makes no job. *)
LEMMA Closing ==
  ASSUME WincInv, CloseJob(MyTarget)
  PROVE  /\ mode' \in [Jobs -> {"unborn", "suspended", "running", "killed"}]
         /\ \A j \in Jobs : mode'[j] = "unborn" <=> mode[j] = "unborn"
<1>1. mode' = mode \/ (job[MyTarget] \in Jobs /\ mode' = [mode EXCEPT ![job[MyTarget]] = "killed"])
  BY WincAssumption DEF CloseJob, Killed, WincInv, WincShape
<1> QED BY <1>1 DEF WincInv, WincShape, OneJob

(* A step of wmain preserves WincInv. *)
LEMMA WmainStep == ASSUME WincInv, Wmain PROVE WincInv'
<1> USE WincAssumption, TargetAssumption, KernelAssumption
        DEF Goto, Usable, LockFree, kernel_vars, object_vars,
            thread_vars, vars, Entry, At, Exits, Untold
<1>1. CASE ReadOption \/ BadOption \/ LastOption \/ SearchPath
  BY <1>1 DEF ReadOption, BadOption, LastOption, SearchPath, WincInv, WincShape, OneJob,
     AttachedIsKept, CalledIsAttached, CodeFollowsExit, Waited, ExitCodeTells
<1>2. CASE ConstructTarget
  BY <1>2 DEF ConstructTarget, Construct, WincInv, WincShape, OneJob,
     AttachedIsKept, CalledIsAttached, CodeFollowsExit, Waited, ExitCodeTells
<1>3. CASE Spawn
  <2>1. job[MyTarget] \notin Jobs \/ mode[job[MyTarget]] = "unborn"
    BY <1>3 DEF Spawn, WincInv, WincShape, OneJob
  <2>2. PICK j \in Jobs :
          /\ mode[j] = "unborn"
          /\ mode' = [mode EXCEPT ![j] = "suspended"]
          /\ active' = [active EXCEPT ![j] = {1}]
          /\ born' = [born EXCEPT ![j] = 1]
          /\ job' = [job EXCEPT ![MyTarget] = j]
    BY <1>3, <2>1 DEF Spawn, Assign, CreateSuspended, WincInv, WincShape, OneJob
  <2>3. /\ UNCHANGED <<life, step, listening, attached, mt, batch, process_code, exit_code>>
        /\ has_thread' = [has_thread EXCEPT ![MyTarget] = TRUE]
        /\ pc = "spawn" /\ pc' = "start"
    BY <1>3 DEF Spawn, Assign
  <2>4. WincShape'
    BY <2>2, <2>3 DEF WincInv, WincShape
  <2>5. OneJob'
    BY <2>2, <2>3 DEF WincInv, WincShape, OneJob
  <2>6. CodeFollowsExit'
    BY <2>2, <2>3 DEF WincInv, WincShape, OneJob, CodeFollowsExit
  <2>7. AttachedIsKept' /\ CalledIsAttached' /\ Waited' /\ ExitCodeTells'
    BY <2>3 DEF WincInv, AttachedIsKept, CalledIsAttached, Waited, ExitCodeTells
  <2> QED BY <2>4, <2>5, <2>6, <2>7 DEF WincInv
<1>4. CASE Start
  <2>1. /\ UNCHANGED <<mode, active, born, life, job, has_thread, listening, batch, mt,
                       process_code, exit_code>>
        /\ pc = "start" /\ pc' = "starting"
        /\ step[MyTarget] = "idle" /\ life[MyTarget] = "live"
        /\ \/ step' = [step EXCEPT ![MyTarget] = "associate"]
              /\ attached' = attached \cup {MyTarget} /\ mt # "callback"
           \/ step' = [step EXCEPT ![MyTarget] = "resume"] /\ attached' = attached
    BY <1>4 DEF Start, Attach, StartUnheard, Inserted
  <2>2. WincShape' /\ OneJob' /\ CodeFollowsExit' /\ Waited' /\ ExitCodeTells'
    BY <2>1 DEF WincInv, WincShape, OneJob, CodeFollowsExit, Waited, ExitCodeTells
  <2>3. AttachedIsKept' /\ CalledIsAttached'
    BY <2>1 DEF WincInv, WincShape, AttachedIsKept, CalledIsAttached
  <2> QED BY <2>2, <2>3 DEF WincInv
<1>5. CASE Starts
  <2>1. /\ UNCHANGED <<active, born, life, job, attached, batch, mt, process_code>>
        /\ pc = "starting"
        /\ mode' = mode \/ (job[MyTarget] \in Jobs /\ mode' = [mode EXCEPT ![job[MyTarget]] =
             IF @ = "suspended" THEN "running" ELSE @])
        /\ step[MyTarget] \in {"associate", "resume"}
        /\ \/ /\ step' = [step EXCEPT ![MyTarget] = "resume"]
              /\ listening' = [listening EXCEPT ![MyTarget] = TRUE]
              /\ step[MyTarget] = "associate"
              /\ UNCHANGED <<has_thread, pc, exit_code>>
           \/ /\ step' = [step EXCEPT ![MyTarget] = "idle"]
              /\ listening' = listening
              /\ \/ pc' = "exit" /\ exit_code' = "winc_error" /\ has_thread' = has_thread
                 \/ /\ pc' = "wait" /\ exit_code' = exit_code
                    /\ has_thread' = [has_thread EXCEPT ![MyTarget] = FALSE]
                    /\ step[MyTarget] = "resume"
    <3>1. job[MyTarget] \in Jobs /\ pc = "starting"
      BY <1>5 DEF Starts, WincInv, OneJob
    <3>2. CASE Associate(MyTarget)
      <4>1. /\ UNCHANGED <<mode, active, born, life, job, has_thread, attached, batch, mt,
                           process_code>>
            /\ step[MyTarget] = "associate" /\ MyTarget \in DOMAIN step /\ has_thread[MyTarget]
        BY <1>5, <3>1, <3>2 DEF Starts, Associate, WincInv, WincShape, OneJob
      <4>2. CASE step' = [step EXCEPT ![MyTarget] = "resume"] /\
                 listening' = [listening EXCEPT ![MyTarget] = TRUE]
        <5>1. step'[MyTarget] = "resume"
          BY <4>1, <4>2
        <5> QED BY <1>5, <3>1, <4>1, <4>2, <5>1 DEF Starts
      <4>3. CASE step' = [step EXCEPT ![MyTarget] = "idle"] /\ listening' = listening
        <5>1. step'[MyTarget] = "idle" /\ has_thread'[MyTarget]
          BY <4>1, <4>3
        <5> QED BY <1>5, <3>1, <4>1, <4>3, <5>1 DEF Starts
      <4> QED BY <3>2, <4>2, <4>3 DEF Associate, NowListening
    <3>3. CASE Resume(MyTarget)
      BY <1>5, <3>1, <3>3 DEF Starts, Resume, WincInv, WincShape, OneJob
    <3> QED BY <1>5, <3>2, <3>3 DEF Starts
  <2>2. /\ mode' \in [Jobs -> {"unborn", "suspended", "running", "killed"}]
        /\ \A j \in Jobs : mode'[j] = "unborn" <=> mode[j] = "unborn"
    BY <2>1 DEF WincInv, WincShape
  <2>3. WincShape'
    BY <2>1, <2>2 DEF WincInv, WincShape
  <2>6. OneJob'
    BY <2>1, <2>2 DEF WincInv, WincShape, OneJob
  <2>4. AttachedIsKept' /\ CalledIsAttached'
    BY <2>1 DEF WincInv, WincShape, AttachedIsKept, CalledIsAttached
  <2>5. CodeFollowsExit' /\ Waited' /\ ExitCodeTells'
    BY <2>1, <2>2 DEF WincInv, CodeFollowsExit, Waited, ExitCodeTells
  <2> QED BY <2>3, <2>4, <2>5, <2>6 DEF WincInv
<1>6. CASE WaitForProcess
  BY <1>6 DEF WaitForProcess, ProcessSignaled, WincInv, WincShape, OneJob,
     AttachedIsKept, CalledIsAttached, CodeFollowsExit, Waited, ExitCodeTells
<1>7. CASE GetProcessExitCode
  BY <1>7 DEF GetProcessExitCode, WincInv, WincShape, OneJob,
     AttachedIsKept, CalledIsAttached, CodeFollowsExit, Waited, ExitCodeTells
<1>8. CASE Leave
  <2>1. CASE pc = "return"
    BY <1>8, <2>1 DEF Leave, BeginDestroy, WincInv, WincShape, OneJob, AttachedIsKept,
       CalledIsAttached, CodeFollowsExit, Waited, ExitCodeTells
  <2>2. CASE Deassociate(MyTarget) /\ pc = "returning"
    BY <1>8, <2>2 DEF Leave, Deassociate, Erased, WincInv, WincShape, OneJob, AttachedIsKept,
       CalledIsAttached, CodeFollowsExit, Waited, ExitCodeTells
  <2>3. CASE Free(MyTarget) /\ pc = "returning"
    <3>1. /\ UNCHANGED <<active, born, job, has_thread, listening, attached, mt, batch,
                         process_code, exit_code>>
          /\ step[MyTarget] = "close" /\ step' = [step EXCEPT ![MyTarget] = "idle"]
          /\ life' = [life EXCEPT ![MyTarget] = "free"]
          /\ pc' \in {"returning", "exit"}
          /\ CloseJob(MyTarget)
      BY <1>8, <2>3 DEF Leave, Free
    <3>2. WincShape' /\ OneJob' /\ CodeFollowsExit'
      BY <2>3, <3>1, Closing DEF WincInv, WincShape, OneJob, CodeFollowsExit
    <3>3. AttachedIsKept' /\ CalledIsAttached' /\ Waited' /\ ExitCodeTells'
      BY <2>3, <3>1 DEF WincInv, AttachedIsKept, CalledIsAttached, Waited, ExitCodeTells
    <3> QED BY <3>2, <3>3 DEF WincInv
  <2> QED BY <1>8, <2>1, <2>2, <2>3 DEF Leave
<1>9. CASE EndProcess
  <2>1. /\ UNCHANGED <<active, born, object_vars, attached, mt, batch, process_code, exit_code>>
        /\ pc = "exit" /\ pc' = "gone"
        /\ mode' = mode \/ CloseJob(MyTarget)
    BY <1>9 DEF EndProcess
  <2>2. WincShape' /\ \A j \in Jobs : mode'[j] = "unborn" <=> mode[j] = "unborn"
    BY <2>1, Closing DEF WincInv, WincShape
  <2>3. OneJob' /\ CodeFollowsExit'
    BY <2>1, <2>2 DEF WincInv, OneJob, CodeFollowsExit
  <2>4. AttachedIsKept' /\ CalledIsAttached' /\ Waited' /\ ExitCodeTells'
    BY <2>1 DEF WincInv, AttachedIsKept, CalledIsAttached, Waited, ExitCodeTells
  <2> QED BY <2>2, <2>3, <2>4 DEF WincInv
<1> QED BY <1>1, <1>2, <1>3, <1>4, <1>5, <1>6, <1>7, <1>8, <1>9 DEF Wmain

(* A step of a process of the job preserves WincInv. *)
LEMMA JobStep == ASSUME WincInv, NEW j \in Jobs, JobRuns(j) PROVE WincInv'
<1> USE WincAssumption, TargetAssumption, KernelAssumption
<1>1. /\ UNCHANGED <<mode, object_vars, attached, thread_vars, pc, listen, exit_code>>
      /\ mode[j] # "unborn"
      /\ born' = [born EXCEPT ![j] = born[j] + 1] \/ born' = born
      /\ \/ active' = [active EXCEPT ![j] = @ \cup {born[j] + 1}]
         \/ \E p \in active[j] : active' = [active EXCEPT ![j] = @ \ {p}]
         \/ active' = active
  BY DEF JobRuns, System, Fork, HitLimit, Exit, WincInv, WincShape
<1>2. j = job[MyTarget] /\ born[j] >= 1
  BY <1>1 DEF WincInv, OneJob
<1>3. 1 \notin active[j] => 1 \notin active'[j] /\ process_code' = process_code
  BY <1>1, <1>2 DEF JobRuns, WincInv, WincShape
<1>4. 1 \in active[j] /\ 1 \notin active'[j] => process_code' \in ExitCodes
  BY DEF JobRuns
<1>5. \A k \in Jobs : k # j => active'[k] = active[k] /\ born'[k] = born[k]
  BY <1>1 DEF WincInv, WincShape
<1>6. WincShape' /\ born'[j] >= 1
  BY <1>1, <1>2 DEF WincInv, WincShape, object_vars
<1>7. OneJob' /\ AttachedIsKept' /\ CalledIsAttached'
  BY <1>1, <1>2, <1>5, <1>6 DEF WincInv, OneJob, AttachedIsKept, CalledIsAttached, Entry,
                         object_vars, thread_vars
<1>8. CodeFollowsExit'
  BY <1>1, <1>2, <1>3, <1>4, <1>5 DEF WincInv, OneJob, CodeFollowsExit
<1>9. Waited' /\ ExitCodeTells'
  BY <1>1, <1>2, <1>3 DEF WincInv, Waited, ExitCodeTells, object_vars
<1> QED BY <1>6, <1>7, <1>8, <1>9 DEF WincInv

(* A step of the message thread preserves WincInv. *)
LEMMA EventStep == ASSUME WincInv, EventLoop PROVE WincInv'
<1>1. /\ UNCHANGED <<mode, active, born, object_vars, attached, pc, listen,
                     process_code, exit_code>>
      /\ CalledIsAttached'
  BY DEF EventLoop, Dispatch, Dequeue, Discard, Return, Found, CalledIsAttached,
         Entry, kernel_vars, object_vars, WincInv
<1> QED
  BY <1>1 DEF WincInv, WincShape, OneJob, AttachedIsKept, CodeFollowsExit, Waited,
              ExitCodeTells, object_vars

(* WincInv is inductive. *)
LEMMA WincInvStep == WincInv /\ [WincNext]_winc_vars => WincInv'
<1> SUFFICES ASSUME WincInv, [WincNext]_winc_vars PROVE WincInv'
  OBVIOUS
<1>1. CASE UNCHANGED winc_vars
  BY <1>1 DEF winc_vars, tool_vars, vars, kernel_vars, object_vars, thread_vars, WincInv,
     WincShape, OneJob, AttachedIsKept, CalledIsAttached, Entry, CodeFollowsExit, Waited,
     ExitCodeTells
<1>2. CASE PrintErrorAndExit
  BY <1>2, WincAssumption DEF PrintErrorAndExit, Exits, Untold, vars, kernel_vars,
     object_vars, thread_vars, WincInv, WincShape, OneJob, AttachedIsKept, CalledIsAttached,
     Entry, CodeFollowsExit, Waited, ExitCodeTells
<1> QED BY <1>1, <1>2, WmainStep, JobStep, EventStep DEF WincNext, AllGone

-----------------------------------------------------------------------------
(* The message thread never calls into memory that the tool's target has    *)
(* left, although the tool destroys it while events arrive and although     *)
(* the association may fail with the target attached (core/target.cc:39).   *)
THEOREM WincCallbackLive == WincSpec => []CallbackOnLiveObject
<1>1. WincInv => CallbackOnLiveObject
  BY DEF WincInv, WincShape, AttachedIsKept, CalledIsAttached, CallbackOnLiveObject
<1> QED BY <1>1, WincInvInit, WincInvStep, PTL DEF WincSpec

(* A code the tool passes on is that of the process it has spawned and      *)
(* waited for (winc/main.cc:199-209).                                       *)
THEOREM WincExitCode == WincSpec => []ExitCodeTells
<1>1. WincInv => ExitCodeTells
  BY DEF WincInv
<1> QED BY <1>1, WincInvInit, WincInvStep, PTL DEF WincSpec

-----------------------------------------------------------------------------
(***************************************************************************)
(* Types, and where the target has got to                                  *)
(***************************************************************************)
WincBase ==
  /\ WincTypeOK /\ StepFollowsLife
  /\ pc = "spawn" => life[MyTarget] = "live"
  /\ pc = "starting" => step[MyTarget] \in {"associate", "resume"}
  /\ pc = "returning" => step[MyTarget] \in {"deassociate", "close"}
  /\ pc \notin {"starting", "returning", "gone"} => step[MyTarget] = "idle"

(* The tool has no target yet, and the message thread no entry.             *)
LEMMA WincBaseInit == WincInit => WincBase
<1> SUFFICES ASSUME WincInit PROVE WincBase
  OBVIOUS
<1>1. TypeOK /\ StepFollowsLife /\ step[MyTarget] = "idle"
  BY KernelAssumption, TargetAssumption, WincAssumption
  DEF WincInit, Init, KernelInit, TypeOK, KernelTypeOK, StepFollowsLife
<1>2. printed \in Seq(Notice)
  BY DEF WincInit
<1> QED BY <1>1, <1>2 DEF WincInit, WincBase, WincTypeOK, Locations, Untold

(* Every step but the end of the process is one of TargetEvents, or none. *)
LEMMA BaseKept ==
  ASSUME Base, \/ UNCHANGED vars
               \/ \E t \in Targets : Client(t)
               \/ \E j \in Jobs : System(j)
               \/ MessageThread
  PROVE  Base'
<1>1. CASE UNCHANGED vars
  BY <1>1 DEF vars, kernel_vars, object_vars, thread_vars, Base, TypeOK, KernelTypeOK, StepFollowsLife
<1> QED BY <1>1, BaseClient, BaseSystem, BaseThread

(* wmain makes its calls in their order and leaves each where it ends.      *)
LEMMA WincBaseWmain == ASSUME WincInv, WincBase, Wmain PROVE WincBase'
<1>0. /\ Base /\ StepFollowsLife /\ MyTarget \in Targets
      /\ life \in [Targets -> {"free", "live", "dying"}]
      /\ step \in [Targets -> {"idle", "associate", "resume", "deassociate", "close"}]
      /\ job \in [Targets -> Jobs \cup {NoJob}]
  BY WincAssumption DEF WincBase, WincTypeOK, Base, TypeOK
<1> USE <1>0, TargetAssumption, WincAssumption
        DEF WincBase, WincTypeOK, Base, At, Exits, Untold, Locations
<1>1. CASE ReadOption \/ BadOption \/ LastOption \/ SearchPath \/ WaitForProcess \/ GetProcessExitCode
  <2>1. UNCHANGED <<vars, process_code, printed>>
    BY <1>1 DEF ReadOption, BadOption, LastOption, SearchPath, WaitForProcess, GetProcessExitCode
  <2>2. Base' /\ UNCHANGED <<life, step, job>>
    BY <2>1, BaseKept DEF vars, object_vars
  <2>3. listen' \in BOOLEAN /\ exit_code' \in ExitCodes \cup {StillActive} \cup Untold
    BY <1>1 DEF ReadOption, BadOption, LastOption, SearchPath, WaitForProcess, GetProcessExitCode
  <2>4. \/ pc = "options" /\ pc' \in {"options", "search", "exit"}
        \/ pc = "search" /\ pc' \in {"construct", "exit"}
        \/ pc = "wait" /\ pc' = "waited"
        \/ pc = "waited" /\ pc' = "return"
    BY <1>1 DEF ReadOption, BadOption, LastOption, SearchPath, WaitForProcess, GetProcessExitCode
  <2> QED BY <2>1, <2>2, <2>3, <2>4
<1>2. CASE ConstructTarget
  <2>1. Base'
    BY <1>2, BaseKept DEF ConstructTarget, Client
  <2> QED BY <1>2, <2>1 DEF ConstructTarget, Construct
<1>3. CASE Spawn
  <2>1. Base'
    BY <1>3, BaseKept DEF Spawn, Client
  <2>2. /\ UNCHANGED <<life, step, listen, process_code, exit_code, printed>>
        /\ \E j \in Jobs : job' = [job EXCEPT ![MyTarget] = j]
        /\ pc = "spawn" /\ pc' = "start"
    BY <1>3 DEF Spawn, Assign
  <2> QED BY <2>1, <2>2
<1>4. CASE Start
  <2>1. Base'
    BY <1>4, BaseKept DEF Start, Client
  <2>2. /\ UNCHANGED <<life, job, listen, process_code, exit_code, printed>>
        /\ step' \in {[step EXCEPT ![MyTarget] = "associate"], [step EXCEPT ![MyTarget] = "resume"]}
        /\ pc = "start" /\ pc' = "starting"
    BY <1>4 DEF Start, Attach, StartUnheard, Goto
  <2> QED BY <2>1, <2>2
<1>5. CASE Starts
  <2>1. Base'
    BY <1>5, BaseKept DEF Starts, Client
  <2>2. /\ UNCHANGED <<life, job, listen, process_code, printed>>
        /\ step' \in {[step EXCEPT ![MyTarget] = "idle"], [step EXCEPT ![MyTarget] = "resume"]}
        /\ pc = "starting"
    BY <1>5 DEF Starts, Associate, Resume, Goto
  <2>3. \/ step'[MyTarget] = "resume" /\ UNCHANGED <<pc, exit_code>>
        \/ step'[MyTarget] = "idle" /\ pc' = "exit" /\ exit_code' = "winc_error"
        \/ step'[MyTarget] = "idle" /\ pc' = "wait" /\ UNCHANGED exit_code
    BY <1>5 DEF Starts
  <2> QED BY <2>1, <2>2, <2>3
<1>6. CASE Leave
  <2>1. Base'
    BY <1>6, BaseKept DEF Leave, Client
  <2>2. UNCHANGED <<job, listen, process_code, exit_code, printed>>
    BY <1>6 DEF Leave, BeginDestroy, Deassociate, Free
  <2>3. \/ pc' = "returning" /\ step'[MyTarget] \in {"deassociate", "close"}
        \/ pc' = "exit" /\ step'[MyTarget] = "idle"
    BY <1>6 DEF Leave, BeginDestroy, Deassociate, Free, Goto, StepFollowsLife
  <2> QED BY <2>1, <2>2, <2>3
<1>7. CASE EndProcess
  <2>1. /\ UNCHANGED <<active, born, queue, posted, object_vars, attached, thread_vars,
                       listen, process_code, exit_code, printed>>
        /\ pc' = "gone"
        /\ UNCHANGED <<mode, port_key>> \/ CloseJob(MyTarget)
    BY <1>7 DEF EndProcess
  <2>2. /\ mode' \in [Jobs -> {"unborn", "suspended", "running", "killed"}]
        /\ port_key' \in [Jobs -> Targets \cup {NoTarget}]
    BY <2>1 DEF CloseJob, Killed, Orphaned, TypeOK, KernelTypeOK
  <2>3. TypeOK' /\ StepFollowsLife'
    BY <2>1, <2>2 DEF TypeOK, KernelTypeOK, StepFollowsLife, object_vars, thread_vars
  <2> QED BY <2>1, <2>3 DEF object_vars
<1> QED BY <1>1, <1>2, <1>3, <1>4, <1>5, <1>6, <1>7 DEF Wmain

(* What is printed is a notice. *)
LEMMA PrintsNotice == ASSUME WincBase, EventLoop PROVE printed' \in Seq(Notice)
<1>1. CASE Dispatch /\ printed' = Printed
  <2>1. Entry.notice \in Notice
    BY <1>1, TailType, PacketFields DEF Dispatch, WincBase, WincTypeOK
  <2> DEFINE n == Entry.notice
  <2> HIDE DEF n
  <2> QED BY <1>1, <2>1 DEF Printed, WincBase, WincTypeOK, n
<1>2. CASE printed' = printed
  BY <1>2 DEF WincBase, WincTypeOK
<1> QED BY <1>1, <1>2 DEF EventLoop

(* The types, and where wmain is, are inductive.                            *)
LEMMA WincBaseStep == WincInv /\ WincBase /\ [WincNext]_winc_vars => WincBase'
<1> SUFFICES ASSUME WincInv, WincBase, [WincNext]_winc_vars PROVE WincBase'
  OBVIOUS
<1>0. Base
  BY DEF WincBase, WincTypeOK, Base
<1>1. CASE UNCHANGED winc_vars
  <2>1. Base' /\ UNCHANGED <<life, step, job>>
    BY <1>0, <1>1, BaseKept DEF winc_vars, vars, object_vars
  <2> QED BY <1>1, <2>1 DEF WincBase, WincTypeOK, Base, winc_vars, tool_vars
<1>2. CASE PrintErrorAndExit
  <2>1. Base' /\ UNCHANGED <<life, step, job>>
    BY <1>0, <1>2, BaseKept DEF PrintErrorAndExit, vars, object_vars
  <2> QED BY <1>2, <2>1 DEF WincBase, WincTypeOK, Base, PrintErrorAndExit, Exits, Locations, Untold
<1>3. ASSUME NEW j \in Jobs, JobRuns(j) PROVE WincBase'
  <2>1. Base' /\ UNCHANGED <<life, step, job>>
    BY <1>0, <1>3, BaseKept DEF JobRuns, System, object_vars
  <2> QED BY <1>3, <2>1 DEF WincBase, WincTypeOK, Base, JobRuns
<1>4. CASE EventLoop
  <2>1. Base'
    BY <1>0, <1>4, BaseKept DEF EventLoop, MessageThread
  <2>2. UNCHANGED <<life, step, job, pc, listen, process_code, exit_code>>
    BY <1>4 DEF EventLoop, Dispatch, Dequeue, Discard, Return, object_vars
  <2> QED BY <1>4, <2>1, <2>2, PrintsNotice DEF WincBase, WincTypeOK, Base
<1> QED BY <1>1, <1>2, <1>3, <1>4, WincBaseWmain DEF WincNext, AllGone

(* Each variable of the tool has its type, and the target has been spawned  *)
(* by the time it is started and is in no call that wmain does not wait in  *)
(* (winc/main.cc:190-209).                                                  *)
THEOREM WincTypes == WincSpec => []WincTypeOK
<1>1. WincBase => WincTypeOK
  BY DEF WincBase
<1>2. (WincInv /\ WincBase) /\ [WincNext]_winc_vars => (WincInv /\ WincBase)'
  BY WincInvStep, WincBaseStep
<1> QED BY <1>1, <1>2, WincInvInit, WincBaseInit, PTL DEF WincSpec

-----------------------------------------------------------------------------
(***************************************************************************)
(* What is printed                                                         *)
(***************************************************************************)

(* The destructor of t has not begun. *)
Before ==
  pc \notin {"returning", "exit", "gone"} \/ (pc = "exit" /\ life[MyTarget] = "live")

Untouched ==
  \A j \in Jobs : mode[j] = "unborn" => posted[j] = <<>> /\ port_key[j] = NoTarget

(* As long as t is there, what was called back was printed. *)
Mine ==
  /\ \A p \in OnItsWay : p.job = job[MyTarget] /\ port_key[p.job] # NoTarget
  /\ step[MyTarget] = "associate" => MyTarget \in attached
  /\ job[MyTarget] \in Jobs /\ port_key[job[MyTarget]] # NoTarget => MyTarget \in attached
  /\ \A j \in Jobs : j = job[MyTarget] => printed = delivered[j]
  /\ job[MyTarget] = NoJob => printed = <<>>
  /\ Follows

(* What is printed is how what was posted begins. *)
Begins ==
  \A j \in Jobs : job[MyTarget] = j =>
    \E rest \in Seq(Notice) : Only(posted[j], Heard) = printed \o rest

Prints == Untouched /\ (Before => Mine) /\ Begins

(* A sequence is how a longer one begins.                                   *)
LEMMA PrefixOfConcat ==
  ASSUME NEW T, NEW s \in Seq(T), NEW t \in Seq(T)
  PROVE  IsPrefix(s, s \o t)
<1> DEFINE u == s \o t
<1>1. /\ u \in Seq(T) /\ Len(u) = Len(s) + Len(t) /\ Len(s) \in Nat /\ Len(t) \in Nat
      /\ \A i \in 1 .. Len(s) : u[i] = s[i]
  OBVIOUS
<1> HIDE DEF u
<1>2. SubSeq(u, 1, Len(s)) = SubSeq(s, 1, Len(s))
  BY <1>1
<1> QED BY <1>1, <1>2 DEF IsPrefix, u

(* What has a callback are notices.                                         *)
LEMMA OnlyHeard ==
  ASSUME NEW s \in Seq(Notice) PROVE Only(s, Heard) \in Seq(Notice)
<1>1. Only(s, Heard) \in Seq(Notice \cap Heard) /\ Notice \cap Heard \subseteq Notice
  BY OnlyType
<1> QED BY <1>1, SeqMonotonic

(* Once everything called back was printed, the beginning is. *)
LEMMA MineBegins ==
  ASSUME TypeOK, Mine PROVE Begins
<1> SUFFICES ASSUME NEW j \in Jobs, job[MyTarget] = j
             PROVE  \E rest \in Seq(Notice) : Only(posted[j], Heard) = printed \o rest
  BY DEF Begins
<1>1. PICK done \in Seq(Notice) :
        posted[j] = done \o Coming(j) /\ delivered[j] = Only(done, Heard)
  BY DEF Mine, Follows
<1> DEFINE c == Coming(j)
<1>2. c \in Seq(Notice)
  BY ComingType
<1> HIDE DEF c
<1>3. Only(done \o c, Heard) = Only(done, Heard) \o Only(c, Heard)
  BY <1>2, OnlyConcat
<1>4. Only(c, Heard) \in Seq(Notice)
  BY <1>2, OnlyHeard
<1>5. Only(posted[j], Heard) = printed \o Only(c, Heard)
  BY <1>1, <1>3 DEF c, Mine
<1> QED BY <1>4, <1>5

(* What was printed is still the beginning of a story that goes on.         *)
LEMMA BeginsKept ==
  ASSUME WincTypeOK, Begins, UNCHANGED <<job, printed>>,
         \A j \in Jobs : \E ns \in Seq(Notice) : posted'[j] = posted[j] \o ns
  PROVE  Begins'
<1> SUFFICES ASSUME NEW j \in Jobs, job[MyTarget] = j
             PROVE  \E rest \in Seq(Notice) : Only(posted'[j], Heard) = printed \o rest
  BY DEF Begins
<1>1. PICK rest \in Seq(Notice) : Only(posted[j], Heard) = printed \o rest
  BY DEF Begins
<1>2. PICK ns \in Seq(Notice) : posted'[j] = posted[j] \o ns
  OBVIOUS
<1>3. posted[j] \in Seq(Notice) /\ printed \in Seq(Notice)
  BY DEF WincTypeOK, TypeOK, KernelTypeOK
<1>4. Only(posted[j] \o ns, Heard) = Only(posted[j], Heard) \o Only(ns, Heard)
  <2> DEFINE s == posted[j]
  <2>1. s \in Seq(Notice)
    BY <1>3
  <2> HIDE DEF s
  <2>2. Only(s \o ns, Heard) = Only(s, Heard) \o Only(ns, Heard)
    BY <2>1, OnlyConcat
  <2> QED BY <2>2 DEF s
<1> DEFINE more == Only(ns, Heard)
<1>5. more \in Seq(Notice)
  BY OnlyHeard
<1> HIDE DEF more
<1>6. (printed \o rest) \o more = printed \o (rest \o more) /\ rest \o more \in Seq(Notice)
  <2>1. printed \in Seq(Notice) /\ rest \in Seq(Notice) /\ more \in Seq(Notice)
    BY <1>3, <1>5
  <2> QED BY ONLY <2>1, ConcatAssociative, ConcatProperties
<1>7. Only(posted'[j], Heard) = printed \o (rest \o more)
  BY <1>1, <1>2, <1>4, <1>6 DEF more
<1> QED BY <1>6, <1>7

(* A job that was not created has told nothing.                             *)
LEMMA UntouchedStep ==
  ASSUME WincInv, WincBase, Untouched, WincNext PROVE Untouched'
<1>0. /\ Base /\ TypeOK /\ MyTarget \in Targets
      /\ mode \in [Jobs -> {"unborn", "suspended", "running", "killed"}]
      /\ port_key \in [Jobs -> Targets \cup {NoTarget}]
      /\ posted \in [Jobs -> Seq(Notice)]
      /\ job[MyTarget] \in Jobs \cup {NoJob} /\ StepFollowsLife
      /\ job[MyTarget] \in Jobs => mode[job[MyTarget]] # "unborn"
  BY WincAssumption
  DEF WincBase, WincTypeOK, Base, TypeOK, KernelTypeOK, WincInv, OneJob
<1> USE TargetAssumption, WincAssumption DEF At
<1>1. CASE UNCHANGED <<mode, posted, port_key>>
  BY <1>1 DEF Untouched
<1>2. CASE Spawn
  <2>1. job[MyTarget] = NoJob
    BY <1>0, <1>2 DEF Spawn, WincInv, OneJob
  <2>2. UNCHANGED <<posted, port_key>> /\ \E j \in Jobs : mode' = [mode EXCEPT ![j] = "suspended"]
    BY <1>2, <2>1 DEF Spawn, Assign
  <2> QED BY <1>0, <2>2 DEF Untouched
<1>3. CASE Starts
  <2> DEFINE k == job[MyTarget]
  <2>1. k \in Jobs /\ mode[k] # "unborn"
    BY <1>0, <1>3 DEF Starts, Associate, Resume, Goto, StepFollowsLife
  <2>2. /\ \/ mode' = mode
           \/ mode' = [mode EXCEPT ![k] = IF @ = "suspended" THEN "running" ELSE @]
        /\ \A j \in Jobs : j # k => posted'[j] = posted[j] /\ port_key'[j] = port_key[j]
    BY <1>0, <1>3, <2>1, AssociatePosts DEF Starts, Associate, Resume, Queued
  <2>3. mode'[k] # "unborn" /\ \A j \in Jobs : j # k => mode'[j] = mode[j]
    BY <1>0, <2>1, <2>2
  <2> QED BY <1>0, <2>1, <2>2, <2>3 DEF Untouched
<1>4. CASE Leave \/ EndProcess
  <2>1. posted' = posted /\ (UNCHANGED <<mode, port_key>> \/ CloseJob(MyTarget))
    BY <1>4 DEF Leave, EndProcess, BeginDestroy, Deassociate, Free, kernel_vars
  <2>2. /\ \/ mode' = mode
           \/ job[MyTarget] \in Jobs /\ mode' = [mode EXCEPT ![job[MyTarget]] = "killed"]
        /\ \/ port_key' = port_key
           \/ job[MyTarget] \in Jobs /\ port_key' = [port_key EXCEPT ![job[MyTarget]] = NoTarget]
    BY <1>0, <2>1 DEF CloseJob, Killed, Orphaned
  <2> QED BY <1>0, <2>1, <2>2 DEF Untouched
<1>5. ASSUME NEW k \in Jobs, JobRuns(k) PROVE Untouched'
  <2>1. UNCHANGED <<mode, port_key>> /\ mode[k] # "unborn"
    BY <1>0, <1>5, SystemPosts DEF JobRuns, System, Fork, HitLimit, Exit
  <2>2. \A j \in Jobs : j # k => posted'[j] = posted[j]
    BY <1>0, <1>5, SystemPosts DEF JobRuns, Queued
  <2> QED BY <2>1, <2>2 DEF Untouched
<1> QED BY <1>1, <1>2, <1>3, <1>4, <1>5
    DEF WincNext, Wmain, ReadOption, BadOption, LastOption, SearchPath, WaitForProcess,
        GetProcessExitCode, ConstructTarget, Construct, Start, Attach, StartUnheard,
        PrintErrorAndExit, EventLoop, Dispatch, Dequeue, Discard, Return, AllGone, winc_vars, vars,
        kernel_vars

(* Nothing that concerns what is printed happens. *)
LEMMA MineKept ==
  ASSUME Mine, UNCHANGED <<queue, batch, mt, posted, delivered, port_key, printed>>,
         job'[MyTarget] = job[MyTarget], attached \subseteq attached',
         step'[MyTarget] = "associate" => step[MyTarget] = "associate" \/ MyTarget \in attached'
  PROVE  Mine'
<1>1. OnItsWay' = OnItsWay /\ Undelivered' = Undelivered
  BY DEF OnItsWay, Undelivered
<1>2. Follows'
  BY <1>1, FollowsKept DEF Mine
<1> QED BY <1>1, <1>2 DEF Mine

(* While t is there, wmain prints nothing and hides nothing.                *)
LEMMA MineWmain ==
  ASSUME WincInv, WincBase, Untouched, Before => Mine, Wmain, Before' PROVE Mine'
<1>0. /\ TypeOK /\ MyTarget \in Targets /\ StepFollowsLife
      /\ port_key \in [Jobs -> Targets \cup {NoTarget}]
      /\ job \in [Targets -> Jobs \cup {NoJob}] /\ life \in [Targets -> {"free", "live", "dying"}]
      /\ step \in [Targets -> {"idle", "associate", "resume", "deassociate", "close"}]
  BY WincAssumption DEF WincBase, WincTypeOK, TypeOK, KernelTypeOK
<1> USE TargetAssumption, WincAssumption DEF At
<1>1. CASE ReadOption \/ BadOption \/ LastOption \/ SearchPath \/ WaitForProcess \/ GetProcessExitCode
  <2>1. UNCHANGED <<vars, printed>> /\ Before
    BY <1>1 DEF ReadOption, BadOption, LastOption, SearchPath, WaitForProcess, GetProcessExitCode,
                Before
  <2> QED BY <2>1, MineKept DEF vars, kernel_vars, object_vars, thread_vars
<1>2. CASE ConstructTarget
  <2>1. /\ UNCHANGED <<kernel_vars, step, attached, thread_vars, printed>> /\ Before
        /\ job' = [job EXCEPT ![MyTarget] = NoJob]
    BY <1>2 DEF ConstructTarget, Construct, Before
  <2>2. job[MyTarget] = NoJob
    BY <1>0, <1>2 DEF ConstructTarget, WincInv, OneJob
  <2> QED BY <1>0, <2>1, <2>2, MineKept DEF kernel_vars, thread_vars
<1>3. CASE Spawn
  <2>1. job[MyTarget] = NoJob /\ Before
    BY <1>0, <1>3 DEF Spawn, WincInv, OneJob, Before
  <2>2. PICK k \in Jobs : mode[k] = "unborn" /\ job' = [job EXCEPT ![MyTarget] = k]
    BY <1>3, <2>1 DEF Spawn, Assign, CreateSuspended
  <2>3. UNCHANGED <<queue, posted, port_key, step, attached, mt, batch, delivered, printed>>
    BY <1>3, <2>1 DEF Spawn, Assign, thread_vars
  <2>4. OnItsWay = {} /\ printed = <<>> /\ step[MyTarget] # "associate"
    <3>1. \A p \in OnItsWay : p.job \in Jobs
      BY <1>0, OnItsWayType, PacketFields
    <3> QED BY <1>0, <2>1, <3>1 DEF Mine, StepFollowsLife
  <2>5. OnItsWay' = OnItsWay /\ Undelivered' = Undelivered
    BY <2>3 DEF OnItsWay, Undelivered
  <2>6. Follows /\ Follows'
    BY <2>1, <2>3, <2>5, FollowsKept DEF Mine
  <2>7. delivered[k] = <<>>
    <3>1. posted[k] = <<>> /\ port_key[k] = NoTarget
      BY <2>2 DEF Untouched
    <3>2. PICK done \in Seq(Notice) : posted[k] = done \o Coming(k) /\ delivered[k] = Only(done, Heard)
      BY <2>6 DEF Follows
    <3> DEFINE c == Coming(k)
    <3>3. c \in Seq(Notice)
      BY <1>0, ComingType
    <3> HIDE DEF c
    <3>4. done \o c = <<>> => done = <<>>
      BY <3>3, ConcatEqualIffEmpty
    <3>5. done = <<>>
      BY <3>1, <3>2, <3>4 DEF c
    <3> QED BY <3>2, <3>5, OnlyEmpty
  <2>8. port_key'[k] = NoTarget /\ job'[MyTarget] = k /\ k # NoJob
    BY <1>0, <2>2, <2>3 DEF Untouched
  <2> QED BY <2>3, <2>4, <2>5, <2>6, <2>7, <2>8 DEF Mine
<1>4. CASE Start
  <2>1. /\ UNCHANGED <<kernel_vars, job, thread_vars, printed>> /\ Before
        /\ attached \subseteq attached'
        /\ step'[MyTarget] = "associate" => MyTarget \in attached'
    BY <1>0, <1>4 DEF Start, Attach, StartUnheard, Inserted, Goto, Before
  <2> QED BY <2>1, MineKept DEF kernel_vars, thread_vars
<1>5. CASE Starts
  <2>1. Before /\ Mine /\ UNCHANGED <<job, attached, mt, batch, delivered, printed>>
        /\ step'[MyTarget] # "associate" /\ job[MyTarget] \in Jobs
    BY <1>0, <1>5 DEF Starts, Associate, Resume, Goto, Before, StepFollowsLife, thread_vars
  <2>2. CASE UNCHANGED <<queue, posted, port_key>>
    BY <2>1, <2>2, MineKept
  <2>3. CASE Associate(MyTarget) /\ AssociatePort(job[MyTarget], MyTarget)
    <3>0. PICK k \in Jobs : k = job[MyTarget]
      BY <2>1
    <3>1. /\ port_key' = [port_key EXCEPT ![k] = MyTarget]
          /\ Queued(k, MyTarget, Announced(k)) /\ Announced(k) \in Seq(Notice)
      BY <1>0, <2>3, <3>0, AssociatePosts, AnnouncedType
    <3>2. \A p \in OnItsWay' : p \in OnItsWay \/ (p.key = MyTarget /\ p.job = k)
      BY <1>0, <2>1, <3>1, QueuedFlight
    <3>3. Follows'
      <4>1. Follows
        BY <2>1 DEF Mine
      <4> QED BY <1>0, <2>1, <3>1, <4>1, FollowsQueued
    <3>4. MyTarget \in attached
      BY <2>1, <2>3 DEF Associate, Goto, Mine
    <3>5. port_key'[k] # NoTarget
      BY <1>0, <3>1, KernelAssumption
    <3> QED BY <2>1, <3>0, <3>2, <3>3, <3>4, <3>5 DEF Mine
  <2> QED BY <1>5, <2>2, <2>3 DEF Starts, Associate, Resume
<1>6. CASE Leave \/ EndProcess
  BY <1>0, <1>6 DEF Leave, EndProcess, BeginDestroy, Deassociate, Free, Before
<1> QED BY <1>1, <1>2, <1>3, <1>4, <1>5, <1>6 DEF Wmain

(* What the job posts while t is there comes after what was printed.        *)
LEMMA MineJob ==
  ASSUME WincInv, WincBase, Before => Mine, NEW k \in Jobs, JobRuns(k), Before' PROVE Mine'
<1>0. TypeOK /\ UNCHANGED <<pc, printed>> /\ System(k)
  BY DEF WincBase, WincTypeOK, JobRuns
<1>1. /\ UNCHANGED <<port_key, life, step, job, attached, mt, batch, delivered>>
      /\ \/ UNCHANGED <<queue, posted>>
         \/ port_key[k] \in Targets /\ \E ns \in Seq(Notice) : Queued(k, port_key[k], ns)
  BY <1>0, SystemPosts DEF object_vars, thread_vars
<1>2. Before /\ Mine
  BY <1>0, <1>1 DEF Before
<1>3. k = job[MyTarget]
  BY <1>0 DEF System, Fork, HitLimit, Exit, WincInv, OneJob
<1>4. CASE UNCHANGED <<queue, posted>>
  BY <1>0, <1>1, <1>2, <1>4, MineKept
<1>5. CASE port_key[k] \in Targets /\ \E ns \in Seq(Notice) : Queued(k, port_key[k], ns)
  <2>1. \A p \in OnItsWay' : p \in OnItsWay \/ p.job = k
    BY <1>0, <1>1, <1>5, QueuedFlight
  <2>2. Follows'
    <3>1. Follows
      BY <1>2 DEF Mine
    <3> QED BY <1>0, <1>1, <1>5, <3>1, FollowsQueued
  <2>3. port_key[k] # NoTarget
    BY <1>5, KernelAssumption
  <2> QED BY <1>0, <1>1, <1>2, <1>3, <2>1, <2>2, <2>3 DEF Mine
<1> QED BY <1>1, <1>4, <1>5

(* While t is there, whatever is called back is printed.                    *)
LEMMA MineEvent ==
  ASSUME WincInv, WincBase, Before => Mine, EventLoop, Before' PROVE Mine'
<1>0. /\ TypeOK /\ StepFollowsLife /\ MyTarget \in Targets
      /\ delivered \in [Jobs -> Seq(Notice)] /\ job \in [Targets -> Jobs \cup {NoJob}]
  BY WincAssumption DEF WincBase, WincTypeOK, TypeOK
<1>1. /\ UNCHANGED <<pc, life, step, job, attached, port_key, posted>> /\ MessageThread
  BY DEF EventLoop, MessageThread, Dispatch, Dequeue, Discard, Return, kernel_vars, object_vars
<1>2. Before /\ Mine
  BY <1>1 DEF Before
<1>3. \A p \in OnItsWay : p.key \in attached /\ job[MyTarget] \in Jobs /\ p.job = job[MyTarget]
  <2> SUFFICES ASSUME NEW p \in OnItsWay
               PROVE  p.key \in attached /\ job[MyTarget] \in Jobs /\ p.job = job[MyTarget]
    OBVIOUS
  <2>1. p.key = MyTarget /\ p.job \in Jobs
    BY <1>0, OnItsWayType, PacketFields, WincAssumption
  <2> QED BY <1>2, <2>1 DEF Mine
<1>4. Follows'
  BY <1>0, <1>1, <1>2, <1>3, FollowsThread DEF Mine
<1>5. OnItsWay' \subseteq OnItsWay
  BY <1>0, <1>1, ThreadFlight
<1>6. /\ \A j \in Jobs : j = job[MyTarget] => printed' = delivered'[j]
      /\ job[MyTarget] = NoJob => printed' = <<>>
  <2>1. CASE Dispatch /\ printed' = Printed
    <3>1. PICK k, n : k = Entry.job /\ n = Entry.notice
      OBVIOUS
    <3>2. k \in Jobs /\ Entry \in OnItsWay
      BY <1>0, <1>2, <2>1, <3>1, TakesNext DEF Mine
    <3>3. k = job[MyTarget]
      BY <1>3, <3>1, <3>2
    <3>4. life[MyTarget] = "live"
      <4>1. pc \notin {"options", "search", "construct", "spawn"}
        BY <3>2, <3>3 DEF WincInv, OneJob
      <4> QED BY <1>2, <4>1 DEF Before, WincBase, WincTypeOK, Locations
    <3>5. printed' = Append(delivered[k], n) /\ delivered'[k] = Append(delivered[k], n)
      BY <1>0, <1>2, <2>1, <3>1, <3>2, <3>3, <3>4 DEF Printed, Mine, Dispatch
    <3> QED BY <3>2, <3>3, <3>5, TargetAssumption
  <2>2. CASE (Dequeue \/ Discard \/ Return) /\ printed' = printed
    BY <1>2, <2>2 DEF Mine, Dequeue, Discard, Return
  <2> QED BY <2>1, <2>2 DEF EventLoop
<1> QED BY <1>1, <1>2, <1>4, <1>5, <1>6 DEF Mine

(* The invariant is inductive.                                              *)
LEMMA PrintsStep ==
  WincInv /\ WincBase /\ WincBase' /\ Prints /\ [WincNext]_winc_vars => Prints'
<1> SUFFICES ASSUME WincInv, WincBase, WincBase', Prints, [WincNext]_winc_vars PROVE Prints'
  OBVIOUS
<1>0. /\ Untouched /\ (Before => Mine) /\ Begins /\ TypeOK /\ TypeOK' /\ WincTypeOK
      /\ posted \in [Jobs -> Seq(Notice)]
  BY DEF Prints, WincBase, WincTypeOK, TypeOK, KernelTypeOK
<1>1. CASE UNCHANGED winc_vars
  <2> USE <1>1 DEF winc_vars, tool_vars, vars, kernel_vars, object_vars, thread_vars
  <2>1. Untouched' /\ Before' = Before
    BY <1>0 DEF Untouched, Before
  <2>2. Mine => Mine'
    BY MineKept
  <2>3. Begins'
    BY <1>0 DEF Begins
  <2> QED BY <1>0, <2>1, <2>2, <2>3 DEF Prints
<1>2. CASE WincNext
  <2>1. Untouched'
    BY <1>0, <1>2, UntouchedStep
  <2>2. ASSUME Before' PROVE Mine'
    <3>1. CASE PrintErrorAndExit \/ AllGone
      <4>1. UNCHANGED <<vars, printed>> /\ Before
        BY <2>2, <3>1 DEF PrintErrorAndExit, AllGone, winc_vars, tool_vars, Before, vars, object_vars
      <4> QED BY <1>0, <4>1, MineKept DEF vars, kernel_vars, object_vars, thread_vars
    <3> QED BY <1>0, <1>2, <2>2, <3>1, MineWmain, MineJob, MineEvent DEF WincNext
  <2>3. Begins'
    <3>1. CASE Before'
      <4>1. Mine'
        BY <2>2, <3>1
      <4> QED BY <1>0, <4>1, MineBegins, PTL
    <3>2. CASE ~Before'
      <4>1. UNCHANGED <<job, printed>>
        <5>1. CASE Wmain
          BY <3>2, <5>1 DEF Wmain, ReadOption, BadOption, LastOption, SearchPath, ConstructTarget,
             Spawn, Start, Starts, Associate, Resume, WaitForProcess, GetProcessExitCode, Leave,
             EndProcess, BeginDestroy, Deassociate, Free, At, Exits, Before, vars, object_vars
        <5>2. CASE EventLoop
          <6>1. UNCHANGED <<pc, life, job>> /\ pc # "gone"
            BY <5>2 DEF EventLoop, Dispatch, Dequeue, Discard, Return, object_vars
          <6>2. life[MyTarget] # "live"
            BY <3>2, <6>1, WincAssumption DEF Before, WincBase, StepFollowsLife
          <6> QED BY <5>2, <6>1, <6>2 DEF EventLoop, Printed
        <5> QED BY <1>2, <5>1, <5>2 DEF WincNext, PrintErrorAndExit, JobRuns, System, AllGone,
                   winc_vars, tool_vars, vars, object_vars
      <4>2. ASSUME NEW j \in Jobs PROVE \E ns \in Seq(Notice) : posted'[j] = posted[j] \o ns
        <5>1. posted[j] \in Seq(Notice) /\ posted[j] \o <<>> = posted[j] /\ <<>> \in Seq(Notice)
          BY <1>0, ConcatEmptySeq
        <5>2. CASE posted' = posted
          BY <5>1, <5>2
        <5>3. ASSUME NEW k \in Jobs, JobRuns(k)
              PROVE  \E ns \in Seq(Notice) : posted'[j] = posted[j] \o ns
          <6>1. \/ posted' = posted
                \/ \E ns \in Seq(Notice) : posted' = [posted EXCEPT ![k] = @ \o ns]
            BY <1>0, <5>3, SystemPosts DEF JobRuns, Queued
          <6> QED BY <1>0, <5>1, <6>1
        <5>4. CASE Wmain
          <6>1. CASE Starts
            <7>1. pc' # "starting"
              BY <3>2 DEF Before
            <7>2. pc = "starting" /\ ~(step'[MyTarget] = "resume")
              BY <6>1, <7>1 DEF Starts
            <7>3. \/ posted' = posted
                  \/ step' = [step EXCEPT ![MyTarget] = "resume"]
              BY <6>1 DEF Starts, Associate, Resume, Goto
            <7>4. /\ MyTarget \in Targets
                  /\ step \in [Targets -> {"idle", "associate", "resume", "deassociate", "close"}]
              BY <1>0, WincAssumption DEF TypeOK
            <7> QED BY <5>2, <7>2, <7>3, <7>4
          <6>2. CASE ~Starts
            <7>1. posted' = posted
              BY <3>2, <5>4, <6>2 DEF Before, Wmain, ReadOption, BadOption, LastOption,
                 SearchPath, ConstructTarget, Spawn, Start, WaitForProcess, GetProcessExitCode, Leave,
                 EndProcess, BeginDestroy, Deassociate, Free, At, Exits, vars, kernel_vars
            <7> QED BY <5>2, <7>1
          <6> QED BY <6>1, <6>2
        <5> QED BY <1>2, <5>2, <5>3, <5>4 DEF WincNext, PrintErrorAndExit, EventLoop, Dispatch, Dequeue,
                   Discard, Return, AllGone, winc_vars, vars, kernel_vars
      <4> QED BY <1>0, <4>1, <4>2, BeginsKept
    <3> QED BY <3>1, <3>2
  <2> QED BY <2>1, <2>2, <2>3 DEF Prints
<1> QED BY <1>1, <1>2

(* What winc -l has printed is how the story of its job began, whoever      *)
(* destroys the target meanwhile and whichever call fails: no callback is   *)
(* left out, repeated or out of order (winc/main.cc:44-66).                 *)
THEOREM WincPrintsInOrder == WincSpec => []PrintedInOrder
<1>1. WincInit => Prints
  <2> SUFFICES ASSUME WincInit PROVE Prints
    OBVIOUS
  <2>1. job[MyTarget] = NoJob /\ MyTarget \in Targets /\ printed = <<>> /\ OnItsWay = {}
        /\ step[MyTarget] = "idle"
    BY WincAssumption DEF WincInit, Init, KernelInit, OnItsWay, ToSet
  <2>2. Untouched
    BY DEF WincInit, Init, KernelInit, Untouched
  <2>3. Follows
    BY DeliveryInit DEF WincInit, Delivery
  <2>4. Mine /\ Begins
    BY <2>1, <2>3, TargetAssumption DEF Mine, Begins
  <2> QED BY <2>2, <2>4 DEF Prints
<1>2. ASSUME WincBase, Prints PROVE PrintedInOrder
  <2> SUFFICES ASSUME NEW j \in Jobs, job[MyTarget] = j
               PROVE  IsPrefix(printed, Only(posted[j], Heard))
    BY DEF PrintedInOrder
  <2>1. PICK rest \in Seq(Notice) : Only(posted[j], Heard) = printed \o rest
    BY <1>2 DEF Prints, Begins
  <2>2. printed \in Seq(Notice)
    BY <1>2 DEF WincBase, WincTypeOK
  <2> QED BY <2>1, <2>2, PrefixOfConcat
<1>3. (WincInv /\ WincBase /\ Prints) /\ [WincNext]_winc_vars => (WincInv /\ WincBase /\ Prints)'
  BY WincInvStep, WincBaseStep, PrintsStep
<1> QED BY <1>1, <1>2, <1>3, WincInvInit, WincBaseInit, PTL DEF WincSpec
=============================================================================
