------------------------------ MODULE WincTool ------------------------------
(***************************************************************************)
(* The command line tool (winc/main.cc) over TargetEvents: one target on   *)
(* the stack of wmain, spawned, started and waited for once, while the     *)
(* message thread prints what it is told.  The tool is not a careful       *)
(* client: it destroys a listening target as soon as the first process has *)
(* exited, and an error leaves through exit(), which runs no destructor.   *)
(* What becomes of the arguments behind the options is CommandLine.        *)
(***************************************************************************)
EXTENDS TargetEvents

CONSTANTS MyTarget,   \* the address of t
          ExitCodes,  \* what the spawned process may exit with
          StillActive \* STILL_ACTIVE: it has not exited

(* What the tool may exit with when it does not pass on a process's code. *)
Untold == {"none", "usage", "errno", "winc_error", "crash"}

ASSUME WincAssumption ==
  /\ Targets = {MyTarget}
  /\ ~Careful
  /\ StillActive \notin ExitCodes
  /\ Untold \cap (ExitCodes \cup {StillActive}) = {}

VARIABLES
  pc,           \* the statement of wmain
  listen,       \* its local variable of that name
  process_code, \* what GetExitCodeProcess would say of the first process
  exit_code,    \* what the tool itself exits with
  printed       \* history: the notices printed on stderr

tool_vars == <<pc, listen, process_code, exit_code, printed>>
winc_vars == <<vars, tool_vars>>

Locations == {"options", "search", "construct", "spawn", "start", "starting",
              "wait", "waited", "return", "returning", "exit", "gone"}

(* One type invariant: the tool's variables, and where the target has got to *)
(* by each statement.                                                        *)
WincTypeOK ==
  /\ TypeOK
  /\ pc \in Locations
  /\ listen \in BOOLEAN
  /\ process_code \in ExitCodes \cup {StillActive}
  /\ exit_code \in ExitCodes \cup {StillActive} \cup Untold
  /\ printed \in Seq(Notice)
  /\ pc \in {"start", "starting", "wait", "waited", "return"} =>
       life[MyTarget] = "live" /\ job[MyTarget] # NoJob
  /\ pc # "starting" => step[MyTarget] \in {"idle", "deassociate", "close"} \/ pc = "gone"

WincInit ==
  /\ Init
  /\ pc = "options"
  /\ listen = FALSE
  /\ process_code = StillActive
  /\ exit_code = "none"
  /\ printed = <<>>

At(here, there) == pc = here /\ pc' = there

(* exit(c): the process is on its way out; the message thread still runs. *)
Exits(c) == pc' = "exit" /\ exit_code' = c

(***************************************************************************)
(* The arguments                                                           *)
(***************************************************************************)

(* --listen is the option the rest depends on. *)
ReadOption ==
  /\ pc = "options"
  /\ listen' = TRUE
  /\ UNCHANGED <<vars, pc, process_code, exit_code, printed>>

(* An option is unknown or lacks its argument; an argument is no integer, *)
(* when the code is whatever errno holds; the pointer that a GetUserSid   *)
(* which failed has left uninitialised takes the process down.            *)
BadOption ==
  /\ pc = "options"
  /\ Exits("usage") \/ Exits("errno") \/ Exits("crash")
  /\ UNCHANGED <<vars, listen, process_code, printed>>

LastOption ==
  /\ At("options", "search")
  /\ UNCHANGED <<vars, listen, process_code, exit_code, printed>>

(* The command line is missing, or names no program. *)
SearchPath ==
  /\ \/ At("search", "construct") /\ UNCHANGED exit_code
     \/ pc = "search" /\ Exits("usage")
  /\ UNCHANGED <<vars, listen, process_code, printed>>

(***************************************************************************)
(* MyTarget t; Spawn; Start; WaitForProcess; GetProcessExitCode            *)
(***************************************************************************)
ConstructTarget ==
  /\ At("construct", "spawn")
  /\ Construct(MyTarget)
  /\ UNCHANGED <<listen, process_code, exit_code, printed>>

Spawn ==
  /\ At("spawn", "start")
  /\ Assign(MyTarget)
  /\ UNCHANGED <<listen, process_code, exit_code, printed>>

(* Start(listen) up to its first shared step, and the rest of it. *)
Start ==
  /\ At("start", "starting")
  /\ IF listen THEN Attach(MyTarget) ELSE StartUnheard(MyTarget)
  /\ UNCHANGED <<listen, process_code, exit_code, printed>>

Starts ==
  /\ pc = "starting"
  /\ Associate(MyTarget) \/ Resume(MyTarget)
  /\ \/ step'[MyTarget] = "resume" /\ UNCHANGED <<pc, exit_code>>
     \/ /\ step'[MyTarget] = "idle"
        /\ IF has_thread'[MyTarget]
           THEN Exits("winc_error")
           ELSE pc' = "wait" /\ UNCHANGED exit_code
  /\ UNCHANGED <<listen, process_code, printed>>

(* WaitForSingleObject on the handle of the first process, without a limit. *)
NoWait == TRUE                 \* mutant: the wait returns at once
ProcessSignaled == 1 \notin active[job[MyTarget]]

WaitForProcess ==
  /\ At("wait", "waited")
  /\ ProcessSignaled
  /\ UNCHANGED <<vars, listen, process_code, exit_code, printed>>

GetProcessExitCode ==
  /\ At("waited", "return")
  /\ exit_code' = process_code
  /\ UNCHANGED <<vars, listen, process_code, printed>>

(* GetPolicy or GetLogon, Spawn, the shared resource that Start(true) needs, *)
(* the wait or the exit code is refused.                                     *)
PrintErrorAndExit ==
  /\ pc \in {"options", "spawn", "start", "wait", "waited"}
  /\ pc = "start" => listen
  /\ Exits("winc_error")
  /\ UNCHANGED <<vars, listen, process_code, printed>>

(* return exit_code: the destructor of t ... *)
Leave ==
  \/ /\ At("return", "returning")
     /\ BeginDestroy(MyTarget)
     /\ UNCHANGED <<listen, process_code, exit_code, printed>>
  \/ /\ pc = "returning"
     /\ Deassociate(MyTarget) \/ Free(MyTarget)
     /\ pc' = IF life'[MyTarget] = "free" THEN "exit" ELSE pc
     /\ UNCHANGED <<listen, process_code, exit_code, printed>>

(* ... and the end of the process, with whatever threads and handles it has. *)
EndProcess ==
  /\ At("exit", "gone")
  /\ IF life[MyTarget] = "free" THEN UNCHANGED <<mode, port_key>> ELSE CloseJob(MyTarget)
  /\ UNCHANGED <<active, born, queue, posted, object_vars, attached, thread_vars,
                 listen, process_code, exit_code, printed>>

(***************************************************************************)
(* The threads beside wmain                                                *)
(***************************************************************************)

(* The first process of the job is the one whose code is asked for. *)
JobRuns(j) ==
  /\ System(j)
  /\ IF 1 \in active[j] /\ 1 \notin active'[j]
     THEN process_code' \in ExitCodes
     ELSE UNCHANGED process_code
  /\ UNCHANGED <<pc, listen, exit_code, printed>>

(* The callbacks of MyTarget print; once its destructor has run, those of *)
(* Target are called, which do nothing.                                   *)
Printed == IF life[MyTarget] = "live" THEN Append(printed, Entry.notice) ELSE printed

EventLoop ==
  /\ pc # "gone"
  /\ \/ Dispatch /\ printed' = Printed
     \/ (Dequeue \/ Discard \/ Return) /\ UNCHANGED printed
  /\ UNCHANGED <<pc, listen, process_code, exit_code>>

-----------------------------------------------------------------------------
Wmain ==
  \/ ReadOption \/ BadOption \/ LastOption \/ SearchPath \/ ConstructTarget
  \/ Spawn \/ Start \/ Starts \/ WaitForProcess \/ GetProcessExitCode
  \/ Leave \/ EndProcess

(* The tool is gone, and nothing it started can still run. *)
AllGone ==
  /\ pc = "gone"
  /\ \A j \in Jobs : mode[j] \in {"running", "killed"} => active[j] = {}
  /\ UNCHANGED winc_vars

WincNext == Wmain \/ PrintErrorAndExit \/ (\E j \in Jobs : JobRuns(j)) \/ EventLoop \/ AllGone

(* wmain goes on, its callbacks print and return, and the system kills what *)
(* it was told to kill; no process is bound to exit by itself, and no call  *)
(* to fail.                                                                 *)
WincFairness ==
  /\ WF_winc_vars(Wmain)
  /\ WF_winc_vars(EventLoop)
  /\ \A j \in Jobs : WF_winc_vars(mode[j] = "killed" /\ JobRuns(j))

WincSpec == WincInit /\ [][WincNext]_winc_vars /\ WincFairness
-----------------------------------------------------------------------------
(***************************************************************************)
(* Properties                                                              *)
(***************************************************************************)
(* What winc -l has printed is how the story of the job began: nothing out *)
(* of order, nothing twice, nothing left out before something printed,     *)
(* whichever thread destroys the target meanwhile.                         *)
PrintedInOrder ==
  \A j \in Jobs : job[MyTarget] = j =>
    IsPrefix(printed, Only(posted[j], Heard))

(* A tool that passes a code on passes that of the process it spawned, *)
(* which has exited.                                                   *)
ExitCodeTells ==
  exit_code \in ExitCodes \cup {StillActive} =>
    exit_code = process_code /\ process_code # StillActive

(* A tool whose process has exited, and one on its way out, by return or   *)
(* by exit() without a single destructor, comes to its end and leaves no   *)
(* process of its own alive: neither the destructor nor the message        *)
(* thread, which prints under crit_sec, holds the other up.                *)
WincEnds ==
  \/ pc \in {"waited", "return", "returning", "exit", "gone"}
  \/ pc = "wait" /\ ProcessSignaled
  ~> pc = "gone" /\ \A j \in Jobs : active[j] = {}

(* The comment at main.cc:198 says that what happens after the process's   *)
(* exit is discarded; all that came before it has then been printed by the *)
(* time a tool that returned is gone.                                      *)
OnlyLaterEventsLost ==
  pc = "gone" /\ exit_code \in ExitCodes =>
    LET heard == Only(posted[job[MyTarget]], Heard)
    IN  \A i \in DOMAIN heard : heard[i] = About("exit", 1) => Len(printed) >= i - 1
=============================================================================
