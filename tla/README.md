# Verification of windows-container

TLA+ models of the `winc` library, the TLC runs that check them on small
instances, and proofs of the theorems that hold for every instance.  File and
line references are to the repository; `core/...` stands for `src/core/...`.

## 1. The system

`winc` is a sandbox library for Windows.  A *container* spawns a process with a
restricted token, optionally on a desktop of its own, inside a job object with
limits.  A *target* stands for the spawned process and its job; once started
with `listen`, it receives callbacks about the job's processes from one message
thread that all targets of a program share.  A Python binding wraps the
classes, a command line tool uses them once.

| component | state it keeps | operations that change it | talks to |
|---|---|---|---|
| shared resource, `core/job_object.cc:16-90` | global `g_shared`; per object the completion port, `thread_created`, `crit_sec`, `attached_target` | `InitJobObjectSharedResource`, `GuardCompletionPortThread` | every `AssociateCompletionPort`, on its caller's thread |
| target, `core/target.cc` | `job_object_`, `process_handle_`, `thread_handle_`, `listening_` | constructor, `Assign`, `Start`, `TerminateJob`, destructor | container (filled by `Spawn`), shared resource, client subclasses by virtual calls |
| event dispatch, `core/job_object.cc:160-232` | `attached_target`, the port's queue, the batch of dequeued entries | `AssociateCompletionPort`, `DeassociateCompletionPort`, `MessageThread` | targets, found by address |
| policy, `core/policy.cc` | logon, restricted SIDs, `use_desktop`, job limits, cached restricted token and alternate desktop | the setters, `GetLogon`, `GetRestrictedToken`, `GetDesktop`, `MakeJobObject` | logon, desktop; `Spawn` borrows its caches |
| container, `core/container.cc` | `policy_` | `Spawn`, `GetPolicy` | policy, job object, target |
| logon and SIDs, `core/logon.cc`, `core/sid.cc` | tokens, lazily read SIDs | `GetUserSid`, `GetGroupSid`, `FilterToken`, `GrantAccess`, `Init` | policy, system; shared with Python objects |
| desktop, `core/desktop.cc` | station and desktop handles, full name | `Init`, `GetFullName` | policy |
| Python binding, `bindings/binding_python` | reference counts, `container_object`, the GIL | methods of `Container`, `Target`, `Logon`, `SID`; callbacks | container, target, message thread |
| command line tool, `winc/main.cc` | the local variables of `wmain`, one target among them | parses arguments, quotes the command line, spawns, starts and waits once, leaves by `return` or `exit` | container, target, message thread |
| Windows jobs and ports (external) | processes of a job, association, queue of packets | association, process creation and exit, limits, closing handles | target, message thread |

What is hard about it:

- **First use from several threads.** `g_shared` is installed by one
  compare-and-exchange without a lock, the message thread by a double-checked
  lock; each system call between may fail (`core/job_object.cc:38-88`).
- **Destruction against dispatch.** The kernel and the packets know a target
  only by its address.  A packet may be waiting, or dequeued, or be the one a
  callback is running for, when the target is destroyed, and the address may be
  taken by another target before the packet is looked at (`:186-229`).
- **Order.** The target must be attached before the port is associated, since
  the association itself queues the first notice; `OnExitAll` must be last,
  since clients let the target go there.
- **Partial failure of `Spawn`.** A process exists before it is in its job;
  whichever of the later calls fails, it must neither execute nor stay behind.
- **Stale caches and borrowed references.** `Spawn` borrows the policy's token
  and desktop without a reference count and without a lock; setters have to
  drop just the caches they make stale.
- **Two locks.**  A callback of the binding takes the GIL while the message
  thread holds `crit_sec`; threads in the binding take `crit_sec` without the
  GIL (`bindings/binding_python/target.cc:31`, `:44`, `:175`).
- **Shared logons.**  A `Logon` belongs to the policy and to any number of
  Python objects, each of which may be initialised again, and caches SIDs that
  its token may refuse to tell (`core/logon.cc:17-83`).
- **Leaving early.**  The command line tool destroys its target, or calls
  `exit`, while the message thread may be calling it (`winc/main.cc:197-209`).
- **Counted references.**  The dispatcher, a call in progress and the program
  each own a reference of a target object; the last to go destroys the target,
  on whatever thread that is (`:41`, `:48`, `:180`).

What makes each component correct is stated as the properties of its module,
below.  `PROJECT.json` lists the hazards one by one, at the line where each
bites, with the properties aimed at it.

## 2. The modules

| module | models | lines of code |
|---|---|---|
| `SharedResource` | the creation of `g_shared`, its port and its thread | `core/job_object.cc:16-90` and the calls to it at `:160-167` |
| `CompletionService` | abstract: one port, one thread, the same port for all | none; a specification |
| `SharedResourceProofs` | theorems and proofs about `SharedResource` | |
| `JobKernel` | external: jobs, processes, association, the port's queue | what `core/job_object.cc` and `core/container.cc` use |
| `TargetEvents` | targets and the message thread, over `JobKernel` | `core/target.cc:19-64`, `core/job_object.cc:160-232` |
| `Policy` | the policy's setters and the steps that fill its caches | `core/policy.cc`, parts of `core/logon.cc`, `core/desktop.cc` |
| `Container` | `Spawn` over `Policy`, with its client | `core/container.cc`, `core/policy.cc:110-133` |
| `Sandbox` | abstract: a spawn that takes effect in one step or in none, as its client sees it | none; a specification |
| `MCContainer` | the constants and the symmetry of the container run | |
| `EventStream` | abstract: what the client of one job may be told | none; a specification |
| `PolicyObjects` | the objects behind a policy as a Python program shares them: logons, SIDs, the desktop's name | `core/logon.cc:17-83`, `core/desktop.cc:16-46`, `bindings/binding_python/logon.cc`, `sid.cc`, the accessors of `container.cc` |
| `MCPolicyObjects` | the symmetry of its run | |
| `WincTool` | `wmain` and its printing target, over `TargetEvents` | `winc/main.cc` |
| `PyBinding` | target and container objects of Python, the GIL, the callbacks, over `TargetEvents` | `bindings/binding_python/target.cc`, `container.cc` |
| `MCPyBinding` | the symmetry of the binding's safety run | |
| `CommandLine` | the quoting of arguments, and the C runtime's rules as its reference | `winc/main.cc:149-187` |
| `Filtering` | the members of a sequence that are in a set, as a recursive function: `std::remove` with the `erase` after it | `core/policy.cc:48-50` |
| `FilteringProofs` | lemmas: what `Filtering` returns, induction over sequences | |
| `TargetEventsProofs` | theorems and proofs about `TargetEvents`: attached targets, then what targets are told | |
| `ContainerProofs`, `PolicyObjectsProofs` | theorems and proofs about the modules they are named for | |
| `PyBindingProofs`, `WincToolProofs` | the same, over `TargetEventsProofs` | |
| `CommandLineProofs` | lemmas about what the C runtime reads, character by character; the theorem of `CommandLine` | |

`TargetEvents` takes a shared resource that exists: `SharedResource` shows that
every associating call gets the same, live, drained one, so the two meet at the
abstract service.  `Container` in turn treats a target as the owner of a job:
`Container` ends where `Target::Assign` begins, and `TargetEvents` begins with
`Assign`.  `PyBinding` and `WincTool` extend `TargetEvents`: each of their
actions that enters the library is a conjunction with the library's own action.
`Policy` and `PolicyObjects` see the policy from two sides: in the first a logon
is a value and what matters are handles, threads and failures; in the second
it is an object with caches that others refer to, and handles are taken for
granted.

### SharedResource

One process per call of `AssociateCompletionPort`.  `pc` says where the call
is, `sr` is its local variable of that name, `loser` the object it has to
delete.  One action is one access to memory that another thread can see:
`LoadGlobal` (`:67`), `NewResource` (`:75-78`), `Publish` (the exchange,
`:79-80`), `DeleteLoser` (`:82`), `CheckThread` (the test outside the lock,
`:39`), `EnterLock`, `RecheckThread` (`:41-44`), `MarkCreated` (`:49`),
`LeaveLock` (`:45`, `:51`).  Resources are addresses: the heap may hand a
deleted one out again.  Opening the port and creating the thread may fail, at
every call.  An object whose port could not be opened stays allocated, as in
the code (`:76-78`); so do the addresses in the model, hence as many addresses
as calls are enough for every behaviour of that many calls.

### JobKernel and TargetEvents

`JobKernel` holds what the library relies on: a job is created with one
suspended process; a running one forks, hits limits and exits; a job takes one
association in its life, which queues a `new` notice for every process that is
already there; each event of an associated job queues a packet with the
association's key; the last exit queues `zero`; closing the last handle kills
the processes, and whether what they still post arrives is left open.

In `TargetEvents` an address is `free`, `live` or `dying`; `step` says how far
its thread is in `Start` or in the destructor.  `Attach`, `Associate` and
`Resume` are the three steps of `Start(true)`; `StartUnheard` begins
`Start(false)`; `BeginDestroy`, `Deassociate` and `Free` are the destructor.
`Dequeue` takes a batch of at most `BatchMax` (`ENTRY_PER_CALL`) entries,
`Dispatch` enters `crit_sec`, finds the target and calls it, `Return` ends the
callback and leaves the lock, `Discard` handles an entry without a callback.
`ReturnDestroyed` is the Python binding's `OnExitAll`, which drops the last
reference and so destroys the target from inside the callback, under the lock
the thread already owns.  `crit_sec` is not a variable: its other holders do
one statement each, so it is enough that they are excluded while a callback
runs (`LockFree`).

`posted` and `delivered` are history variables: the notices each job has queued
and the callbacks made for it.  They are bounded by the bounds on processes and
limit notices.  The field `job` of a packet is known to the model only; the
code sees the key.

`EventStream` is what a client relies on: of each process one announcement and
one end, in this order; of limits only while a process is there; the end of all
once everyone announced has ended, and nothing after it.  `ImplementsStream`
maps the callbacks made for each job (`delivered`) to it.

Two constants set the environment.  `Faults` names the system calls of `Start`
that may fail.  `Careful` is the discipline of the repository's own clients: a
target is spawned into once and a listening one is kept until its `OnExitAll`
(`tests/test_limits/main.cc`; the binding keeps a reference for it,
`bindings/binding_python/target.cc:40`, `:179`).  Clients otherwise construct,
assign, start, terminate and destroy as they like.  Calls on one target do not
overlap, but for `TerminateJob`, which reads a member only and which
`OnExitAll`, or any other thread, may call at any time.

### Policy and Container

`Policy` has one action for each setter and two for each miss of a cache:
making the object (`FilterToken`, `MakeDesktop`) and installing it
(`InstallToken`, `InstallDesktop`), since between the two the handle belongs to
a thread's local variable.  `token` and `desktop` say what is behind each
handle, or that it is closed.  A token is abstracted to the logon it was made
of and the set of SIDs that restrict it, a desktop to the logons that may use
it.

`Container` runs those steps as part of `Spawn`, one action per system call,
each of which may fail, after `CallSpawn`, the call itself: `GetPolicy` where there
is no policy yet (it makes the default one in a local variable, so a failure on the
way drops it: `PolicyDropped`), `BorrowToken` or `NewToken` and `CacheToken`, `BorrowDesktop` or `NewDesktop` and `CacheDesktop`,
`MakeJobObject`, `ApplyOptions`, `CreateProcess`, `AssignProcess`,
`HardenProcess` (the hard error mode), `HandOver` (`Target::Assign`).  A failure
closes the job the way `job_object_holder` does, with what the job's limits
then do to the process.  Between spawns a client starts and destroys targets
and calls any setter.  A second thread may spawn while a first one does only
when every cache that `Spawn` reads is full (`Warm`): the token, and either the
alternate desktop with its name read or the default desktop.  Nothing in the
library synchronises the policy, so this is the most a client may do.

`Sandbox` is what is left of this for a client: what it asks for, whose spawn is
under way, the job of each target, and the process of each job with its limits.
A spawn is called, and then takes effect in one step or fails: the client has a
suspended process under the limits that policy and options ask for, or has nothing.
What is asked for changes only by `ChangePolicy`, and only while no spawn is under
way, so it is one thing from the call to the end of it.  `Container` implements
`Sandbox` under the mapping `Client`: a policy that is still to be made asks for the default one
already, a null logon is the process's own (`Asked`), and a process is not seen
while the job it is for is known to `Spawn` alone (`Seen`).  What is left of a
failure is seen as well, so the mapping hides no process for good: `Fail` may leave
one only where the policy is without `KILL_ON_JOB_CLOSE`.

### PolicyObjects

A `Logon` is an address with the session its token is of and the two SIDs it
has cached; an address no `shared_ptr` points to is free again (`Kept`).  A
Python object of type `Logon`, `CurrentLogon` or `UserLogon` is its
`shared_ptr`, empty until `__init__` has run, which may happen any number of
times.  A `Sid` object holds a SID, or memory no SID was copied to (`Unset`).
`GetSid` asks the token unless the answer is cached, and the token may refuse.
The accessors of the policy, with the tests they make, and the two getters that
`Spawn` calls complete it; `means` and `chosen` are history, the session each
object and the policy were given last.

`GetFullName` puts the desktop's name together in the buffer it then keeps.
`AppendName` grows the buffer by the size the system asks for, which may exceed
the name by `MaxSlack`, writes at `orig_size` and cuts at the first terminator;
each of the four system calls may fail, and `FullName` says what each failure
leaves.  A part of the name counts as one element, the terminator as another.

### PyBinding

What a Python thread does between taking the GIL and releasing it is one
action: nothing else runs Python code meanwhile.  `pc` and `self` say which
method of which target a thread has under way while the GIL is released;
`refcnt` and `container_refcnt` are `ob_refcnt`; `names` and `container_names`
are the references the program's own variables hold.

| code | actions |
|---|---|
| `CreateTargetObject`, `CreateContainerObject` | `NewTarget`, `NewContainer` |
| the last `Py_DECREF`, `DeleteTargetObject` on a thread | `ReturnDropping`, then `Destroy` without the GIL (`BeginDestroy`, `Deassociate`, `Free` of `TargetEvents`), then `Reclaim` with it |
| `SpawnContainerObject` | `SpawnBegin`; `SpawnLibrary` without the GIL; `SpawnEnd` or `SpawnRefused` |
| `StartTargetObject` | `StartBegin`; `StartLibrary` without the GIL (`Attach`, `Associate`, `Resume`); `StartEnd` |
| `WaitForProcessTargetObject` | `WaitBegin`; without the GIL until the process has exited (`WaitEnd`) or the time is over (`WaitReturns`) |
| `TerminateJobTargetObject` | `Terminate`, by a thread or from inside a callback |
| callbacks of `TargetDirector` | `PyDispatch` takes `crit_sec`, `EnsureGil` the GIL, `CallbackReturns` leaves both |
| `TargetDirector::OnExitAll` | `OnExitAll`, which drops the dispatcher's reference, and `ReclaimInside` if it was the last |

`gil` is held across a step by callbacks only: whatever else takes it gives it
back before the step ends, `DeleteTargetObject`, `spawn`, `start` and
`wait_for_process` included (`ReleasedBy`).  A method that kept it while it
waits for `crit_sec` would let `CallsEnd` fail, as its mutant shows.
`OnExitAll` and `ReclaimInside` are separate because `DeleteTargetObject` lets
the GIL go for `~Target`, under `crit_sec`; the destructor's own steps in there
exclude every other thread that could see them, so they are `ReturnDestroyed`,
one step.

`SharedTargets` lets threads pass one target to `spawn` at the same time.  It
is `FALSE` in every run but the one that shows what follows then.  A method is
otherwise never called on a target that has another under way (`Alone`).

### WincTool

`pc` is the statement `wmain` has come to, one action per statement that another
thread or the system could notice; the arguments are reduced to whether
`--listen` is among them.  `exit_code` is what the tool will exit with:
a process's code, or one of the codes by which it says that something failed.
`Exits` is `exit(c)`, after which the message thread runs on until
`EndProcess`; `Leave` is `return`, which runs the destructor of `t`.  The
callbacks of `MyTarget` print, until its destructor has run and those of
`Target` are in their place (`Printed`).  `WaitForProcess` waits for the first
process of the job, whose code `JobRuns` chooses as it exits.

### CommandLine

A character stands for its class: blank, tab, quotation mark, backslash, other,
terminator.  `Build` is what `wmain` assembles from the arguments; `Parsed` is
what the C runtime of the spawned process makes of it, written from the rules of
that runtime as the reference definition.  It reads one character at a time
(`Read`): backslashes are held back until it is known whether a quotation mark
follows (`Mark`), a mark doubled within quotation marks is one, and the program's
name is read by rules of its own (`InName`).  `After` folds `Read` over the line
as a recursive function, so that proofs can use it.

## 3. The runs

Deadlock is checked in every run.  `SharedResource`, `TargetEvents`,
`PyBinding`, `WincTool` and `CommandLine` state where they may rest
(`AllReturned`, `AtRest`, `PyAtRest`, `AllGone`, `Spawned`) as a disjunct of the
next-state relation; any other state without a successor is an error.  A
container can always spawn, and a Python program can always go on.

| run | instance | distinct states | shows |
|---|---|---|---|
| `shared_resource` | 3 calls, 3 addresses | 7,724 | one port, one thread, nobody on a deleted object, all calls return; implements `CompletionService` |
| `target_careful` | 1 address, 2 jobs, 2 processes, 1 limit notice, batches of 2, both faults, careful | 1.7 million | callbacks reach a live object, about its own job, none lost; implements `EventStream` |
| `target_careless` | 1 address, 2 jobs, 1 process, resume faults, careless | 52,000 | no freed address stays attached or is called back; `OnExitAll` arrives; destructors end |
| `container` | 2 threads, 2 logons, 2 SIDs restricting, 2 of each handle, 2 jobs | 1.2 million | caches are fresh, processes are as asked, contained before they run, never left behind; handles are owned, and open while borrowed; implements `Sandbox`, where a spawn is one step |
| `py_binding` | 2 threads, 2 targets, 2 jobs, 1 process each, 1 container, association faults | 383,000 | counts are the references there are; a callback's target is the dispatcher's; containers outlive targets; the library is used carefully |
| `py_liveness` | 1 thread, 2 targets, 2 jobs, 1 container, association faults | 297,000 | methods return; abandoned targets are deallocated |
| `py_start_fails` | 1 thread, 1 target, resume faults | violation | finding 1 below |
| `py_shared_target` | 2 threads, 1 target, `SharedTargets` | violation | finding 2 below |
| `policy_objects` | 3 sessions, 3 logon addresses, 1 Logon and 1 Sid object besides the policy's, 2 SIDs restricting | 610,000 | objects answer for their session; the policy and its caches for the one chosen; the name is whole or not there |
| `winc` | 2 processes, 1 limit notice, batches of 2, both faults | 76,000 | output is a prefix of what happened; the exit code is the process's; the tool ends and leaves nothing |
| `winc_listen` | as `winc` | violation | finding 3 below |
| `command_line` | a name and up to 2 arguments, of up to 3 characters | 637,000 | arguments arrive as they were given, but for fragile ones |

**Why the bounds are enough to be interesting.**  Three calls are the fewest
with two losers of the exchange and a third caller that comes after it, and
with one thread in the lock, one waiting and one outside.  One address and two
jobs are the fewest with an address used again: in `target_careless` while packets
of its former target wait, in `target_careful`, whose clients wait for `OnExitAll`,
as early as during that callback.  Two processes let exits happen in both orders, and let a process
fork; batches of two let the second entry's target vanish during the first's
callback.  Two handles are what one cache needs: the old object and the new
one; two threads that spawn, with two jobs, are the fewest that borrow one
object at a time; with two restricted SIDs the default policy's can be replaced
and one added twice, and with two logons a logon changed under a full cache.
For the policy's objects three logon addresses are the policy's, the Python
object's and the one it is initialised with next, of which the second may be
the policy's too.  The Logon object can be dropped and made again, so one is
enough to have several in turn.  The tool has one target by nature.
For the binding, two threads and two targets are the fewest with one thread in
a method, another destroying, and the message thread in a callback of a third
party's target; `py_liveness` has one thread beside the message thread, which
is enough for each lock to be contended, and keeps the graph small enough for
temporal checking.  Three characters hold every combination the quoting treats
as special: a backslash before a mark, a mark before a blank, either at an end;
two arguments let one spoil the other.

**Symmetry.**  `MCContainer` permutes handles, jobs and spawning threads,
`MCPyBinding` threads, targets, containers and jobs, `MCPolicyObjects` addresses,
Python objects and the sessions of users.  They are compared for equality only,
no formula chooses among them, and the three runs check invariants, one action
property and one refinement without fairness, which is an action property too.
Both are symmetric themselves, the mapping included, and are checked on each step
as it is made; the quotient is sound for these.  Runs with liveness use none.

**What the properties say.**

- `SharedIsAlive`, `NoPortLeaked`: a call that lost the race to install its
  object continues with the winner's; every open port is the installed one or
  belongs to a call about to install or delete it.
- `OneMessageThread`: two message threads would make callbacks of one target
  concurrently; none, on the port of a call that has returned success, would
  make no callback.
- `GlobalIsStable`: `DeassociateCompletionPort` reads `g_shared` again, without
  the lock, and trusts it to be what `AssociateCompletionPort` used.
- `EveryCallReturns`: the error path of `GuardCompletionPortThread` releases
  the lock others wait for.
- `CallbackOnLiveObject`: the look-up in `attached_target` and the lock that is
  kept across the callback are what stands between the message thread and
  freed memory.  Under `Careful` it holds with every fault (`target_careful`);
  without it, where packets of a destroyed target wait under an address used again
  and a second spawn brings a second job under the same key, as long as associations
  do not fail (`target_careless`).  Both are proved.  A
  failed association leaves its entry in `attached_target` with `listening_`
  unset, so the destructor does not erase it (`AttachedIsLive` fails there); the
  entry does harm only if the job is associated all the same or the address is
  used again by a client that does not wait for `OnExitAll`.
- `NoCrossDelivery`: holds for careful clients only, and so is checked there:
  a client that destroys a listening target early and constructs another at the
  same address may see the old job's events.
- `NothingLost`: the callbacks made so far and those on their way are, in
  order, the notices the job has posted.  This is what attaching before
  associating buys.
- `ImplementsStream`: what clients are told of a job makes sense by itself, for
  every interleaving of batches, destruction and reuse; clients release the
  target on `OnExitAll`, so nothing may follow it.
- `ExitAllDelivered`, `DestructionEnds`: under the fairness below.  The first
  supposes that the job has posted something: `Start(true)` on a job that was
  terminated while suspended is told nothing, ever (`core/target.cc:39`).
- `CachesAreFresh`, `SpawnedAsAsked`: what a process gets is what the setters
  last said, including limits that `MakeJobObject` and the options set one
  after the other.
- `NothingRunsUncontained`, `NoStrayProcess`: see above.  `NoStrayProcess`
  excepts processes in a job from whose policy the client has removed
  `KILL_ON_JOB_CLOSE`: after `AssignProcess` that limit is the only thing that
  stops a process when `Spawn` fails (`core/container.cc:138-154`).
- `ImplementsSandbox`: what the others say of single states, for whole
  behaviours.  No spawn touches a process handed over before, or its limits; a
  target's process is never another's; only its owner starts or ends it; and no
  step of `Spawn`, filling a cache, making the default policy or failing half-way
  through it, changes what this or the next spawn is asked for: to `Sandbox` that is
  `ChangePolicy`, which no spawn under way allows.
- `BorrowedStaysOpen`, `HandlesAreOwned`: the first is about threads that overlap
  with full caches, which `MayCall` demands of them.  The second excepts the jobs that
  `MakeJobObject` leaks when a limit cannot be set (`core/policy.cc:119-128`).
- `DispatcherOwnsTarget`: while a callback runs, the object has a reference that
  is neither the program's nor a call's.  It holds with failing associations.
- `RefsAreCounted`: no error path of `start` or `spawn` drops a reference to a
  target or a container twice or keeps one.  The dispatcher owns one of the target
  from the association to `OnExitAll`.
- `ContainerOutlivesTarget`: the restricted token and the desktop of a running
  process belong to the container's policy.
- `KeepsDiscipline`: a behaviour of the binding is one of `TargetEvents` with
  `Careful` true.  It discharges, for Python programs, the assumption
  `target_careful` makes of clients: a listening target is destroyed after its
  `OnExitAll` because the dispatcher's reference goes there.
- `CallsEnd`, `TargetsReleased`: with the GIL and `crit_sec` handed on, no
  method waits for ever, `wait_for_process` once the job was terminated, by
  another thread or by a callback, both of which need the GIL it has given up.
  A target started after its job was terminated and emptied keeps the
  dispatcher's reference for good, since nothing is ever posted; `Abandoned` asks
  for a job that has reported.
- `LogonObjectsTell`: a token that does not answer must leave no trace in the
  cache, and `__init__` must not change a `Logon` others share.
- `PolicyIsCurrent`: a Logon object set as the policy's may be initialised again
  or go away; the policy, its token and its desktop stay with what was set.
- `NameIsWholeOrEmpty`: a failure in the second part of the name must not leave
  the first in the cache, where the next call would take it for the whole.
- `PrintedInOrder`: what `winc -l` prints is how the story of its job begins,
  whichever thread destroys the target meanwhile.
- `ExitCodeTells`: the code comes from a process known to have exited, not from
  one still active or one that could not be asked.
- `WincEnds`: the destructor and the message thread, which prints under
  `crit_sec`, do not hold each other up, and the job kills whatever is left, also
  when `exit` runs no destructor and the process was never resumed.
- `ArgumentsArrive`: `Fragile` names what the quoting of `wmain` does not
  provide for: an empty argument, a tab without a blank, a backslash in front of
  a mark (the argument's, or the closing one).  Nothing in the repository
  promises these.  No argument spoils the program's name.

**Findings.**  Three runs show the code at odds with what it says of itself.

1. `bindings/binding_python/target.cc:40` says that "the event dispatcher owns
   the target object".  When `ResumeThread` fails after the association has
   succeeded, `Target::Start` returns an error with `listening_` set, and
   `StartTargetObject` drops the dispatcher's reference (`:48`) although the
   dispatcher will call.  `OnExitAll` later drops a reference that is not its
   own.
2. `bindings/binding_python/container.cc:298` refuses a target "already in use".
   The test of `container_object` is made before the GIL is released for
   `Spawn` (`:296`, `:333`) and the field is set after it (`:343`), so two
   threads can spawn into one target; the second `Assign` deletes the first
   job.
3. `winc/main.cc:198` says that "in listen mode, events after process exit will
   be discarded".  So may be events of before: the process's handle is signalled
   whether or not the message thread has come to look at the job's packets, and
   `wmain` leaves at once.  In the shortest behaviours not even the creation of
   the process is printed.

Noted in passing, and outside the models: the getter of `process_peak_memory`
asks for the job's (`bindings/binding_python/target.cc:129`); `start` and the
getters of a target that was never spawned dereference a null pointer (`:45`);
`winc` exits with whatever `errno` holds when a parameter is no number
(`winc/main.cc:37`); `UserLogon::Init` called twice would keep the SIDs of the
first token (`core/logon.cc:170`), but nobody calls it twice.

Every property has a mutant: a change of one definition, of the kind a slip in
the code would be, under which TLC finds the property violated by the same
run.  Mutants are the short definitions marked `mutant` in front of the
definition they would replace.

**Fairness.**  In `SharedResource` each call is weakly fair: it runs on a thread
of its own which the scheduler does not starve, and `crit_sec` is held for a
bounded number of its holder's steps.  In `TargetEvents` weak fairness is given
to the message thread (whose callbacks are supposed to return), to the steps
that finish a `Start` or a destructor already begun, and to the system's
killing of terminated jobs.  Nothing obliges a client to make another call, a
process to exit by itself, or a system call to succeed.  Entering `crit_sec` in
the destructor needs no more than weak fairness in these instances, because a
job's packets are finitely many and the thread's callbacks run out.
`Container` has no liveness property: `Spawn` waits for nobody.  In `PyBinding`
the steps inside a method and those of the message thread are strongly fair:
they wait for the GIL or for `crit_sec`, which other threads take and leave
again and again, and both the interpreter and a critical section hand a lock on
to those that wait.  Starting a method is fair for
nobody, and `wait_for_process` returns by fairness only once the process has
exited.  In `WincTool` `wmain` and the message thread are weakly fair, with the
system's killing of a closed job; failing is fair for nobody.

## 4. The proofs

`SharedResourceProofs` proves, for any number of calls and any set of
addresses, each safety property of `SharedResource` and the refinement:
`TypeCorrect`, `SharedAlive`, `OneThread`, `PortsAccounted`,
`GlobalStable`, `Implements`.  The only assumption is `SentinelAssumption`: null
is no address and "nobody" is no call.

None of the properties is inductive.  That a call never uses a deleted object
depends on who may delete it, so the invariant `Inv` speaks of ownership first:

- `OwnedIsPrivate`: an object that a call has made and not installed, or has to
  delete, is allocated, is not `g_shared`, and no other call owns it.  This is
  what keeps a deletion from hitting anyone else.
- `InstalledIsUsed`: a call past the exchange has `sr = g_shared`, and
  `g_shared`, once set, is allocated with its port open.
- `OnlySharedIsMarked`: only `g_shared` has its flag set or threads running.
- `LockHolder`: a call between entering and leaving is the holder of its
  object's `crit_sec`, so no two are there.
- `FlagFollowsThread`: a thread exists exactly when the flag is set or the one
  holder is about to set it.  With `LockHolder` this gives a single thread,
  without either the double check proves nothing.
- `NoPortLeaked` is inductive with the above.

`InvInit` and `InvStep` prove it, one step per action.  `GlobalStep` gives the
action property.  For the refinement `ServiceStep` maps `Publish` to `Open`,
the creating branch of `RecheckThread` to `StartDispatcher`, the steps that
return to `Serve` or `Refuse`, and every other step to a stutter
(`SilentStep`).

`TargetEventsProofs` proves, for any number of targets and jobs, any bounds and
any client, `AttachedLive` and `CallbackLive`: if `"associate" \notin Faults`
then `[]AttachedIsLive` and `[]CallbackOnLiveObject`.  The hypothesis is needed:
the first fails without it.  What has to be strengthened is that the destructor
does not look into `attached_target`; it trusts `listening_`:

- `AttachedWillErase`: an attached target is not free nor past its
  `Deassociate`, and it listens or is about to associate.
- `AssociatedIsListening`: an owner whose job has a port listens, so that an
  association that fails for having been made before leaves no entry that the
  destructor would miss.  It needs `JobsAreOwned`, one owner to a job.
- `CalledIsAttached`: the callback's target is attached for as long as it runs,
  since entering and leaving `attached_target` wait for the lock.

`Types` proves `TypeOK`, which with the place of each target in its life
(`Base`) is the ground of what follows.

The second part of the module proves, for careful clients, any number of targets, jobs,
processes and notices, and whichever system calls fail: `NoNoticeLost`
(`NothingLost`), `CallbacksAreOwn` (`NoCrossDelivery`), `CarefulCallbackLive`
(`CallbackOnLiveObject`, for which the first invariant needs associations that do
not fail) and `StreamImplemented`, the refinement of `EventStream`.  The argument has one invariant, `Delivery`, with a
part for each place a notice passes:

- `Tells`: what a job has posted is a story, each notice one that may follow those
  before it, and it accounts for the processes that are there (`Accounts`).  A job
  whose target lives and which has no port yet has posted nothing, so attaching
  before associating misses nothing.
- `Owners`: one target to a job, the job's port is its owner's, and an owner
  whose job has a port listens or is about to.
- `Reach`: a packet on its way finds the target it was posted for, at that address
  and with that job.  This is where the discipline enters: a target is destroyed
  before it has listened or after its `OnExitAll`, and after `zero` a story does
  not go on, so nothing is on its way to it.
- `Follows`: what was posted is what was handled and what is coming, in this
  order, and the callbacks are what was handled and is heard.

`StreamStep` then maps `Dispatch` to the abstract step for the notice it calls
back with, which may follow what was told because it may follow what was posted,
and every other step to a stutter.  The discipline is stated of a step
(`Discipline`), so that the lemmas serve clients that observe it without `Careful`.

`FilteringProofs` holds the lemmas about sequences these need: `Only` of an empty,
longer, joined sequence.  The induction theorems of the library take operators,
which the provers cannot instantiate.  `NatSetInduction` and `SeqInduction` are
about sets instead, and follow from the least element that
`NatLessThanWellFounded` provides.

`PyBindingProofs` proves `UsesTheLibrary`, that every behaviour of `PyBinding` is
one of `TargetEvents`, and with it `PythonCallbackLive`.  The only invariant these
need is that a thread inside a method has a target.  The other theorems speak of
references, for any finite sets of threads and addresses and with failing
associations:

| theorem | states |
|---|---|
| `ReferencesCounted` | `RefsAreCounted`, of targets and of containers |
| `DispatcherOwns` | `DispatcherOwnsTarget` |
| `OneSpawn` | `SpawnedOnce`: a target that has a job keeps it |
| `ContainerOutlives` | `ContainerOutlivesTarget` |
| `PythonIsCareful` | `KeepsDiscipline` |
| `PythonHearsAll` | `NothingLost`, `NoCrossDelivery`, `CallbackOnLiveObject`, `ImplementsStream` of Python programs, whether `Careful` or not |
| `PyTypes` | `PyTypeOK` |

They suppose that `ResumeThread` does not fail and that no two threads spawn into
one target.  Both are needed: findings 1 and 2 are what happens otherwise.

`PyInv` says where the target of a thread is when the thread is at a place in a
method (`Place`), that no two threads work on one target (`OneCall`), what the
message thread holds during a callback (`Calling`), and of each target that its
object goes with its last reference and its count is a name's, a call's, the one
`Start` holds for the dispatcher until the association, and the dispatcher's own
while the job reports (`Counted`).  That reference keeps the object until
`OnExitAll`, hence the discipline; but that nothing is posted after
`OnExitAll`, so that the count may go to nothing there, is a fact of the library
which holds by the discipline.  So the two invariants carry each other:
`PyDiscipline` derives `Discipline` for a step from both before it,
`DeliveryStep` and `PyInvStep` then re-establish both (`PyDelivery`).
`DisciplinedStep` turns this into the refinement: a step of `Next` that observes
the discipline is one of `Disciplined!Next`, the same module with `Careful` true.

The count of a container is the number of threads that spawn by it and of targets
it made; `CountExcept` says what one changed value does to such a number, and
`ContainerInv` follows it through every step.

`ContainerProofs` proves `Contained` (`NothingRunsUncontained`) and `NoneStrays`
(`NoStrayProcess`) from an invariant that follows a process through `Spawn`:
`Prepared` says how far it is at each place, `JobsAreHeld` that no two threads
prepare one job, `LeftBehind` what may be left when nobody owns it.  `Closing`
and `Preparing` carry the argument for all ways to fail and to go on.

For `BorrowedOpen` (`BorrowedStaysOpen`) it follows the handles instead
(`Borrowing`).  `OverlapIsWarm` is the heart: when two threads are in `Spawn`, no
cache is empty, so whoever fills one is alone and closes nothing another has
borrowed.  What the caches hold comes with it: `CachesFresh` (`CachesAreFresh`) and
`SpawnsAsAsked` (`SpawnedAsAsked`) from `Faithful`, which says of a thread at
each place of `Spawn` that what it has made or borrowed so far is what the policy
asks for now (`AsAsked`), and from `Limited`, which follows the limits of its job.
A setter that runs meanwhile would break it; none does (section 5).  `HandlesOwned`
(`HandlesAreOwned`) is inductive over `Borrowing`, one lemma for each kind of
handle.  `Types` proves `TypeOK`.

`SpawnIsOneStep` (`ImplementsSandbox`) puts these together (`SpawnInv`).
`AskedStays` shows that nothing a thread does changes what the policy asks for; it
needs `LogonIsUnset`, that a policy not made yet has no logon, or making the
default one would show.  `SeenElsewhere` and `SeenOwn` reduce what a client sees of
a step to the thread's own job, and `SeenStep` puts that in the form of Sandbox's
actions.  Then the steps are few: everything before the process is handed over
changes nothing that is seen (`SpawnUnseen`) and is the `Call`, a stutter, or a
`Fail`, as the thread enters, stays in or leaves `Spawn` (`SpawnQuiet`);
`HandOver` is Sandbox's `Spawn` with the limits that `Limited` says the job has
(`HandOverSpawns`); and a process that cannot be hardened dies with its job or is
what `Fail` may leave (`LateFailure`).

`PolicyObjectsProofs` proves, for any number of sessions, addresses and objects,
`LogonsTell` (`LogonObjectsTell`) and `PolicyCurrent` (`PolicyIsCurrent`).  The two
support each other: the policy's logon is current because no step changes a
`Logon` in place but to cache what is true (`CachedTells`), and a Python object
that takes the policy's logon tells the truth because the policy does.
`MeansOne` adds that an object without a `Logon` was given no session, `KeptAnswers`
that freeing unreferenced logons touches none that is referred to.  `Types` proves
`TypeOK`.  `NameIsWhole` (`NameIsWholeOrEmpty`) is about `GetFullName` itself:
whatever sizes the system asks for and whichever call fails, it leaves the whole
name or nothing.  `UpToNulOfTerminated` finds the first terminator of a buffer,
`AppendNames` what one part adds to the name.

`WincToolProofs` proves `WincCallbackLive` (`CallbackOnLiveObject`) and
`WincExitCode` (`ExitCodeTells`), for any bounds and with every fault.
`TargetEventsProofs` needs associations not to fail; here `AttachedIsKept`
weakens what an attached target promises by "or the tool is on its way out",
which is enough because `exit` destroys nothing.  `OneJob` says that no job
exists but the target's, so that the process whose code is asked for is the one
`CodeFollowsExit` speaks of.  `WincTypes` proves `WincTypeOK`.  `WincPrintsInOrder`
proves `PrintedInOrder`: until the destructor begins (`Before`), what was called
back was printed and the rest is coming (`Mine`, with `Follows` of
`TargetEventsProofs`); after that nothing is printed, and what was remains how the
story of the job begins (`Begins`), since stories only grow.  The tool destroys a
listening target, so it is no careful client, and `Reach` is of no use here.

`CommandLineProofs` proves `ArgumentsIntact` (`ArgumentsArrive`), the induction
`command_line` cannot make: for arguments of any length and any number of them.  It
is about a function of a sequence, so the work is in the lemmas:

- `After` and the library's `FlattenSeq` are functions defined by recursion.  That
  such a function exists is an induction of its own (`PlacesExist`, `JoinsExist`);
  then `AfterAppend` and `FlattenAppend` say what one element more does.
- `Reads` says what the reader's state means: the open argument is `p` so far, its
  last backslashes perhaps still held back.  `ReadChar`, `ReadSlash` and
  `ReadEscapedQuote` keep it, for one character of an argument each;
  the third is where a backslash of the argument's own in front of a mark would
  spoil the count, hence `Fragile`.  `ReadText` is the induction over the argument.
- `ReadArgument` adds the quotation marks around it, `ReadProgram` is its like for
  the name (`Names`), `BlankEnds` the blank after it.
- `ReadBeginning` is the induction over the arguments.  `ReadNameFirst` is the one
  for the first half of the property: whatever the arguments are, fragile ones
  too, no character read later changes the name (`KeepsName`).

The invariant, `Assembled`, only says that the line is what `Build` makes of the
arguments.

The assumptions of all proofs are the named `ASSUME`s of the modules: the null
values are no objects, a bound is a positive number, a set of faults is one, and
a Python program has finitely many threads and target addresses.

Only model-checked: liveness (`EveryCallReturns`, `ExitAllDelivered`,
`DestructionEnds`, `CallsEnd`, `TargetsReleased`, `WincEnds`), which the prover
does not reach.  Every other property that a passing run checks is proved.

## 5. What is not modelled

- **Getters of `Target`, error codes.**  They change no state of the library.  A failure is modelled by where it returns, not by its code.
- **Failures before the first shared step** of `Start(true)` change nothing that
  lasts, and are a stutter.
- **The ignored result of `Sid::Init`** where a cached SID is copied
  (`core/logon.cc:58`, `:75`): it copies into a buffer that holds the longest
  SID there is, and does not fail.
- **UI limits, processor affinity, the amounts of limits.**  They are copied
  along the path the basic limits take; the model keeps whether the policy's
  and the options' limits are there.  A limit more for every job more than triples
  the container's states and puts the run out of reach.
- **The text of SIDs, ACLs and privileges.**  A token is the set of SIDs that
  restrict it.
- **Standard handles and the attribute list** (`core/util.cc`): a buffer local
  to one call of `Spawn`, one more way to fail before `CreateProcess`.
- **A policy changed during a spawn.**  The binding releases the GIL for `Spawn`,
  and other threads could call setters or spawn on cold caches.  Nothing is
  synchronised and nothing says that it may be done; the models leave it out.
- **`repr` and `str` of SIDs, module initialisation, exceptions** of the binding.
- **Verbose output, the policy options** of the command line tool: each option
  calls one setter of the policy, before anything runs.
- **Tests and payloads** are read for the discipline of clients.
- **Memory model.**  `g_shared` and `thread_created` are read without a lock.
  `thread_created` is `volatile`, which the supported compiler gives acquire and
  release semantics; the plain read of `g_shared` is ordered by the data
  dependency through the pointer.  The models are sequentially consistent.

## 6. Plan

In this order; the most important behaviour first.

1. Done: `SharedResource` with `CompletionService`, `TargetEvents` with
   `EventStream`, `Policy` and `Container` with `Sandbox`, `PolicyObjects`, `PyBinding`,
   `WincTool` and `CommandLine`; the proofs of section 4.
2. The policy without its client's discipline: two spawns on cold caches, setters
   during a spawn; what breaks first, and what a lock would have to cover.
3. A proof that the library's parts meet: `Container` with `Target::Assign` as the
   environment `TargetEvents` supposes.
