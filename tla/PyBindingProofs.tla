-------------------------- MODULE PyBindingProofs --------------------------
(***************************************************************************)
(* Theorems of PyBinding, for any number of threads, targets, containers   *)
(* and jobs: the binding makes no step that the library does not offer its *)
(* clients, and so inherits what is proved of the library.                 *)
(***************************************************************************)
EXTENDS PyBinding, TargetEventsProofs, FiniteSetTheorems

(* A thread inside a method has a target. *)
CallHasTarget ==
  /\ pc \in [Threads -> Locations]
  /\ self \in [Threads -> Targets \cup {NoTarget}]
  /\ \A th \in Threads : pc[th] # "python" => self[th] \in Targets

(* At first no thread is inside a method.                                    *)
LEMMA CallHasTargetInit == PyInit => CallHasTarget
  BY DEF PyInit, CallHasTarget, Locations

(* A method is entered with a target, which is forgotten on return only.     *)
LEMMA CallHasTargetStep == CallHasTarget /\ [PyNext]_all_vars => CallHasTarget'
<1> SUFFICES ASSUME CallHasTarget, [PyNext]_all_vars PROVE CallHasTarget'
  OBVIOUS
<1> USE DEF CallHasTarget, Locations, At, ReturnDropping
<1>1. CASE UNCHANGED <<pc, self>>
  BY <1>1
<1>2. ASSUME NEW th \in Threads, Program(th) PROVE CallHasTarget'
  BY <1>2 DEF Program, NewTarget, DropTarget, StartBegin, WaitBegin, Terminate,
              SpawnBegin, NewContainer, DropContainer, calls, py_vars
<1>3. ASSUME NEW th \in Threads, InCall(th) PROVE CallHasTarget'
  BY <1>3 DEF InCall, Destroy, Reclaim, SpawnLibrary, SpawnEnd, SpawnRefused,
              StartLibrary, StartEnd, WaitEnd, WaitReturns
<1>4. ASSUME NEW th \in Threads, WaitReturns(th) PROVE CallHasTarget'
  BY <1>4 DEF WaitReturns
<1>5. CASE \E t \in Targets : Terminate(Dispatcher, t)
  BY <1>1, <1>5 DEF Terminate, py_vars, calls
<1>6. CASE PyMessageThread
  BY <1>1, <1>6 DEF PyMessageThread, PyDispatch, EnsureGil, CallbackReturns,
                    OnExitAll, ReclaimInside, py_unchanged, py_vars, calls
<1> QED
  BY <1>1, <1>2, <1>3, <1>4, <1>5, <1>6 DEF PyNext, PyAtRest, all_vars, py_vars, calls

-----------------------------------------------------------------------------
(* A step of a Python thread, or of the message thread under it, is a step *)
(* of the library or changes nothing in it.                                *)
LEMMA BindingStep == CallHasTarget /\ [PyNext]_all_vars => [Next]_vars
<1> SUFFICES ASSUME CallHasTarget, [PyNext]_all_vars PROVE [Next]_vars
  OBVIOUS
<1>1. ASSUME NEW t \in Targets, Client(t) PROVE [Next]_vars
  BY <1>1 DEF Next
<1>2. ASSUME NEW th \in Threads, Program(th) PROVE [Next]_vars
  BY <1>1, <1>2 DEF Program, NewTarget, NewObject, DropTarget, StartBegin,
     WaitBegin, Terminate, SpawnBegin, NewContainer, DropContainer, Client
<1>3. ASSUME NEW th \in Threads, InCall(th) PROVE [Next]_vars
  <2>1. CASE SpawnEnd(th) \/ SpawnRefused(th) \/ StartEnd(th) \/ WaitEnd(th) \/ Reclaim(th)
    BY <2>1 DEF SpawnEnd, SpawnRefused, StartEnd, WaitEnd, WaitReturns, Reclaim
  <2>2. CASE Destroy(th) \/ SpawnLibrary(th) \/ StartLibrary(th)
    <3>1. self[th] \in Targets
      BY <2>2 DEF Destroy, SpawnLibrary, StartLibrary, CallHasTarget
    <3>2. Client(self[th]) \/ UNCHANGED vars
      BY <2>2 DEF Destroy, SpawnLibrary, StartLibrary, Client
    <3> QED BY <1>1, <3>1, <3>2
  <2> QED BY <1>3, <2>1, <2>2 DEF InCall
<1>4. CASE \E t \in Targets : Terminate(Dispatcher, t)
  BY <1>1, <1>4 DEF Terminate, Client
<1>5. CASE PyMessageThread
  BY <1>5 DEF PyMessageThread, PyDispatch, EnsureGil, CallbackReturns, OnExitAll,
              ReclaimInside, MessageThread, Next
<1>6. CASE \E j \in Jobs : System(j) /\ UNCHANGED py_vars
  BY <1>6 DEF Next
<1> QED
  BY <1>2, <1>3, <1>4, <1>5, <1>6 DEF PyNext, PyAtRest, all_vars, WaitReturns

(* What Python programs make of the library is a behaviour of it, the one  *)
(* in which OnExitAll destroys its own target included.                    *)
THEOREM UsesTheLibrary == PySpec => Init /\ [][Next]_vars
<1>1. PyInit => Init
  BY DEF PyInit
<1> QED BY <1>1, CallHasTargetInit, CallHasTargetStep, BindingStep, PTL DEF PySpec

(* Hence no callback reaches freed memory under Python either, while        *)
(* associations succeed and whatever else fails, ResumeThread included.     *)
THEOREM PythonCallbackLive ==
  "associate" \notin Faults => (PySpec => []CallbackOnLiveObject)
<1> SUFFICES ASSUME "associate" \notin Faults
             PROVE  PySpec => []CallbackOnLiveObject
  OBVIOUS
<1>1. Inv => CallbackOnLiveObject
  BY DEF Inv, AttachedWillErase, CalledIsAttached, CallbackOnLiveObject
<1>2. Inv /\ [Next]_vars => Inv'
  BY InvStep
<1> QED BY <1>1, <1>2, InvInit, UsesTheLibrary, PTL

-----------------------------------------------------------------------------
(***************************************************************************)
(* References and what they keep, while ResumeThread does not fail and no  *)
(* two threads spawn into one target (the findings show what they would do) *)
(***************************************************************************)
One(b) == IF b THEN 1 ELSE 0

PyShape ==
  /\ object \in [Targets -> {"none", "object", "dealloc"}]
  /\ refcnt \in [Targets -> Int]
  /\ names \in SUBSET Targets
  /\ container_object \in [Targets -> Containers \cup {NoContainer}]
  /\ pc \in [Threads -> Locations]
  /\ self \in [Threads -> Targets \cup {NoTarget}]
  /\ via \in [Threads -> Containers \cup {NoContainer}]
  /\ py_mt \in {"none", "ensure", "method", "dealloc"}

(* Where a thread is in a method says where its target is in the library. *)
Place(th) ==
  LET t == self[th] IN
  /\ pc[th] = "python" <=> t = NoTarget
  /\ pc[th] \in {"spawn", "spawned", "refused"} <=> via[th] # NoContainer
  /\ pc[th] \in {"spawn", "refused"} => job[t] = NoJob
  /\ pc[th] \in {"spawn", "spawned", "refused"} => container_object[t] = NoContainer
  /\ pc[th] \in {"spawn", "spawned", "refused", "attach", "started", "failed", "wait"} =>
       step[t] = "idle"
  /\ pc[th] \in {"attach", "start"} => job[t] # NoJob
  /\ pc[th] = "start" => step[t] \in {"associate", "resume"}
  /\ pc[th] = "dealloc" =>
       /\ object[t] = "dealloc" /\ life[t] # "free"
       /\ step[t] \in {"idle", "deassociate", "close"}
  /\ pc[th] = "reclaim" => object[t] = "dealloc" /\ life[t] = "free"

Places == \A th \in Threads : Place(th)

(* No two threads work on one target. *)
OneCall ==
  \A th, u \in Threads : self[th] = self[u] /\ self[th] # NoTarget => th = u

(* The library works on no target but for a thread. *)
Busy(t) ==
  step[t] # "idle" => \E th \in Threads : self[th] = t /\ pc[th] \in {"start", "dealloc"}

(* The object goes with its last reference, the target before the object. *)
ObjectOf(t) ==
  /\ object[t] = "object" <=> refcnt[t] # 0
  /\ object[t] = "object" => life[t] = "live"
  /\ object[t] = "none" => life[t] = "free" /\ container_object[t] = NoContainer

(* A target that has a job has been spawned into, or is about to show it. *)
HasContainer(t) ==
  life[t] # "free" /\ job[t] # NoJob =>
    \/ container_object[t] # NoContainer
    \/ \E th \in Threads : self[th] = t /\ pc[th] = "spawned"

(* What was resumed was associated before, so that no second Start gets as *)
(* far as ResumeThread.                                                    *)
Resumed(t) ==
  life[t] # "free" /\ job[t] # NoJob =>
    /\ has_thread[t] \/ port_key[job[t]] # NoTarget
    /\ step[t] = "resume" => has_thread[t] /\ port_key[job[t]] # NoTarget

(* The references of a target: a name, a call, and the dispatcher's. *)
Called(t) == \E th \in Threads : self[th] = t /\ pc[th] \notin {"dealloc", "reclaim"}

Counted(t) ==
  refcnt[t] = One(t \in names) + One(Called(t)) + One(InFlight(t)) + One(Reporting(t))

Sound(t) == Busy(t) /\ ObjectOf(t) /\ HasContainer(t) /\ Resumed(t) /\ Counted(t)

(* The callback that runs is told, and is the last one if it is OnExitAll. *)
Calling ==
  /\ mt = "callback" <=> py_mt # "none"
  /\ gil = IF py_mt = "method" THEN Dispatcher ELSE NoThread
  /\ mt = "callback" => Entry.notice \in ToSet(delivered[Entry.job])
  /\ mt = "callback" /\ SawExitAll(Entry.job) => Entry.notice.kind = "zero"
  /\ py_mt = "dealloc" =>
       /\ object[Entry.key] = "dealloc" /\ Entry.notice.kind = "zero"
       /\ \A th \in Threads : self[th] # Entry.key

PyInv == PyShape /\ Places /\ OneCall /\ Calling /\ \A t \in Targets : Sound(t)

(* Nobody is counted before there is anybody.                               *)
LEMMA PyInvInit == PyInit => PyInv
<1> SUFFICES ASSUME PyInit PROVE PyInv
  OBVIOUS
<1>1. /\ \A t \in Targets : /\ object[t] = "none" /\ refcnt[t] = 0 /\ life[t] = "free"
                            /\ container_object[t] = NoContainer /\ step[t] = "idle"
      /\ names = {} /\ py_mt = "none" /\ mt = "next" /\ gil = NoThread
      /\ \A th \in Threads : pc[th] = "python" /\ self[th] = NoTarget /\ via[th] = NoContainer
  BY DEF PyInit, Init, KernelInit
<1>2. PyShape
  BY DEF PyInit, PyShape, Locations
<1>3. Places /\ OneCall /\ Calling
  BY <1>1, KernelAssumption DEF Places, Place, OneCall, Calling
<1>4. ASSUME NEW t \in Targets PROVE Sound(t)
  <2>1. ~Called(t) /\ ~InFlight(t) /\ ~Reporting(t) /\ t \notin names
    BY <1>1, KernelAssumption DEF Called, InFlight, Reporting
  <2> QED BY <1>1, <2>1 DEF Sound, Busy, ObjectOf, HasContainer, Resumed, Counted, One
<1> QED BY <1>2, <1>3, <1>4 DEF PyInv

(* What is known of the library meanwhile.                                  *)
LEMMA LibraryShape ==
  ASSUME Delivery
  PROVE  /\ Shape /\ StepFollowsLife /\ JobsAreOwned
         /\ has_thread \in [Targets -> BOOLEAN]
         /\ mt \in {"next", "callback"} /\ (mt = "callback" => batch # <<>>)
         /\ DOMAIN delivered = Jobs
  BY DEF Delivery, Owners, Base, TypeOK, KernelTypeOK, Shape

(* What the message thread has in hand is for a target that is there.       *)
LEMMA EntryFinds ==
  ASSUME Delivery, batch # <<>>
  PROVE  /\ Entry.key \in Targets /\ Entry.job \in Jobs /\ life[Entry.key] # "free"
         /\ job[Entry.key] = Entry.job /\ port_key[Entry.job] = Entry.key
         /\ Entry.key \in attached
<1>1. TypeOK
  BY DEF Delivery, Base
<1>2. batch = <<Entry>> \o Tail(batch) /\ batch \in Seq(Packet) /\ Len(batch) # 0
  BY <1>1, TailType DEF TypeOK
<1>3. Entry \in ToSet(batch)
  BY <1>2 DEF Entry, ToSet
<1> QED BY <1>3, FindsAttached DEF OnItsWay

(* Nothing is called back for a job after its OnExitAll.                    *)
LEMMA NothingAfterExitAll ==
  ASSUME Delivery, mt = "next", batch # <<>>
  PROVE  ~SawExitAll(Entry.job)
<1>1. TypeOK /\ Entry.job \in Jobs
  BY EntryFinds DEF Delivery, Base
<1>2. batch = <<Entry>> \o Tail(batch) /\ batch \in Seq(Packet) /\ Len(batch) # 0
  BY <1>1, TailType DEF TypeOK
<1>3. Entry \in ToSet(batch)
  BY <1>2 DEF Entry, ToSet
<1>4. Entry \in ToSet(Undelivered)
  BY <1>1, <1>3, OnItsWayUndelivered DEF OnItsWay
<1>5. Coming(Entry.job) # <<>>
  BY <1>1, <1>4, ComingSome
<1> QED BY <1>1, <1>5, SawAll

(* A target whose port is not associated yet was told nothing.              *)
LEMMA NothingBeforeStart ==
  ASSUME Delivery, NEW t \in Targets, life[t] # "free", NEW j \in Jobs, job[t] = j,
         port_key[j] = NoTarget
  PROVE  ~SawExitAll(j)
<1>1. posted[j] = <<>>
  BY DEF Delivery, KernelTells, Tells
<1>2. PICK done \in Seq(Notice) :
        posted[j] = done \o Coming(j) /\ delivered[j] = Only(done, Heard)
  BY DEF Delivery, Follows
<1>3. Coming(j) \in Seq(Notice)
  BY ComingType DEF Delivery, Base
<1>4. done = <<>>
  BY <1>1, <1>2, <1>3
<1>5. delivered[j] = <<>>
  BY <1>2, <1>4, OnlyEmpty
<1> QED BY <1>5 DEF SawExitAll, ToSet

(***************************************************************************)
(* A step of a thread on a target leaves the others as they are            *)
(***************************************************************************)
TargetKept(t) ==
  /\ object'[t] = object[t] /\ refcnt'[t] = refcnt[t] /\ (t \in names' <=> t \in names)
  /\ container_object'[t] = container_object[t]
  /\ life'[t] = life[t] /\ step'[t] = step[t] /\ job'[t] = job[t]
  /\ has_thread'[t] = has_thread[t]
  /\ life[t] # "free" /\ job[t] # NoJob => port_key'[job[t]] = port_key[job[t]]

ThreadKept(th) == pc'[th] = pc[th] /\ self'[th] = self[th] /\ via'[th] = via[th]

WorksOn(th, t) ==
  /\ \A u \in Targets \ {t} : TargetKept(u)
  /\ \A u \in Threads \ {th} : ThreadKept(u)
  /\ self[th] \in {t, NoTarget} /\ self'[th] \in {t, NoTarget}
  /\ self'[th] = t => self[th] = t \/ Alone(th, t)
  /\ UNCHANGED <<gil, mt, batch, delivered, py_mt>>

(* Whether the dispatcher has a reference.                                  *)
LEMMA ReportingKept ==
  ASSUME NEW t \in Targets, life'[t] = "free" <=> life[t] = "free", job'[t] = job[t],
         life[t] # "free" /\ job[t] # NoJob => port_key'[job[t]] = port_key[job[t]],
         UNCHANGED <<delivered, batch, py_mt>>
  PROVE  Reporting(t)' <=> Reporting(t)
  BY DEF Reporting, SawExitAll, Entry

(* A step of one thread on one target leaves the rest of PyInv as it is.     *)
LEMMA Frame ==
  ASSUME Delivery, PyInv, PyShape', NEW th \in Threads, NEW t \in Targets, WorksOn(th, t),
         Place(th)', \A u \in Threads \ {th} : self[u] = t => Place(u)', Sound(t)',
         py_mt = "dealloc" => Entry.key # t
  PROVE  PyInv'
<1> USE DEF PyInv, WorksOn
<1>0. NoTarget \notin Targets
  BY KernelAssumption
<1>1. Places'
  <2> SUFFICES ASSUME NEW u \in Threads \ {th}, self[u] # t PROVE Place(u)'
    BY DEF Places
  <2>1. Place(u) /\ ThreadKept(u) /\ self[u] \in Targets \cup {NoTarget}
    BY DEF Places, PyShape
  <2>2. CASE self[u] = NoTarget
    BY <2>1, <2>2 DEF Place, ThreadKept
  <2>3. CASE self[u] # NoTarget
    <3>1. TargetKept(self[u])
      BY <2>1, <2>3
    <3> QED BY <2>1, <2>3, <3>1 DEF Place, ThreadKept, TargetKept
  <2> QED BY <2>2, <2>3
<1>2. OneCall'
  <2> SUFFICES ASSUME NEW u \in Threads, NEW v \in Threads,
                      self'[u] = self'[v], self'[u] # NoTarget, u # v
               PROVE  FALSE
    BY DEF OneCall
  <2>1. \A x \in Threads \ {th} : self'[x] = self[x]
    BY DEF ThreadKept
  <2> QED BY <2>1 DEF OneCall, Alone
<1>3. Calling'
  <2>1. Entry' = Entry /\ (mt = "callback" => Entry.key \in Targets)
    BY EntryFinds, LibraryShape DEF Entry
  <2>2. PICK k : k = Entry.key
    OBVIOUS
  <2>3. SawExitAll(Entry.job)' <=> SawExitAll(Entry.job)
    BY <2>1 DEF SawExitAll
  <2>4. ASSUME py_mt = "dealloc"
        PROVE  object'[k] = "dealloc" /\ \A x \in Threads : self'[x] # k
    <3>1. k \in Targets /\ k # t /\ object[k] = "dealloc" /\ \A x \in Threads : self[x] # k
      BY <2>1, <2>2, <2>4 DEF Calling
    <3> QED BY <1>0, <3>1 DEF ThreadKept, TargetKept
  <2> QED BY <2>1, <2>2, <2>3, <2>4 DEF Calling
<1>4. ASSUME NEW u \in Targets \ {t} PROVE Sound(u)'
  <2>1. TargetKept(u) /\ Sound(u)
    OBVIOUS
  <2>2. \A x \in Threads : self[x] = u \/ self'[x] = u => ThreadKept(x) /\ x # th
    BY <1>0 DEF ThreadKept
  <2>3. Busy(u)' /\ ObjectOf(u)' /\ HasContainer(u)' /\ Resumed(u)'
    BY <2>1, <2>2 DEF Sound, Busy, ObjectOf, HasContainer, Resumed, TargetKept, ThreadKept
  <2>4. Called(u)' <=> Called(u)
    BY <2>2 DEF Called, ThreadKept
  <2>5. InFlight(u)' <=> InFlight(u)
    BY <2>1, <2>2 DEF InFlight, ThreadKept, TargetKept
  <2>6. Reporting(u)' <=> Reporting(u)
    BY <2>1, ReportingKept DEF TargetKept
  <2>7. Counted(u)'
    BY <2>1, <2>4, <2>5, <2>6 DEF Sound, Counted, One, TargetKept
  <2> QED BY <2>3, <2>7 DEF Sound
<1> QED BY <1>1, <1>2, <1>3, <1>4

(* An object is there while anybody refers to it, ...                        *)
LEMMA Held ==
  ASSUME PyInv, NEW t \in Targets, t \in names \/ Called(t) \/ InFlight(t) \/ Reporting(t)
  PROVE  /\ refcnt[t] # 0 /\ object[t] = "object" /\ life[t] = "live"
         /\ \A th \in Threads : self[th] = t => pc[th] \notin {"dealloc", "reclaim"}
<1>1. refcnt[t] # 0
  BY DEF PyInv, Sound, Counted, One
<1>2. object[t] = "object" /\ life[t] = "live"
  BY <1>1 DEF PyInv, Sound, ObjectOf
<1> QED BY <1>1, <1>2 DEF PyInv, Places, Place

(* ... and nobody does when its count is zero.                               *)
LEMMA Unheld ==
  ASSUME PyInv, NEW t \in Targets, object[t] # "object"
  PROVE  refcnt[t] = 0 /\ t \notin names /\ ~Called(t) /\ ~InFlight(t) /\ ~Reporting(t)
<1>1. refcnt[t] = 0
  BY DEF PyInv, Sound, ObjectOf
<1> QED BY <1>1, Held

(* Nobody works on a target that has no object.                              *)
LEMMA Untouched ==
  ASSUME PyInv, NEW t \in Targets, object[t] = "none"
  PROVE  step[t] = "idle" /\ \A th \in Threads : self[th] # t
<1>1. \A th \in Threads : self[th] # t
  BY Unheld DEF PyInv, Places, Place, Called
<1> QED BY <1>1 DEF PyInv, Sound, Busy

(* Values stay within bounds.                                                *)
LEMMA PyShapeStep == PyInv /\ [PyNext]_all_vars => PyShape'
<1> SUFFICES ASSUME PyShape, CallHasTarget, [PyNext]_all_vars PROVE PyShape'
  <2>1. PyInv => CallHasTarget
    BY DEF PyInv, PyShape, Places, Place, CallHasTarget
  <2> QED BY <2>1 DEF PyInv
<1> USE DEF PyShape, Locations, At, py_vars, target_objects, calls
<1>1. ASSUME NEW th \in Threads, Program(th) PROVE PyShape'
  <2>1. ASSUME NEW t \in Targets, NewObject(t) PROVE object' \in [Targets -> {"none", "object", "dealloc"}]
          /\ refcnt' \in [Targets -> Int]
          /\ container_object' \in [Targets -> Containers \cup {NoContainer}]
    BY <2>1 DEF NewObject
  <2>2. ASSUME NEW t \in Targets, NewTarget(th, t) PROVE PyShape'
    BY <2>1, <2>2 DEF NewTarget
  <2>3. ASSUME NEW t \in Targets, DropTarget(th, t) PROVE PyShape'
    BY <2>3 DEF DropTarget, ReturnDropping
  <2>4. ASSUME NEW t \in Targets, StartBegin(th, t) \/ WaitBegin(th, t) \/ Terminate(th, t)
        PROVE  PyShape'
    BY <2>4 DEF StartBegin, WaitBegin, Terminate, CallAndDispatcher
  <2>5. ASSUME NEW t \in Targets, NEW c \in Containers, SpawnBegin(th, c, t) PROVE PyShape'
    <3>1. object' \in [Targets -> {"none", "object", "dealloc"}]
          /\ refcnt' \in [Targets -> Int]
          /\ container_object' \in [Targets -> Containers \cup {NoContainer}]
      BY <2>1, <2>5 DEF SpawnBegin
    <3> QED BY <2>5, <3>1 DEF SpawnBegin
  <2>6. ASSUME NEW c \in Containers, NewContainer(th, c) \/ DropContainer(th, c) PROVE PyShape'
    BY <2>6 DEF NewContainer, DropContainer
  <2> QED BY <1>1, <2>2, <2>3, <2>4, <2>5, <2>6 DEF Program
<1>2. ASSUME NEW th \in Threads, InCall(th) \/ WaitReturns(th) PROVE PyShape'
  <2>1. CASE Destroy(th) \/ Reclaim(th) \/ SpawnLibrary(th) \/ StartLibrary(th)
    BY <2>1 DEF Destroy, Reclaim, Reclaimed, SpawnLibrary, StartLibrary
  <2>2. ASSUME NEW k \in Int, NEW t \in Targets, ReturnDropping(th, t, k), py_mt' = py_mt,
               names' \in SUBSET Targets,
               container_object' \in [Targets -> Containers \cup {NoContainer}]
        PROVE  PyShape'
    BY <2>2 DEF ReturnDropping
  <2>3. CASE SpawnEnd(th)
    <3>1. self[th] \in Targets
      BY <2>3 DEF SpawnEnd, CallHasTarget
    <3>2. PICK k \in Int : ReturnDropping(th, self[th], k)
      BY <2>3 DEF SpawnEnd
    <3>3. /\ py_mt' = py_mt /\ names' \in SUBSET Targets
          /\ container_object' \in [Targets -> Containers \cup {NoContainer}]
      BY <2>3, <3>1 DEF SpawnEnd
    <3> QED BY <2>2, <3>1, <3>2, <3>3
  <2>4. CASE SpawnRefused(th) \/ StartEnd(th) \/ WaitReturns(th)
    <3>1. /\ self[th] \in Targets /\ UNCHANGED <<names, container_object, py_mt>>
          /\ \E k \in Int : ReturnDropping(th, self[th], k)
      BY <2>4 DEF SpawnRefused, StartEnd, WaitReturns, CallHasTarget, TakenBack
    <3> QED BY <2>2, <3>1
  <2> QED BY <1>2, <2>1, <2>3, <2>4 DEF InCall, WaitEnd
<1>3. CASE PyMessageThread \/ \E t \in Targets : Terminate(Dispatcher, t)
  BY <1>3 DEF PyMessageThread, PyDispatch, EnsureGil, CallbackReturns, OnExitAll, ReclaimInside,
              Reclaimed, DispatcherReleased, py_unchanged, Terminate
<1> QED BY <1>1, <1>2, <1>3 DEF PyNext, PyAtRest, all_vars

(***************************************************************************)
(* What a thread does in the interpreter                                   *)
(***************************************************************************)
(* Steps that concern no reference to a target.                              *)
LEMMA PyInvKept ==
  ASSUME PyInv, UNCHANGED <<gil, target_objects, calls, py_mt, port_key, life, step, job,
                            has_thread, mt, batch, delivered>>
  PROVE  PyInv'
<1> USE DEF target_objects, calls
<1>1. PyShape' /\ OneCall'
  BY DEF PyInv, PyShape, OneCall
<1>2. Places'
  BY DEF PyInv, Places, Place
<1>3. Calling'
  BY DEF PyInv, Calling, Entry, SawExitAll
<1>4. ASSUME NEW t \in Targets PROVE Sound(t)'
  <2>1. (InFlight(t)' <=> InFlight(t)) /\ (Reporting(t)' <=> Reporting(t))
        /\ (Called(t)' <=> Called(t))
    BY DEF InFlight, Reporting, SawExitAll, Entry, Called
  <2>2. Counted(t)'
    BY <2>1 DEF PyInv, Sound, Counted, One
  <2>3. Busy(t)' /\ ObjectOf(t)' /\ HasContainer(t)' /\ Resumed(t)'
    BY DEF PyInv, Sound, Busy, ObjectOf, HasContainer, Resumed
  <2> QED BY <2>2, <2>3 DEF Sound
<1> QED BY <1>1, <1>2, <1>3, <1>4 DEF PyInv

(* A thread in the interpreter is in no method, and nobody has the GIL.      *)
LEMMA InPython ==
  ASSUME PyInv, NEW th \in Threads, pc[th] = "python"
  PROVE  self[th] = NoTarget /\ via[th] = NoContainer
  BY DEF PyInv, Places, Place

(* Taking the lock means that neither a thread nor a callback holds it.      *)
LEMMA GilIsFree ==
  ASSUME PyInv, NEW th \in Threads, TakeGil(th)
  PROVE  gil = NoThread /\ py_mt # "method"
  BY PythonAssumption DEF PyInv, Calling, TakeGil

(* A new object is referred to by nobody yet.                                *)
LEMMA NewObjectIs ==
  ASSUME Delivery, PyInv, NEW t \in Targets, NewObject(t)
  PROVE  /\ \A u \in Targets \ {t} :
              /\ object'[u] = object[u] /\ refcnt'[u] = refcnt[u]
              /\ container_object'[u] = container_object[u]
              /\ life'[u] = life[u] /\ step'[u] = step[u] /\ job'[u] = job[u]
              /\ has_thread'[u] = has_thread[u]
         /\ port_key' = port_key /\ UNCHANGED <<mt, batch, delivered>>
         /\ object'[t] = "object" /\ refcnt'[t] = 1 /\ container_object'[t] = NoContainer
         /\ life'[t] = "live" /\ step'[t] = "idle" /\ job'[t] = NoJob
         /\ t \notin names /\ \A th \in Threads : self[th] # t
         /\ (py_mt = "dealloc" => Entry.key # t)
<1>1. object[t] = "none" /\ step[t] = "idle" /\ t \notin names /\ \A th \in Threads : self[th] # t
  BY Untouched, Unheld DEF NewObject
<1>2. py_mt = "dealloc" => Entry.key # t
  BY <1>1 DEF PyInv, Calling
<1> QED BY <1>1, <1>2, LibraryShape DEF Shape, NewObject, Construct, kernel_vars, thread_vars, PyInv, PyShape

(* CreateTargetObject: the name is the one reference.                        *)
LEMMA NewTargetStep ==
  ASSUME Delivery, PyInv, PyShape', NEW th \in Threads, NEW t \in Targets, NewTarget(th, t)
  PROVE  PyInv'
<1>1. NewObject(t) /\ pc[th] = "python" /\ names' = names \cup {t}
      /\ UNCHANGED <<gil, pc, self, via, py_mt>>
  BY DEF NewTarget, calls
<1>2. self[th] = NoTarget /\ NoTarget \notin Targets
  BY <1>1, InPython, KernelAssumption
<1>3. WorksOn(th, t)
  BY <1>1, <1>2, NewObjectIs DEF WorksOn, TargetKept, ThreadKept
<1>4. Place(th)'
  BY <1>1, <1>2, InPython DEF Place
<1>5. Sound(t)'
  <2>1. ~Called(t)' /\ ~InFlight(t)' /\ ~Reporting(t)' /\ t \in names'
    BY <1>1, NewObjectIs DEF Called, InFlight, Reporting
  <2> QED BY <1>1, <2>1, NewObjectIs
          DEF Sound, Busy, ObjectOf, HasContainer, Resumed, Counted, One
<1> QED BY <1>1, <1>3, <1>4, <1>5, NewObjectIs, Frame

(* No other thread is on t.                                                  *)
LEMMA NobodyElse ==
  ASSUME PyInv, NEW th \in Threads, NEW t \in Targets, pc[th] = "python", Alone(th, t)
  PROVE  (\A u \in Threads : self[u] # t) /\ ~Called(t) /\ ~InFlight(t)
<1>1. \A u \in Threads : self[u] # t
  BY InPython, KernelAssumption DEF Alone
<1> QED BY <1>1 DEF Called, InFlight

(* A thread enters a method of a target, to which it has k more references.  *)
LEMMA Enters ==
  ASSUME Delivery, PyInv, PyShape', NEW th \in Threads, NEW t \in Targets,
         pc[th] = "python", t \in names, Alone(th, t), gil = NoThread, gil' = NoThread,
         NEW where \in {"spawn", "attach", "wait"}, At(th, where),
         self' = [self EXCEPT ![th] = t],
         refcnt' = [refcnt EXCEPT ![t] = @ + IF where = "attach" THEN 2 ELSE 1],
         UNCHANGED <<vars, object, names, container_object, py_mt>>,
         \A u \in Threads \ {th} : via'[u] = via[u],
         (via'[th] # NoContainer) <=> (where = "spawn"),
         IF where = "spawn" THEN NotInUse(t) ELSE job[t] # NoJob
  PROVE  PyInv'
<1> USE DEF vars, kernel_vars, object_vars, thread_vars
<1>0. NoTarget \notin Targets /\ self[th] = NoTarget /\ PyShape /\ Sound(t)
  BY InPython, KernelAssumption DEF PyInv
<1>1. (\A u \in Threads : self[u] # t) /\ ~Called(t) /\ ~InFlight(t)
  BY NobodyElse
<1>2. object[t] = "object" /\ refcnt[t] # 0 /\ life[t] = "live"
  BY Held
<1>3. step[t] = "idle"
  BY <1>0, <1>1 DEF Sound, Busy
<1>4. where = "spawn" => job[t] = NoJob
  BY <1>0, <1>1, <1>2 DEF Sound, HasContainer, NotInUse
<1>5. WorksOn(th, t)
  BY <1>0 DEF WorksOn, TargetKept, ThreadKept, PyShape, At
<1>6. Place(th)'
  BY <1>0, <1>3, <1>4 DEF Place, At, PyShape, NotInUse
<1>7. Sound(t)'
  <2>1. Called(t)' /\ (InFlight(t)' <=> where = "attach") /\ (Reporting(t)' <=> Reporting(t))
    <3>1. Reporting(t)' <=> Reporting(t)
      BY ReportingKept
    <3>2. Called(t)'
      BY <1>0 DEF Called, At, PyShape
    <3>3. InFlight(t)' <=> where = "attach"
      BY <1>0, <1>1, <1>3 DEF InFlight, At, PyShape
    <3> QED BY <3>1, <3>2, <3>3
  <2>2. Counted(t)'
    BY <1>0, <1>1, <2>1 DEF Sound, Counted, One, PyShape
  <2>3. Busy(t)' /\ ObjectOf(t)' /\ HasContainer(t)' /\ Resumed(t)'
    <3>1. refcnt'[t] # 0
      BY <2>1, <2>2, Held DEF Counted, One
    <3> QED BY <1>0, <1>1, <1>2, <1>3, <3>1 DEF Sound, Busy, ObjectOf, HasContainer, Resumed
  <2> QED BY <2>2, <2>3 DEF Sound
<1>8. py_mt = "dealloc" => Entry.key # t
  BY <1>2 DEF PyInv, Calling
<1> QED BY <1>1, <1>5, <1>6, <1>7, <1>8, Frame

(* StartTargetObject up to the release of the lock, target.cc:38-44.         *)
LEMMA StartBeginStep ==
  ASSUME Delivery, PyInv, PyShape', NEW th \in Threads, NEW t \in Targets, StartBegin(th, t)
  PROVE  PyInv'
<1>1. /\ pc[th] = "python" /\ t \in names /\ Alone(th, t) /\ job[t] # NoJob /\ At(th, "attach")
      /\ self' = [self EXCEPT ![th] = t] /\ refcnt' = [refcnt EXCEPT ![t] = @ + 2]
      /\ gil' = NoThread /\ TakeGil(th) /\ via' = via
      /\ UNCHANGED <<vars, object, names, container_object, py_mt>>
  BY DEF StartBegin, ReleasedBy, CallAndDispatcher
<1>2. via'[th] = NoContainer /\ gil = NoThread
  BY <1>1, InPython, GilIsFree
<1> QED BY <1>1, <1>2, Enters

(* WaitForProcessTargetObject up to there, target.cc:55-62.                  *)
LEMMA WaitBeginStep ==
  ASSUME Delivery, PyInv, PyShape', NEW th \in Threads, NEW t \in Targets, WaitBegin(th, t)
  PROVE  PyInv'
<1>1. /\ pc[th] = "python" /\ t \in names /\ Alone(th, t) /\ job[t] # NoJob /\ At(th, "wait")
      /\ self' = [self EXCEPT ![th] = t] /\ refcnt' = [refcnt EXCEPT ![t] = @ + 1]
      /\ gil' = NoThread /\ TakeGil(th) /\ via' = via
      /\ UNCHANGED <<vars, object, names, container_object, py_mt>>
  BY DEF WaitBegin, ReleasedBy
<1>2. via'[th] = NoContainer /\ gil = NoThread
  BY <1>1, InPython, GilIsFree
<1> QED BY <1>1, <1>2, Enters

(* SpawnContainerObject up to there, which refuses a used target.            *)
LEMMA SpawnBeginStep ==
  ASSUME ~SharedTargets, Delivery, PyInv, PyShape',
         NEW th \in Threads, NEW t \in Targets, NEW c \in Containers, SpawnBegin(th, c, t)
  PROVE  PyInv'
<1>1. /\ pc[th] = "python" /\ TakeGil(th) /\ At(th, "spawn")
      /\ self' = [self EXCEPT ![th] = t] /\ via' = [via EXCEPT ![th] = c]
      /\ gil' = NoThread /\ UNCHANGED <<names, py_mt>>
  BY DEF SpawnBegin, ReleasedBy
<1>2. gil = NoThread /\ PyShape /\ self[th] = NoTarget /\ NoTarget \notin Targets
  BY <1>1, InPython, GilIsFree, KernelAssumption DEF PyInv
<1>3. via'[th] # NoContainer /\ \A u \in Threads \ {th} : via'[u] = via[u]
  BY <1>1, <1>2, PythonAssumption DEF PyShape
<1>4. CASE NewObject(t)
  <2>1. WorksOn(th, t)
    BY <1>1, <1>2, <1>3, <1>4, NewObjectIs DEF WorksOn, TargetKept, ThreadKept, Alone, At, PyShape
  <2>2. Place(th)'
    BY <1>1, <1>2, <1>3, <1>4, NewObjectIs DEF Place, At, PyShape
  <2>3. Sound(t)'
    <3>1. Called(t)' /\ ~InFlight(t)' /\ ~Reporting(t)' /\ t \notin names'
      <4>1. Called(t)'
        BY <1>1, <1>2 DEF Called, At, PyShape
      <4>2. ~InFlight(t)'
        BY <1>1, <1>2, <1>4, NewObjectIs DEF InFlight, At, PyShape
      <4> QED BY <1>1, <1>4, <4>1, <4>2, NewObjectIs DEF Reporting
    <3> QED BY <1>4, <3>1, NewObjectIs
            DEF Sound, Busy, ObjectOf, HasContainer, Resumed, Counted, One
  <2> QED BY <1>4, <2>1, <2>2, <2>3, NewObjectIs, Frame
<1>5. CASE ~NewObject(t)
  <2>1. /\ t \in names /\ NotInUse(t) /\ Alone(th, t)
        /\ refcnt' = [refcnt EXCEPT ![t] = @ + 1]
        /\ UNCHANGED <<vars, object, container_object>>
    BY <1>5 DEF SpawnBegin
  <2> QED BY <1>1, <1>2, <1>3, <2>1, Enters
<1> QED BY <1>4, <1>5

(* The other steps that a thread makes in the interpreter concern neither    *)
(* a reference to a target nor what the binding knows of it.                 *)
LEMMA OtherStep ==
  ASSUME PyInv,
         \/ \E th \in Threads, c \in Containers : NewContainer(th, c) \/ DropContainer(th, c)
         \/ \E th \in Threads \cup {Dispatcher}, t \in Targets : Terminate(th, t)
         \/ \E j \in Jobs : System(j) /\ UNCHANGED py_vars
  PROVE  PyInv'
<1>1. UNCHANGED <<gil, target_objects, calls, py_mt, port_key, life, step, job,
                  has_thread, mt, batch, delivered>>
  <2> USE DEF vars, kernel_vars, object_vars, thread_vars, py_vars
  <2>1. CASE \E th \in Threads, c \in Containers : NewContainer(th, c) \/ DropContainer(th, c)
    BY <2>1 DEF NewContainer, DropContainer
  <2>2. CASE \E th \in Threads \cup {Dispatcher}, t \in Targets : Terminate(th, t)
    BY <2>2 DEF Terminate, TerminateJob
  <2>3. CASE \E j \in Jobs : System(j) /\ UNCHANGED py_vars
    BY <2>3 DEF System, Fork, HitLimit, Exit
  <2> QED BY <2>1, <2>2, <2>3
<1> QED BY <1>1, PyInvKept

(***************************************************************************)
(* What gives references back                                              *)
(***************************************************************************)
(* A method returns to the interpreter with k references fewer to its        *)
(* target: those of the call and, if Start failed, of the dispatcher.        *)
LEMMA Returns ==
  ASSUME Delivery, PyInv, PyShape', NEW th \in Threads, NEW t \in Targets, self[th] = t,
         pc[th] \in {"spawned", "refused", "started", "failed", "wait"}, TakeGil(th),
         NEW k \in Int, ReturnDropping(th, t, k),
         k = 1 + One(pc[th] = "failed") + One(t \in names) - One(t \in names'),
         UNCHANGED <<vars, py_mt>>,
         \A u \in Targets \ {t} :
           container_object'[u] = container_object[u] /\ (u \in names' <=> u \in names),
         IF pc[th] = "spawned" THEN container_object'[t] # NoContainer
         ELSE container_object'[t] = container_object[t]
  PROVE  PyInv'
<1> USE DEF vars, kernel_vars, object_vars, thread_vars
<1>0. NoTarget \notin Targets /\ PyShape /\ Place(th) /\ Sound(t) /\ gil = NoThread
  BY GilIsFree, KernelAssumption DEF PyInv, Places
<1>1. /\ object[t] = "object" /\ life[t] = "live" /\ step[t] = "idle"
      /\ \A u \in Threads \ {th} : self[u] # t
  <2>1. Called(t) /\ \A u \in Threads \ {th} : self[u] # t
    BY <1>0 DEF Called, PyInv, OneCall
  <2> QED BY <1>0, <2>1, Held DEF Place
<1>2. /\ gil' = NoThread /\ refcnt' = [refcnt EXCEPT ![t] = @ - k]
      /\ via' = [via EXCEPT ![th] = NoContainer]
      /\ IF refcnt[t] = k
         THEN /\ object' = [object EXCEPT ![t] = "dealloc"] /\ pc' = [pc EXCEPT ![th] = "dealloc"]
              /\ self' = [self EXCEPT ![th] = t]
         ELSE /\ object' = object /\ pc' = [pc EXCEPT ![th] = "python"]
              /\ self' = [self EXCEPT ![th] = NoTarget]
  BY DEF ReturnDropping, ReleasedBy, At
<1>3. WorksOn(th, t)
  <2>1. \A u \in Threads \ {th} : ThreadKept(u)
    BY <1>0, <1>2 DEF ThreadKept, PyShape
  <2>2. \A u \in Targets \ {t} : TargetKept(u)
    BY <1>0, <1>2 DEF TargetKept, PyShape
  <2>3. self'[th] \in {t, NoTarget}
    BY <1>0, <1>2 DEF PyShape
  <2> QED BY <1>0, <1>2, <2>1, <2>2, <2>3 DEF WorksOn
<1>4. Place(th)'
  BY <1>0, <1>1, <1>2 DEF Place, PyShape
<1>5. Sound(t)'
  <2>1. ~Called(t)' /\ ~InFlight(t)' /\ (Reporting(t)' <=> Reporting(t))
    <3>1. Reporting(t)' <=> Reporting(t)
      BY ReportingKept
    <3>2. \A u \in Threads \ {th} : self'[u] # t
      BY <1>1, <1>3 DEF WorksOn, ThreadKept
    <3>3. self'[th] = t => pc'[th] = "dealloc"
      BY <1>0, <1>2 DEF PyShape
    <3> QED BY <3>1, <3>2, <3>3 DEF Called, InFlight
  <2>2. Called(t) /\ (InFlight(t) <=> pc[th] = "failed")
    BY <1>0, <1>1 DEF Called, InFlight
  <2>3. refcnt'[t] = refcnt[t] - k
    BY <1>0, <1>2 DEF PyShape
  <2>4. Counted(t)'
    BY <1>0, <2>1, <2>2, <2>3 DEF Sound, Counted, One, PyShape
  <2>5. Busy(t)' /\ Resumed(t)'
    BY <1>0, <1>1 DEF Sound, Busy, Resumed
  <2>6. HasContainer(t)'
    BY <1>0, <1>1 DEF Sound, HasContainer
  <2>7. ObjectOf(t)'
    BY <1>0, <1>1, <1>2, <2>3 DEF Sound, ObjectOf, PyShape
  <2> QED BY <2>4, <2>5, <2>6, <2>7 DEF Sound
<1>6. py_mt = "dealloc" => Entry.key # t
  BY <1>1 DEF PyInv, Calling
<1> QED BY <1>1, <1>3, <1>4, <1>5, <1>6, Frame

(* A spawn that succeeded gives the target its container.                    *)
LEMMA SpawnEndStep ==
  ASSUME Delivery, PyInv, PyShape', NEW th \in Threads, SpawnEnd(th) PROVE PyInv'
<1>1. PICK t : t = self[th]
  OBVIOUS
<1>2. PICK k : k = IF t \in names THEN 1 ELSE 0
  OBVIOUS
<1>3. /\ pc[th] = "spawned" /\ TakeGil(th) /\ names' = names \cup {t}
      /\ container_object' = [container_object EXCEPT ![t] = via[th]]
      /\ ReturnDropping(th, t, k) /\ UNCHANGED <<vars, py_mt>>
  BY <1>1, <1>2 DEF SpawnEnd
<1>4. t \in Targets /\ via[th] # NoContainer /\ k \in Int
  BY <1>1, <1>2, <1>3 DEF PyInv, Places, Place, PyShape
<1>5. /\ container_object'[t] # NoContainer
      /\ \A u \in Targets \ {t} :
           container_object'[u] = container_object[u] /\ (u \in names' <=> u \in names)
      /\ k = 1 + One(pc[th] = "failed") + One(t \in names) - One(t \in names')
  BY <1>2, <1>3, <1>4 DEF PyInv, PyShape, One
<1> QED BY <1>1, <1>3, <1>4, <1>5, Returns

(* The other methods return and drop what they owned.                        *)
LEMMA ReturnStep ==
  ASSUME Delivery, PyInv, PyShape', NEW th \in Threads,
         SpawnRefused(th) \/ StartEnd(th) \/ WaitReturns(th)
  PROVE  PyInv'
<1>1. PICK k : k = IF pc[th] = "failed" THEN 2 ELSE 1
  OBVIOUS
<1>2. PICK t : t = self[th]
  OBVIOUS
<1>3. /\ pc[th] \in {"refused", "started", "failed", "wait"} /\ TakeGil(th)
      /\ ReturnDropping(th, t, k)
      /\ UNCHANGED <<vars, names, container_object, py_mt>>
  BY <1>1, <1>2 DEF SpawnRefused, StartEnd, WaitReturns, TakenBack
<1>4. t \in Targets /\ k \in Int
  BY <1>1, <1>2, <1>3 DEF PyInv, Places, Place, PyShape
<1>5. k = 1 + One(pc[th] = "failed") + One(t \in names) - One(t \in names')
  BY <1>1, <1>3 DEF One
<1> QED BY <1>2, <1>3, <1>4, <1>5, Returns

(* A variable is unbound; a method of the target may be under way elsewhere. *)
LEMMA DropTargetStep ==
  ASSUME Delivery, PyInv, PyShape', NEW th \in Threads, NEW t \in Targets, DropTarget(th, t)
  PROVE  PyInv'
<1> USE DEF vars, kernel_vars, object_vars, thread_vars
<1>0. /\ pc[th] = "python" /\ t \in names /\ TakeGil(th) /\ names' = names \ {t}
      /\ UNCHANGED <<vars, container_object, py_mt>>
      /\ gil' = NoThread /\ refcnt' = [refcnt EXCEPT ![t] = @ - 1]
      /\ via' = [via EXCEPT ![th] = NoContainer]
      /\ IF refcnt[t] = 1
         THEN /\ object' = [object EXCEPT ![t] = "dealloc"] /\ pc' = [pc EXCEPT ![th] = "dealloc"]
              /\ self' = [self EXCEPT ![th] = t]
         ELSE /\ object' = object /\ pc' = [pc EXCEPT ![th] = "python"]
              /\ self' = [self EXCEPT ![th] = NoTarget]
  BY DEF DropTarget, ReturnDropping, ReleasedBy, At
<1>1. /\ NoTarget \notin Targets /\ PyShape /\ Places /\ Sound(t) /\ gil = NoThread
      /\ self[th] = NoTarget /\ via[th] = NoContainer
  BY <1>0, InPython, GilIsFree, KernelAssumption DEF PyInv
<1>2. /\ object[t] = "object" /\ life[t] = "live"
      /\ \A u \in Threads : self[u] = t => pc[u] \notin {"dealloc", "reclaim"}
  BY <1>0, Held
<1>3. refcnt[t] = 1 => (\A u \in Threads : self[u] # t) /\ step[t] = "idle"
  <2> SUFFICES ASSUME refcnt[t] = 1 PROVE (\A u \in Threads : self[u] # t) /\ step[t] = "idle"
    OBVIOUS
  <2>1. ~Called(t)
    BY <1>0, <1>1 DEF Sound, Counted, One
  <2>2. \A u \in Threads : self[u] # t
    BY <1>2, <2>1 DEF Called
  <2> QED BY <1>1, <2>2 DEF Sound, Busy
<1>4. \A u \in Threads \ {th} : ThreadKept(u)
  BY <1>0, <1>1 DEF ThreadKept, PyShape
<1>5. WorksOn(th, t)
  <2>1. \A u \in Targets \ {t} : TargetKept(u)
    BY <1>0, <1>1 DEF TargetKept, PyShape
  <2>2. self'[th] \in {t, NoTarget} /\ (self'[th] = t => refcnt[t] = 1)
    BY <1>0, <1>1 DEF PyShape
  <2> QED BY <1>0, <1>1, <1>3, <1>4, <2>1, <2>2 DEF WorksOn, Alone
<1>6. Place(th)'
  BY <1>0, <1>1, <1>2, <1>3 DEF Place, PyShape
<1>7. ASSUME NEW u \in Threads \ {th}, self[u] = t PROVE Place(u)'
  <2>1. Place(u) /\ ThreadKept(u) /\ object' = object
    BY <1>0, <1>1, <1>3, <1>4, <1>7 DEF Places
  <2> QED BY <1>0, <2>1 DEF Place, ThreadKept
<1>8. Sound(t)'
  <2>1. /\ self'[th] = t => pc'[th] = "dealloc"
        /\ self'[th] # t => pc'[th] = "python"
    BY <1>0, <1>1 DEF PyShape
  <2>2. Reporting(t)' <=> Reporting(t)
    BY <1>0, ReportingKept
  <2>3. (Called(t)' <=> Called(t)) /\ (InFlight(t)' <=> InFlight(t))
    <3>1. Called(t)' <=> Called(t)
      BY <1>1, <1>4, <2>1 DEF Called, ThreadKept
    <3>2. InFlight(t)' <=> InFlight(t)
      BY <1>0, <1>1, <1>4, <2>1 DEF InFlight, ThreadKept
    <3> QED BY <3>1, <3>2
  <2>4. refcnt'[t] = refcnt[t] - 1 /\ t \notin names'
    BY <1>0, <1>1 DEF PyShape
  <2>5. Counted(t)'
    BY <1>0, <1>1, <2>2, <2>3, <2>4 DEF Sound, Counted, One, PyShape
  <2>6. Busy(t)' /\ HasContainer(t)' /\ Resumed(t)'
    BY <1>0, <1>1, <1>4, <2>1 DEF Sound, Busy, HasContainer, Resumed, ThreadKept
  <2>7. ObjectOf(t)'
    BY <1>0, <1>1, <1>2, <2>4 DEF Sound, ObjectOf, PyShape
  <2> QED BY <2>5, <2>6, <2>7 DEF Sound
<1>9. py_mt = "dealloc" => Entry.key # t
  BY <1>2 DEF PyInv, Calling
<1> QED BY <1>5, <1>6, <1>7, <1>8, <1>9, Frame

(***************************************************************************)
(* What a thread does in the library                                       *)
(***************************************************************************)
(* The thread is the only one on its target, which nobody else destroys.     *)
LEMMA OnItsOwn ==
  ASSUME PyInv, NEW th \in Threads, pc[th] # "python"
  PROVE  /\ self[th] \in Targets /\ Place(th) /\ Sound(self[th])
         /\ \A u \in Threads \ {th} : self[u] # self[th]
         /\ (py_mt = "dealloc" => Entry.key # self[th])
  BY DEF PyInv, Places, Place, PyShape, OneCall, Calling

(* Other targets keep their ports when the job of t is closed.               *)
LEMMA OthersPort ==
  ASSUME Delivery, NEW t \in Targets, life[t] # "free", CloseJob(t), NEW u \in Targets \ {t},
         life[u] # "free", job[u] # NoJob
  PROVE  port_key'[job[u]] = port_key[job[u]]
<1>1. job[t] # NoJob => job[u] # job[t]
  BY LibraryShape DEF JobsAreOwned
<1> QED BY <1>1, LibraryShape DEF CloseJob, Orphaned, Shape

(* ~TargetDirector on a thread, between taking no lock and taking it again.  *)
LEMMA DestroyStep ==
  ASSUME Delivery, PyInv, PyShape', NEW th \in Threads, Destroy(th) PROVE PyInv'
<1>0. PICK t : t = self[th]
  OBVIOUS
<1>1. /\ t \in Targets /\ Place(th) /\ Sound(t) /\ pc[th] = "dealloc"
      /\ \A u \in Threads \ {th} : self[u] # t
      /\ py_mt = "dealloc" => Entry.key # t
  BY <1>0, OnItsOwn DEF Destroy
<1>2. /\ object[t] = "dealloc" /\ refcnt[t] = 0 /\ t \notin names
      /\ ~Called(t) /\ ~InFlight(t) /\ ~Reporting(t) /\ life[t] # "free"
  BY <1>0, <1>1, Unheld DEF Place
<1>3. /\ UNCHANGED <<gil, object, refcnt, names, container_object, self, via, py_mt>>
      /\ pc'[th] \in {"dealloc", "reclaim"} /\ \A u \in Threads \ {th} : pc'[u] = pc[u]
  BY <1>1 DEF Destroy, At, target_objects, PyInv, PyShape
<1>4. /\ UNCHANGED <<mt, batch, delivered, job, has_thread>>
      /\ \A u \in Targets \ {t} : life'[u] = life[u] /\ step'[u] = step[u]
      /\ life'[t] # "live" /\ (life'[t] = "free" <=> pc'[th] = "reclaim")
      /\ IF life'[t] = "free" THEN step'[t] = "idle" ELSE step'[t] \in {"deassociate", "close"}
      /\ IF life'[t] = "free" THEN CloseJob(t) ELSE port_key' = port_key
  <2> USE DEF Goto, Shape, kernel_vars, thread_vars, At
  <2>1. CASE BeginDestroy(t) /\ pc' = pc
    BY <1>1, <2>1, LibraryShape DEF BeginDestroy
  <2>2. CASE Deassociate(t) /\ pc' = pc
    BY <1>1, <2>2, LibraryShape DEF Deassociate, StepFollowsLife
  <2>3. CASE Free(t) /\ At(th, "reclaim")
    BY <1>1, <2>3, LibraryShape DEF Free, PyInv, PyShape
  <2> QED BY <1>0, <2>1, <2>2, <2>3 DEF Destroy
<1>5. WorksOn(th, t)
  <2>1. \A u \in Targets \ {t} : life[u] # "free" /\ job[u] # NoJob => port_key'[job[u]] = port_key[job[u]]
    BY <1>1, <1>2, <1>4, OthersPort
  <2> QED BY <1>0, <1>1, <1>3, <1>4, <2>1 DEF WorksOn, TargetKept, ThreadKept
<1>6. Place(th)'
  BY <1>0, <1>1, <1>2, <1>3, <1>4 DEF Place
<1>7. Sound(t)'
  <2>1. ~Called(t)' /\ ~InFlight(t)'
    BY <1>0, <1>1, <1>3 DEF Called, InFlight
  <2>2. ~Reporting(t)'
    <3>1. CASE life'[t] = "free"
      BY <3>1 DEF Reporting
    <3>2. CASE life'[t] # "free"
      BY <1>1, <1>2, <1>3, <1>4, <3>2, ReportingKept
    <3> QED BY <3>1, <3>2
  <2>3. Busy(t)'
    BY <1>0, <1>1, <1>3, <1>4 DEF Busy
  <2>4. HasContainer(t)' /\ Resumed(t)'
    BY <1>0, <1>1, <1>2, <1>3, <1>4 DEF Sound, HasContainer, Resumed
  <2> QED BY <1>2, <1>3, <1>4, <2>1, <2>2, <2>3, <2>4 DEF Sound, ObjectOf, Counted, One
<1> QED BY <1>1, <1>5, <1>6, <1>7, Frame

(* The memory goes last: the address may be used again.                      *)
LEMMA ReclaimStep ==
  ASSUME Delivery, PyInv, PyShape', NEW th \in Threads, Reclaim(th) PROVE PyInv'
<1> USE DEF vars, kernel_vars, object_vars, thread_vars
<1>0. PICK t : t = self[th]
  OBVIOUS
<1>1. /\ t \in Targets /\ Place(th) /\ Sound(t) /\ pc[th] = "reclaim" /\ PyShape
      /\ \A u \in Threads \ {th} : self[u] # t
      /\ (py_mt = "dealloc" => Entry.key # t) /\ gil = NoThread
  BY <1>0, OnItsOwn, GilIsFree DEF Reclaim, PyInv
<1>2. /\ object[t] = "dealloc" /\ refcnt[t] = 0 /\ t \notin names /\ life[t] = "free"
      /\ ~Called(t) /\ ~InFlight(t) /\ ~Reporting(t)
  BY <1>0, <1>1, Unheld DEF Place
<1>3. step[t] = "idle" /\ via[th] = NoContainer /\ NoTarget \notin Targets
  BY <1>0, <1>1, KernelAssumption DEF Sound, Busy, Place
<1>4. /\ UNCHANGED <<vars, refcnt, names, via, py_mt>> /\ gil' = NoThread
      /\ object' = [object EXCEPT ![t] = "none"]
      /\ container_object' = [container_object EXCEPT ![t] = NoContainer]
      /\ pc' = [pc EXCEPT ![th] = "python"] /\ self' = [self EXCEPT ![th] = NoTarget]
  BY <1>0 DEF Reclaim, Reclaimed, At
<1>5. WorksOn(th, t)
  BY <1>0, <1>1, <1>4 DEF WorksOn, TargetKept, ThreadKept, PyShape
<1>6. Place(th)'
  BY <1>1, <1>3, <1>4 DEF Place, PyShape
<1>7. Sound(t)'
  <2>1. \A u \in Threads : self'[u] # t
    BY <1>1, <1>3, <1>4 DEF PyShape
  <2>2. ~Called(t)' /\ ~InFlight(t)' /\ ~Reporting(t)'
    BY <1>2, <1>4, <2>1 DEF Called, InFlight, Reporting
  <2>3. object'[t] = "none" /\ container_object'[t] = NoContainer
    BY <1>1, <1>4 DEF PyShape
  <2> QED BY <1>2, <1>3, <1>4, <2>2, <2>3
          DEF Sound, Busy, ObjectOf, HasContainer, Resumed, Counted, One
<1> QED BY <1>1, <1>5, <1>6, <1>7, Frame

(* A job that a fresh target gets has reported to nobody.                    *)
LEMMA SpawnLibraryStep ==
  ASSUME Delivery, PyInv, PyShape', NEW th \in Threads, SpawnLibrary(th) PROVE PyInv'
<1>0. PICK t : t = self[th]
  OBVIOUS
<1>1. /\ t \in Targets /\ Place(th) /\ Sound(t) /\ pc[th] = "spawn" /\ PyShape
      /\ \A u \in Threads \ {th} : self[u] # t
      /\ (py_mt = "dealloc" => Entry.key # t) /\ NoTarget \notin Targets
  BY <1>0, OnItsOwn, KernelAssumption DEF SpawnLibrary, PyInv
<1>2. job[t] = NoJob /\ step[t] = "idle" /\ container_object[t] = NoContainer /\ via[th] # NoContainer
  BY <1>0, <1>1 DEF Place
<1>3. /\ UNCHANGED <<gil, object, refcnt, names, container_object, self, via, py_mt>>
      /\ pc'[th] \in {"spawned", "refused"} /\ \A u \in Threads \ {th} : pc'[u] = pc[u]
  BY <1>1 DEF SpawnLibrary, At, target_objects, PyShape
<1>4. Called(t) /\ Called(t)' /\ ~InFlight(t) /\ ~InFlight(t)' /\ ~Reporting(t)
  BY <1>0, <1>1, <1>2, <1>3 DEF Called, InFlight, Reporting
<1>5. CASE Assign(t) /\ pc'[th] = "spawned"
  <2>1. PICK j \in Jobs :
          /\ mode[j] = "unborn" /\ job' = [job EXCEPT ![t] = j] /\ port_key' = port_key
          /\ has_thread' = [has_thread EXCEPT ![t] = TRUE]
          /\ UNCHANGED <<life, step, mt, batch, delivered>>
    BY <1>2, <1>5 DEF Assign, CreateSuspended, thread_vars
  <2>2. port_key[j] = NoTarget /\ j # NoJob /\ job'[t] = j /\ has_thread'[t]
    BY <1>1, <2>1, LibraryShape, TargetAssumption DEF Shape, JobsAreOwned
  <2>3. WorksOn(th, t)
    BY <1>0, <1>1, <1>3, <2>1, LibraryShape DEF WorksOn, TargetKept, ThreadKept, Shape
  <2>4. Place(th)'
    BY <1>0, <1>1, <1>2, <1>3, <1>5, <2>1 DEF Place
  <2>5. Sound(t)'
    <3>1. ~Reporting(t)'
      BY <1>1, <2>1, <2>2 DEF Reporting
    <3>2. HasContainer(t)' /\ Resumed(t)' /\ Busy(t)'
      BY <1>0, <1>2, <1>3, <1>5, <2>1, <2>2 DEF HasContainer, Resumed, Busy
    <3>3. ObjectOf(t)' /\ Counted(t)'
      BY <1>1, <1>3, <1>4, <2>1, <3>1 DEF Sound, ObjectOf, Counted, One
    <3> QED BY <3>2, <3>3 DEF Sound
  <2> QED BY <1>1, <2>3, <2>4, <2>5, Frame
<1>6. CASE UNCHANGED vars /\ pc'[th] = "refused"
  <2> USE DEF vars, kernel_vars, object_vars, thread_vars
  <2>1. WorksOn(th, t)
    BY <1>0, <1>1, <1>3, <1>6 DEF WorksOn, TargetKept, ThreadKept
  <2>2. Place(th)'
    BY <1>0, <1>1, <1>2, <1>3, <1>6 DEF Place
  <2>3. Sound(t)'
    <3>1. ~Reporting(t)'
      BY <1>2, <1>6 DEF Reporting
    <3>2. HasContainer(t)' /\ Resumed(t)' /\ Busy(t)'
      BY <1>2, <1>6 DEF HasContainer, Resumed, Busy
    <3>3. ObjectOf(t)' /\ Counted(t)'
      BY <1>1, <1>3, <1>4, <1>6, <3>1 DEF Sound, ObjectOf, Counted, One
    <3> QED BY <3>2, <3>3 DEF Sound
  <2> QED BY <1>1, <2>1, <2>2, <2>3, Frame
<1> QED BY <1>0, <1>1, <1>5, <1>6 DEF SpawnLibrary, At, PyShape

(* Start: the reference that was taken for the dispatcher goes over to it    *)
(* as the port is associated, or stays with the call.                        *)
LEMMA StartLibraryStep ==
  ASSUME "resume" \notin Faults, Delivery, PyInv, PyShape', NEW th \in Threads, StartLibrary(th)
  PROVE  PyInv'
<1>0. PICK t : t = self[th]
  OBVIOUS
<1>1. /\ t \in Targets /\ Place(th) /\ Sound(t) /\ pc[th] \in {"attach", "start"} /\ PyShape
      /\ \A u \in Threads \ {th} : self[u] # t
      /\ (py_mt = "dealloc" => Entry.key # t) /\ NoTarget \notin Targets
  BY <1>0, OnItsOwn, KernelAssumption DEF StartLibrary, PyInv
<1>2. job[t] \in Jobs /\ job[t] # NoJob /\ via[th] = NoContainer /\ life[t] = "live"
  <2>1. Called(t)
    BY <1>0, <1>1 DEF Called
  <2> QED BY <1>0, <1>1, <2>1, Held, LibraryShape DEF Place, Shape
<1>3. /\ UNCHANGED <<gil, object, refcnt, names, container_object, self, via, py_mt>>
      /\ pc'[th] \in {"start", "failed", "started"} /\ \A u \in Threads \ {th} : pc'[u] = pc[u]
  BY <1>1 DEF StartLibrary, At, target_objects, PyShape
<1>4. /\ UNCHANGED <<mt, batch, delivered, job, life>>
      /\ \A u \in Targets \ {t} : step'[u] = step[u] /\ has_thread'[u] = has_thread[u]
      /\ \/ /\ pc[th] = "attach" /\ pc'[th] = "start" /\ step'[t] = "associate"
            /\ UNCHANGED <<port_key, has_thread>>
         \/ /\ pc[th] = "start" /\ step[t] = "associate" /\ pc'[th] = "start" /\ step'[t] = "resume"
            /\ port_key[job[t]] = NoTarget /\ port_key' = [port_key EXCEPT ![job[t]] = t]
            /\ UNCHANGED has_thread
         \/ /\ pc[th] = "start" /\ step[t] = "associate" /\ pc'[th] = "failed" /\ step'[t] = "idle"
            /\ UNCHANGED <<port_key, has_thread>>
         \/ /\ pc[th] = "start" /\ step[t] = "resume" /\ pc'[th] = "started" /\ step'[t] = "idle"
            /\ UNCHANGED port_key
  <2> USE DEF Goto, Shape, kernel_vars, thread_vars, At
  <2>1. CASE pc[th] = "attach" /\ Attach(t) /\ At(th, "start")
    BY <1>1, <2>1, LibraryShape DEF Attach, PyShape
  <2>2. CASE pc[th] = "start" /\ Associate(t)
               /\ At(th, IF step'[t] = "resume" THEN "start" ELSE "failed")
    <3>1. CASE Goto(t, "associate", "resume") /\ AssociatePort(job[t], t)
      BY <1>1, <2>2, <3>1, LibraryShape DEF Associate, AssociatePort, PyShape
    <3>2. CASE Goto(t, "associate", "idle") /\ port_key' = port_key
      BY <1>1, <2>2, <3>2, LibraryShape DEF Associate, PyShape
    <3> QED BY <2>2, <3>1, <3>2 DEF Associate
  <2>3. CASE pc[th] = "start" /\ Resume(t)
               /\ At(th, IF has_thread'[t] = has_thread[t] THEN "failed" ELSE "started")
    <3>1. step[t] = "resume"
      BY <2>3 DEF Resume
    <3>2. has_thread[t]
      BY <1>1, <1>2, <3>1 DEF Sound, Resumed
    <3>3. has_thread' = [has_thread EXCEPT ![t] = FALSE]
      BY <2>3, <3>2 DEF Resume
    <3>4. has_thread'[t] # has_thread[t]
      BY <1>1, <3>2, <3>3, LibraryShape
    <3>5. pc'[th] = "started"
      BY <1>1, <2>3, <3>4 DEF PyShape
    <3> QED BY <1>1, <2>3, <3>1, <3>3, <3>5, LibraryShape DEF Resume
  <2> QED BY <1>0, <2>1, <2>2, <2>3 DEF StartLibrary
<1>5. WorksOn(th, t)
  <2>1. \A u \in Targets \ {t} : life[u] # "free" /\ job[u] # NoJob => port_key'[job[u]] = port_key[job[u]]
    BY <1>1, <1>2, <1>4, LibraryShape DEF Shape, JobsAreOwned
  <2> QED BY <1>0, <1>1, <1>3, <1>4, <2>1 DEF WorksOn, TargetKept, ThreadKept
<1>6. Place(th)'
  BY <1>0, <1>1, <1>2, <1>3, <1>4 DEF Place
<1>7. Called(t) /\ Called(t)'
  BY <1>0, <1>1, <1>3 DEF Called
<1>8. One(InFlight(t)') + One(Reporting(t)') = One(InFlight(t)) + One(Reporting(t))
  <2>1. /\ InFlight(t) <=> pc[th] = "attach" \/ (pc[th] = "start" /\ step[t] = "associate")
        /\ InFlight(t)' <=> pc'[th] = "failed" \/ (pc'[th] = "start" /\ step'[t] = "associate")
    BY <1>0, <1>1, <1>3, <1>4 DEF InFlight
  <2>2. CASE port_key' = port_key
    <3>1. Reporting(t)' <=> Reporting(t)
      BY <1>1, <1>3, <1>4, <2>2, ReportingKept
    <3>2. InFlight(t)' <=> InFlight(t)
      BY <1>4, <2>1, <2>2, <1>1, <1>2, LibraryShape DEF Shape
    <3> QED BY <3>1, <3>2 DEF One
  <2>3. CASE port_key[job[t]] = NoTarget /\ port_key' = [port_key EXCEPT ![job[t]] = t]
               /\ step[t] = "associate" /\ pc'[th] = "start" /\ step'[t] = "resume"
    <3>1. ~SawExitAll(job[t])
      BY <1>1, <1>2, <2>3, NothingBeforeStart
    <3>2. ~Reporting(t)
      BY <1>1, <2>3 DEF Reporting
    <3>3. Reporting(t)'
      <4>1. PICK j \in Jobs : j = job[t]
        BY <1>2
      <4>2. port_key'[j] = t /\ job'[t] = j /\ ~SawExitAll(j)' /\ life'[t] = "live" /\ j # NoJob
        BY <1>1, <1>2, <1>4, <2>3, <3>1, <4>1, LibraryShape DEF Shape, SawExitAll
      <4> QED BY <4>2 DEF Reporting
    <3>4. InFlight(t) /\ ~InFlight(t)'
      BY <1>1, <2>1, <2>3, <1>4
    <3> QED BY <3>2, <3>3, <3>4 DEF One
  <2> QED BY <1>4, <2>2, <2>3
<1>9. Sound(t)'
  <2>1. Counted(t)'
    <3>1. One(Called(t)') = One(Called(t)) /\ refcnt'[t] = refcnt[t] /\ names' = names
      BY <1>3, <1>7 DEF One
    <3> QED BY <1>1, <1>8, <3>1 DEF Sound, Counted, One
  <2>2. Busy(t)'
    BY <1>0, <1>3, <1>4 DEF Busy
  <2>3. ObjectOf(t)'
    BY <1>1, <1>3, <1>4 DEF Sound, ObjectOf
  <2>4. HasContainer(t)'
    BY <1>0, <1>1, <1>3, <1>4 DEF Sound, HasContainer
  <2>5. Resumed(t)'
    <3>1. PICK j \in Jobs : j = job[t]
      BY <1>2
    <3>2. job'[t] = j /\ life[t] = "live" /\ j # NoJob
      BY <1>2, <1>4, <3>1
    <3>3. /\ has_thread[t] \/ port_key[j] # NoTarget
          /\ step[t] = "resume" => has_thread[t] /\ port_key[j] # NoTarget
      BY <1>1, <3>1, <3>2 DEF Sound, Resumed
    <3>4. /\ has_thread'[t] \/ port_key'[j] # NoTarget
          /\ step'[t] = "resume" => has_thread'[t] /\ port_key'[j] # NoTarget
      BY <1>1, <1>4, <3>1, <3>3, LibraryShape DEF Shape
    <3> QED BY <3>2, <3>4 DEF Resumed
  <2> QED BY <2>1, <2>2, <2>3, <2>4, <2>5 DEF Sound
<1> QED BY <1>1, <1>5, <1>6, <1>9, Frame

(***************************************************************************)
(* What the message thread does                                            *)
(***************************************************************************)
(* A target stays sound when only the message thread moves on, as long as    *)
(* its reference in the dispatcher does.                                     *)
LEMMA SoundKept ==
  ASSUME NEW t \in Targets, Sound(t), TargetKept(t), \A th \in Threads : ThreadKept(th),
         Reporting(t)' <=> Reporting(t)
  PROVE  Sound(t)'
<1>1. Busy(t)' /\ ObjectOf(t)' /\ HasContainer(t)' /\ Resumed(t)'
  BY DEF Sound, Busy, ObjectOf, HasContainer, Resumed, TargetKept, ThreadKept
<1>2. (Called(t)' <=> Called(t)) /\ (InFlight(t)' <=> InFlight(t))
  BY DEF Called, InFlight, TargetKept, ThreadKept
<1> QED BY <1>1, <1>2 DEF Sound, Counted, One, TargetKept

(* Dequeuing and discarding entries concerns no Python object.               *)
LEMMA TakesEntryStep ==
  ASSUME Delivery, PyInv, Dequeue \/ Discard, UNCHANGED py_vars
  PROVE  PyInv'
<1> USE DEF py_vars, target_objects, calls, kernel_vars, object_vars
<1>1. /\ mt = "next" /\ mt' = "next" /\ py_mt = "none" /\ delivered' = delivered
      /\ UNCHANGED <<port_key, life, step, job, has_thread>>
  BY DEF Dequeue, Discard, PyInv, Calling
<1>2. PyShape' /\ OneCall' /\ Places'
  BY <1>1 DEF PyInv, PyShape, OneCall, Places, Place
<1>3. Calling'
  BY <1>1 DEF PyInv, Calling
<1>4. ASSUME NEW t \in Targets PROVE Sound(t)'
  <2>1. Reporting(t)' <=> Reporting(t)
    BY <1>1 DEF Reporting, SawExitAll
  <2> QED BY <1>1, <2>1, SoundKept DEF PyInv, TargetKept, ThreadKept
<1> QED BY <1>2, <1>3, <1>4 DEF PyInv

(* A callback begins: its target hears the end of its job at most now.       *)
LEMMA PyDispatchStep == ASSUME Delivery, PyInv, PyDispatch PROVE PyInv'
<1> USE DEF target_objects, calls, kernel_vars, object_vars
<1>0. PICK k, j, n : k = Entry.key /\ j = Entry.job /\ n = Entry.notice
  OBVIOUS
<1>1. /\ mt = "next" /\ mt' = "callback" /\ py_mt = "none" /\ py_mt' = "ensure" /\ batch # <<>>
      /\ UNCHANGED <<port_key, life, step, job, has_thread, batch,
                     gil, object, refcnt, names, container_object, pc, self, via>>
      /\ delivered' = [delivered EXCEPT ![j] = Append(@, n)]
  BY <1>0 DEF PyDispatch, Dispatch, PyInv, Calling, py_unchanged
<1>2. k \in Targets /\ j \in Jobs /\ life[k] # "free" /\ job[k] = j /\ port_key[j] = k /\ j # NoJob
  BY <1>0, <1>1, EntryFinds, TargetAssumption
<1>3. ~SawExitAll(j)
  BY <1>0, <1>1, NothingAfterExitAll
<1>4. Entry' = Entry
  BY <1>1 DEF Entry
<1>5. n \in Notice /\ delivered \in [Jobs -> Seq(Notice)]
  <2>1. TypeOK
    BY DEF Delivery, Base
  <2>2. Entry \in ToSet(batch)
    BY <1>1, <2>1, TailType DEF TypeOK, Entry, ToSet
  <2>3. Entry \in Packet
    BY <2>1, <2>2, OnItsWayType DEF OnItsWay
  <2> QED BY <1>0, <2>1, <2>3, PacketFields DEF TypeOK
<1>6. /\ ToSet(delivered'[j]) = ToSet(delivered[j]) \cup {n}
      /\ \A i \in Jobs : i # j => delivered'[i] = delivered[i]
  <2>1. delivered'[j] = Append(delivered[j], n) /\ delivered[j] \in Seq(Notice)
    BY <1>1, <1>2, <1>5
  <2>2. ASSUME NEW s \in Seq(Notice) PROVE ToSet(Append(s, n)) = ToSet(s) \cup {n}
    <3> DEFINE u == <<n>>
    <3>1. Append(s, n) = s \o u /\ u \in Seq(Notice) /\ ToSet(u) = {n}
      BY <1>5, AppendIsConcat DEF ToSet
    <3> HIDE DEF u
    <3>2. ToSet(s \o u) = ToSet(s) \cup ToSet(u)
      BY <3>1, ToSetConcat
    <3> QED BY <3>1, <3>2
  <2> QED BY <1>1, <1>5, <2>1, <2>2
<1>7. /\ SawExitAll(j)' <=> n.kind = "zero"
      /\ \A i \in Jobs : i # j => (SawExitAll(i)' <=> SawExitAll(i))
  BY <1>3, <1>6 DEF SawExitAll
<1>8. PyShape' /\ OneCall' /\ Places'
  BY <1>1 DEF PyInv, PyShape, OneCall, Places, Place
<1>9. Calling'
  <2>1. Entry.notice' = n /\ Entry.job' = j
    BY <1>0, <1>4
  <2>2. n \in ToSet(delivered'[j])
    BY <1>6
  <2>3. SawExitAll(j)' => n.kind = "zero"
    BY <1>7
  <2>4. gil' = NoThread
    BY <1>1 DEF PyInv, Calling
  <2> QED BY <1>1, <2>1, <2>2, <2>3, <2>4 DEF Calling, SawExitAll
<1>10. ASSUME NEW t \in Targets PROVE Sound(t)'
  <2>1. Reporting(t)' <=> Reporting(t)
    <3>1. CASE t = k
      <4>1. Reporting(t)
        BY <1>2, <1>3, <3>1 DEF Reporting
      <4>2. SawExitAll(j)' => /\ py_mt' \in {"ensure", "method"} /\ Entry.key' = t
                              /\ Entry.notice.kind' = "zero"
        BY <1>0, <1>1, <1>4, <1>7, <3>1
      <4>3. life'[t] # "free" /\ job'[t] = j /\ port_key'[j] = t
        BY <1>1, <1>2, <3>1
      <4>4. Reporting(t)'
        BY <1>2, <4>2, <4>3 DEF Reporting, SawExitAll
      <4> QED BY <4>1, <4>4
    <3>2. CASE t # k
      <4>1. life[t] # "free" /\ job[t] # NoJob => job[t] \in Jobs /\ job[t] # j
        BY <1>2, <3>2, LibraryShape DEF Shape, JobsAreOwned
      <4>2. Entry.key' # t
        BY <1>0, <1>4, <3>2
      <4> QED BY <1>0, <1>1, <1>7, <3>2, <4>1, <4>2 DEF Reporting, SawExitAll
    <3> QED BY <3>1, <3>2
  <2> QED BY <1>1, <2>1, SoundKept DEF PyInv, TargetKept, ThreadKept
<1> QED BY <1>8, <1>9, <1>10 DEF PyInv

(* A callback gets the lock; it owned its object before.                     *)
LEMMA EnsureGilStep == ASSUME PyInv, EnsureGil PROVE PyInv'
<1> USE DEF target_objects, calls, vars, kernel_vars, object_vars, thread_vars
<1>1. /\ py_mt = "ensure" /\ py_mt' = "method" /\ gil' = Dispatcher
      /\ UNCHANGED <<vars, object, refcnt, names, container_object, pc, self, via>>
  BY DEF EnsureGil
<1>2. PyShape' /\ OneCall' /\ Places'
  BY <1>1 DEF PyInv, PyShape, OneCall, Places, Place
<1>3. Calling'
  BY <1>1 DEF PyInv, Calling, Entry, SawExitAll
<1>4. ASSUME NEW t \in Targets PROVE Sound(t)'
  <2>1. Reporting(t)' <=> Reporting(t)
    BY <1>1 DEF Reporting, SawExitAll, Entry
  <2> QED BY <1>1, <2>1, SoundKept DEF PyInv, TargetKept, ThreadKept
<1> QED BY <1>2, <1>3, <1>4 DEF PyInv

(* A callback returns: it was not OnExitAll.                                 *)
LEMMA CallbackReturnsStep == ASSUME PyInv, CallbackReturns PROVE PyInv'
<1> USE DEF target_objects, calls, kernel_vars, object_vars
<1>1. /\ py_mt = "method" /\ py_mt' = "none" /\ gil' = NoThread /\ mt' = "next"
      /\ Entry.notice.kind # "zero"
      /\ UNCHANGED <<port_key, life, step, job, has_thread, delivered,
                     object, refcnt, names, container_object, pc, self, via>>
  BY DEF CallbackReturns, Return
<1>2. PyShape' /\ OneCall' /\ Places'
  BY <1>1 DEF PyInv, PyShape, OneCall, Places, Place
<1>3. Calling'
  BY <1>1 DEF Calling
<1>4. ASSUME NEW t \in Targets PROVE Sound(t)'
  <2>1. Reporting(t)' <=> Reporting(t)
    BY <1>1 DEF Reporting, SawExitAll
  <2> QED BY <1>1, <2>1, SoundKept DEF PyInv, TargetKept, ThreadKept
<1> QED BY <1>2, <1>3, <1>4 DEF PyInv

(* OnExitAll gives the dispatcher's reference back, which there was.         *)
LEMMA OnExitAllStep == ASSUME Delivery, PyInv, PyShape', OnExitAll PROVE PyInv'
<1> USE DEF target_objects, calls, vars, kernel_vars, object_vars, thread_vars
<1>0. PICK k, j : k = Entry.key /\ j = Entry.job
  OBVIOUS
<1>1. /\ py_mt = "method" /\ Entry.notice.kind = "zero" /\ gil' = NoThread
      /\ refcnt' = [refcnt EXCEPT ![k] = @ - 1]
      /\ IF refcnt'[k] = 0
         THEN /\ object' = [object EXCEPT ![k] = "dealloc"] /\ py_mt' = "dealloc"
              /\ UNCHANGED <<mt, batch>>
         ELSE object' = object /\ py_mt' = "none" /\ mt' = "next"
      /\ UNCHANGED <<port_key, life, step, job, has_thread, delivered,
                     names, container_object, pc, self, via>>
  BY <1>0 DEF OnExitAll, DispatcherReleased, Return
<1>2. mt = "callback" /\ PyShape /\ SawExitAll(j)
  BY <1>0, <1>1 DEF PyInv, Calling, SawExitAll
<1>3. /\ k \in Targets /\ j \in Jobs /\ j # NoJob /\ life[k] # "free" /\ job[k] = j
      /\ port_key[j] = k
  BY <1>0, <1>2, EntryFinds, LibraryShape, TargetAssumption
<1>4. Reporting(k)
  BY <1>0, <1>1, <1>3 DEF Reporting
<1>5. /\ Sound(k) /\ refcnt[k] # 0 /\ object[k] = "object" /\ life[k] = "live"
      /\ \A th \in Threads : self[th] = k => pc[th] \notin {"dealloc", "reclaim"}
  BY <1>3, <1>4, Held DEF PyInv
<1>6. refcnt'[k] = refcnt[k] - 1 /\ refcnt[k] \in Int
  BY <1>1, <1>2, <1>3 DEF PyShape
<1>7. ~Reporting(k)'
  <2>1. SawExitAll(j)' /\ job'[k] = j /\ py_mt' \notin {"ensure", "method"}
    BY <1>1, <1>2, <1>3 DEF SawExitAll
  <2> QED BY <2>1 DEF Reporting, SawExitAll
<1>8. (Called(k)' <=> Called(k)) /\ (InFlight(k)' <=> InFlight(k))
  BY <1>1 DEF Called, InFlight
<1>9. Counted(k)'
  BY <1>1, <1>4, <1>5, <1>6, <1>7, <1>8 DEF Sound, Counted, One
<1>10. refcnt'[k] = 0 => \A th \in Threads : self[th] # k
  <2>1. refcnt'[k] = 0 => ~Called(k)
    BY <1>6, <1>8, <1>9 DEF Counted, One
  <2> QED BY <1>5, <2>1 DEF Called
<1>11. Sound(k)'
  <2>1. Busy(k)' /\ HasContainer(k)' /\ Resumed(k)'
    BY <1>1, <1>5 DEF Sound, Busy, HasContainer, Resumed
  <2>2. ObjectOf(k)'
    BY <1>1, <1>2, <1>3, <1>5, <1>6 DEF Sound, ObjectOf, PyShape
  <2> QED BY <1>9, <2>1, <2>2 DEF Sound
<1>12. ASSUME NEW t \in Targets, t # k PROVE Sound(t)'
  <2>1. Reporting(t)' <=> Reporting(t)
    BY <1>0, <1>1, <1>12 DEF Reporting, SawExitAll, Entry
  <2>2. TargetKept(t) /\ \A th \in Threads : ThreadKept(th)
    BY <1>1, <1>2, <1>3, <1>12 DEF TargetKept, ThreadKept, PyShape
  <2> QED BY <2>1, <2>2, SoundKept DEF PyInv
<1>13. Places'
  <2> SUFFICES ASSUME NEW th \in Threads PROVE Place(th)'
    BY DEF Places
  <2>1. Place(th)
    BY DEF PyInv, Places
  <2>2. self[th] # k => self[th] = NoTarget \/ object'[self[th]] = object[self[th]]
    BY <1>1, <1>2, <1>3 DEF PyShape
  <2>3. CASE self[th] = k
    BY <1>1, <1>5, <1>10, <2>1, <2>3 DEF Place
  <2>4. CASE self[th] # k
    BY <1>1, <2>1, <2>2, <2>4 DEF Place
  <2> QED BY <2>3, <2>4
<1>14. Calling'
  <2>1. CASE refcnt'[k] = 0
    <3>1. Entry' = Entry /\ object'[k] = "dealloc"
      BY <1>1, <1>2, <1>3, <2>1 DEF Entry, PyShape
    <3>2. object'[Entry.key'] = "dealloc" /\ \A th \in Threads : self'[th] # Entry.key'
      BY <1>0, <1>1, <1>10, <2>1, <3>1
    <3>3. SawExitAll(Entry.job)' <=> SawExitAll(Entry.job)
      BY <1>1, <3>1 DEF SawExitAll
    <3> QED BY <1>0, <1>1, <1>2, <2>1, <3>1, <3>2, <3>3 DEF PyInv, Calling
  <2>2. CASE refcnt'[k] # 0
    BY <1>1, <2>2 DEF Calling
  <2> QED BY <2>1, <2>2
<1>15. OneCall'
  BY <1>1 DEF PyInv, OneCall
<1> QED BY <1>11, <1>12, <1>13, <1>14, <1>15 DEF PyInv

(* The message thread destroys the target whose OnExitAll it was.            *)
LEMMA ReclaimInsideStep == ASSUME Delivery, PyInv, PyShape', ReclaimInside PROVE PyInv'
<1> USE DEF calls
<1>0. PICK k : k = Entry.key
  OBVIOUS
<1>1. /\ py_mt = "dealloc" /\ py_mt' = "none" /\ gil = NoThread /\ gil' = NoThread /\ mt' = "next"
      /\ object' = [object EXCEPT ![k] = "none"]
      /\ container_object' = [container_object EXCEPT ![k] = NoContainer]
      /\ life' = [life EXCEPT ![k] = "free"] /\ CloseJob(k) /\ step[k] = "idle"
      /\ UNCHANGED <<step, job, has_thread, delivered, refcnt, names, pc, self, via>>
  BY <1>0 DEF ReclaimInside, Reclaimed, ReturnDestroyed, Usable
<1>2. mt = "callback" /\ PyShape /\ object[k] = "dealloc" /\ \A th \in Threads : self[th] # k
  BY <1>0, <1>1 DEF PyInv, Calling
<1>3. k \in Targets /\ life[k] # "free"
  BY <1>0, <1>2, EntryFinds, LibraryShape
<1>4. refcnt[k] = 0 /\ k \notin names /\ ~Called(k) /\ ~InFlight(k)
  BY <1>2, <1>3, Unheld
<1>5. Sound(k)'
  <2>1. life'[k] = "free" /\ object'[k] = "none" /\ container_object'[k] = NoContainer
    BY <1>1, <1>2, <1>3, LibraryShape DEF PyShape, Shape
  <2>2. ~Called(k)' /\ ~InFlight(k)' /\ ~Reporting(k)'
    BY <1>1, <1>2, <2>1 DEF Called, InFlight, Reporting
  <2> QED BY <1>1, <1>4, <2>1, <2>2 DEF Sound, Busy, ObjectOf, HasContainer, Resumed, Counted, One
<1>6. ASSUME NEW t \in Targets \ {k} PROVE Sound(t)'
  <2>1. life'[t] = life[t]
        /\ (life[t] # "free" /\ job[t] # NoJob => port_key'[job[t]] = port_key[job[t]])
    BY <1>1, <1>3, LibraryShape, OthersPort DEF Shape
  <2>2. TargetKept(t) /\ \A th \in Threads : ThreadKept(th)
    BY <1>1, <1>2, <2>1 DEF TargetKept, ThreadKept, PyShape
  <2>3. Reporting(t)' <=> Reporting(t)
    BY <1>1, <2>1 DEF Reporting, SawExitAll
  <2> QED BY <2>2, <2>3, SoundKept DEF PyInv
<1>7. Places'
  <2> SUFFICES ASSUME NEW th \in Threads PROVE Place(th)'
    BY DEF Places
  <2>1. Place(th) /\ self[th] # k
    BY <1>2 DEF PyInv, Places
  <2>2. self[th] = NoTarget \/ /\ object'[self[th]] = object[self[th]]
                               /\ container_object'[self[th]] = container_object[self[th]]
                               /\ life'[self[th]] = life[self[th]]
    BY <1>1, <1>2, <2>1, LibraryShape DEF PyShape, Shape
  <2> QED BY <1>1, <2>1, <2>2 DEF Place
<1>8. Calling' /\ OneCall'
  BY <1>1 DEF PyInv, Calling, OneCall
<1> QED BY <1>5, <1>6, <1>7, <1>8 DEF PyInv

(***************************************************************************)
(* The binding observes the discipline of careful clients                  *)
(***************************************************************************)
(* A target gets a job in spawn only, and dies in its deallocation only.     *)
LEMMA GetsAndDies ==
  ASSUME Delivery, PyInv, [PyNext]_all_vars, NEW t \in Targets
  PROVE  /\ \/ job'[t] = job[t] \/ life[t] = "free"
            \/ \E th \in Threads : pc[th] = "spawn" /\ self[th] = t
         /\ life[t] = "live" /\ life'[t] # "live" => object[t] = "dealloc"
<1> USE DEF vars, kernel_vars, object_vars, thread_vars
<1>0. PyShape /\ Places /\ Shape
  BY LibraryShape DEF PyInv
<1> DEFINE Goal == /\ \/ job'[t] = job[t] \/ life[t] = "free"
                      \/ \E th \in Threads : pc[th] = "spawn" /\ self[th] = t
                   /\ life[t] = "live" /\ life'[t] # "live" => object[t] = "dealloc"
<1>1. ASSUME job' = job, life' = life PROVE Goal
  BY <1>1
<1>2. ASSUME NEW u \in Targets, Construct(u) PROVE Goal
  BY <1>0, <1>2 DEF Construct, Shape
<1>3. ASSUME NEW th \in Threads, NEW u \in Targets, NewTarget(th, u) PROVE Goal
  BY <1>2, <1>3 DEF NewTarget, NewObject
<1>4. ASSUME NEW th \in Threads, NEW u \in Targets, NEW c \in Containers, SpawnBegin(th, c, u)
      PROVE  Goal
  <2>1. (job' = job /\ life' = life) \/ Construct(u)
    BY <1>4 DEF SpawnBegin, NewObject
  <2> QED BY <1>1, <1>2, <2>1
<1>5. ASSUME NEW th \in Threads, Destroy(th) PROVE Goal
  <2>1. pc[th] = "dealloc" /\ self[th] \in Targets /\ object[self[th]] = "dealloc"
    BY <1>0, <1>5, OnItsOwn DEF Destroy, Place
  <2>2. job' = job /\ \A u \in Targets : u # self[th] => life'[u] = life[u]
    BY <1>0, <1>5, <2>1 DEF Destroy, BeginDestroy, Deassociate, Free, Shape
  <2> QED BY <2>1, <2>2
<1>6. ASSUME NEW th \in Threads, SpawnLibrary(th) PROVE Goal
  <2>1. pc[th] = "spawn" /\ self[th] \in Targets
    BY <1>6, OnItsOwn DEF SpawnLibrary
  <2>2. life' = life /\ \A u \in Targets : u # self[th] => job'[u] = job[u]
    BY <1>0, <1>6, <2>1 DEF SpawnLibrary, Assign, Shape
  <2> QED BY <1>0, <2>1, <2>2 DEF Shape
<1>7. ASSUME ReclaimInside PROVE Goal
  <2>1. mt = "callback" /\ object[Entry.key] = "dealloc"
    BY <1>7 DEF ReclaimInside, PyInv, Calling
  <2>2. PICK k : k = Entry.key
    OBVIOUS
  <2>3. job' = job /\ life' = [life EXCEPT ![k] = "free"]
    BY <1>7, <2>2 DEF ReclaimInside, ReturnDestroyed
  <2> QED BY <1>0, <2>1, <2>2, <2>3 DEF Shape
<1>8. ASSUME NEW th \in Threads,
             \/ \E u \in Targets : \/ DropTarget(th, u) \/ StartBegin(th, u) \/ WaitBegin(th, u)
                                   \/ Terminate(th, u)
             \/ \E c \in Containers : NewContainer(th, c) \/ DropContainer(th, c)
             \/ Reclaim(th) \/ SpawnEnd(th) \/ SpawnRefused(th) \/ StartEnd(th) \/ WaitReturns(th)
      PROVE  Goal
  <2>1. CASE \/ \E u \in Targets : DropTarget(th, u) \/ StartBegin(th, u) \/ WaitBegin(th, u)
             \/ \E c \in Containers : NewContainer(th, c) \/ DropContainer(th, c)
    BY <1>1, <2>1 DEF DropTarget, StartBegin, WaitBegin, NewContainer, DropContainer
  <2>2. CASE \E u \in Targets : Terminate(th, u)
    BY <1>1, <2>2 DEF Terminate, TerminateJob
  <2>3. CASE Reclaim(th) \/ SpawnEnd(th) \/ SpawnRefused(th) \/ StartEnd(th) \/ WaitReturns(th)
    BY <1>1, <2>3 DEF Reclaim, SpawnEnd, SpawnRefused, StartEnd, WaitReturns
  <2> QED BY <1>8, <2>1, <2>2, <2>3
<1>9. ASSUME NEW th \in Threads, StartLibrary(th) PROVE Goal
  BY <1>1, <1>9 DEF StartLibrary, Attach, Associate, Resume
<1>10. ASSUME NEW th \in Threads, Program(th) PROVE Goal
  BY <1>3, <1>4, <1>8, <1>10 DEF Program
<1>11. ASSUME NEW th \in Threads, InCall(th) \/ WaitReturns(th) PROVE Goal
  BY <1>5, <1>6, <1>8, <1>9, <1>11 DEF InCall, WaitEnd
<1>12. ASSUME PyMessageThread PROVE Goal
  BY <1>1, <1>7, <1>12 DEF PyMessageThread, Dequeue, Discard, PyDispatch, Dispatch, EnsureGil,
     CallbackReturns, OnExitAll, Return
<1>13. ASSUME \E u \in Targets : Terminate(Dispatcher, u) PROVE Goal
  BY <1>1, <1>13 DEF Terminate, TerminateJob
<1>14. ASSUME \E j \in Jobs : System(j) /\ UNCHANGED py_vars PROVE Goal
  BY <1>1, <1>14 DEF System
<1>15. ASSUME UNCHANGED all_vars PROVE Goal
  BY <1>1, <1>15 DEF all_vars
<1> HIDE DEF Goal
<1>16. Goal
  BY <1>10, <1>11, <1>12, <1>13, <1>14, <1>15 DEF PyNext, PyAtRest
<1> QED BY <1>16 DEF Goal

(* Spawn is refused on a target that has a container, and the dispatcher's   *)
(* reference keeps a listening target until its OnExitAll.                   *)
LEMMA PyDiscipline == ASSUME Delivery, PyInv, [PyNext]_all_vars PROVE Discipline
<1> SUFFICES ASSUME NEW t \in Targets
             PROVE  /\ Assign(t) => job[t] = NoJob
                    /\ BeginDestroy(t) \/ (ReturnDestroyed /\ Entry.key = t) => Heeds(t)
  BY DEF Discipline
<1>1. ASSUME Assign(t) PROVE job[t] = NoJob
  <2>1. job'[t] # job[t] /\ life[t] # "free"
    BY <1>1, LibraryShape, TargetAssumption DEF Assign, Usable, CreateSuspended, Shape, JobsAreOwned
  <2>2. PICK th \in Threads : pc[th] = "spawn" /\ self[th] = t
    BY <2>1, GetsAndDies
  <2> QED BY <2>2 DEF PyInv, Places, Place
<1>2. ASSUME BeginDestroy(t) \/ (ReturnDestroyed /\ Entry.key = t) PROVE Heeds(t)
  <2>1. life[t] = "live" /\ life'[t] # "live"
    <3>1. CASE BeginDestroy(t)
      BY <3>1, LibraryShape DEF BeginDestroy, Shape
    <3>2. CASE ReturnDestroyed /\ Entry.key = t
      BY <3>2, LibraryShape DEF ReturnDestroyed, Usable, Shape
    <3> QED BY <1>2, <3>1, <3>2
  <2>2. ~Reporting(t)
    BY <2>1, GetsAndDies, Unheld
  <2> QED BY <2>1, <2>2 DEF Heeds, Reporting
<1> QED BY <1>1, <1>2

(* Every step keeps PyInv, given the library keeps its own invariant.        *)
LEMMA PyInvStep ==
  ASSUME "resume" \notin Faults, ~SharedTargets, Delivery, PyInv, [PyNext]_all_vars
  PROVE  PyInv'
<1>0. PyShape'
  BY PyShapeStep
<1>1. ASSUME NEW th \in Threads, Program(th) PROVE PyInv'
  BY <1>0, <1>1, NewTargetStep, DropTargetStep, StartBeginStep, WaitBeginStep, SpawnBeginStep,
     OtherStep DEF Program
<1>2. ASSUME NEW th \in Threads, InCall(th) \/ WaitReturns(th) PROVE PyInv'
  BY <1>0, <1>2, DestroyStep, ReclaimStep, SpawnLibraryStep, SpawnEndStep, ReturnStep,
     StartLibraryStep DEF InCall, WaitEnd
<1>3. CASE PyMessageThread
  BY <1>0, <1>3, TakesEntryStep, PyDispatchStep, EnsureGilStep, CallbackReturnsStep,
     OnExitAllStep, ReclaimInsideStep DEF PyMessageThread
<1>4. CASE \/ \E t \in Targets : Terminate(Dispatcher, t)
           \/ \E j \in Jobs : System(j) /\ UNCHANGED py_vars
  BY <1>4, OtherStep
<1>5. CASE UNCHANGED all_vars
  BY <1>5, PyInvKept DEF all_vars, py_vars, vars, kernel_vars, object_vars, thread_vars
<1> QED BY <1>1, <1>2, <1>3, <1>4, <1>5 DEF PyNext, PyAtRest

(* The two invariants carry each other: the library's holds because the      *)
(* binding observes the discipline, the binding's because the library's does.*)
PyDelivery == PyInv /\ Delivery

(* One step of both invariants at once.                                      *)
LEMMA PyDeliveryStep ==
  ASSUME "resume" \notin Faults, ~SharedTargets, PyDelivery, [PyNext]_all_vars
  PROVE  PyDelivery' /\ Discipline /\ [Next]_vars
<1>1. PyInv => CallHasTarget
  BY DEF PyInv, PyShape, Places, Place, CallHasTarget
<1>2. Discipline /\ [Next]_vars
  BY <1>1, PyDiscipline, BindingStep DEF PyDelivery
<1> QED BY <1>2, PyInvStep, DeliveryStep DEF PyDelivery

(* Both hold always.                                                         *)
LEMMA PyDeliveryInvariant ==
  ASSUME "resume" \notin Faults, ~SharedTargets
  PROVE  PySpec => []PyDelivery
<1>1. PyInit => PyDelivery
  <2>1. PyInit => Init
    BY DEF PyInit
  <2> QED BY <2>1, PyInvInit, DeliveryInit DEF PyDelivery
<1>2. PyDelivery /\ [PyNext]_all_vars => PyDelivery'
  BY PyDeliveryStep
<1> QED BY <1>1, <1>2, PTL DEF PySpec

-----------------------------------------------------------------------------
(* No more than one call is on a target, so that what the program refers to  *)
(* it by can be told one by one.                                             *)
LEMMA ProgramRefsAre ==
  ASSUME PyInv, NEW t \in Targets
  PROVE  ProgramRefs(t) = One(t \in names) + One(Called(t))
<1> DEFINE C == {th \in Threads : self[th] = t /\ pc[th] \notin {"dealloc", "reclaim"}}
<1>1. Cardinality(C) = One(Called(t))
  <2>1. CASE Called(t)
    <3>1. PICK th \in C : TRUE
      BY <2>1 DEF Called
    <3>2. C = {th}
      BY <3>1, KernelAssumption DEF PyInv, OneCall
    <3> QED BY <2>1, <3>2, FS_Singleton DEF One
  <2>2. CASE ~Called(t)
    <3>1. C = {}
      BY <2>2 DEF Called
    <3> QED BY <2>2, <3>1, FS_EmptySet DEF One
  <2> QED BY <2>1, <2>2
<1> QED BY <1>1 DEF ProgramRefs, One

(* Counted is what RefsAreCounted says of targets, in other words.           *)
LEMMA PyCounts ==
  ASSUME PyInv, NEW t \in Targets
  PROVE  refcnt[t] = ProgramRefs(t) + (IF InFlight(t) THEN 1 ELSE 0)
                                    + (IF Reporting(t) THEN 1 ELSE 0)
<1> QED BY ProgramRefsAre DEF PyInv, Sound, Counted, One

(* During a callback the job still reports, and that reference is counted.   *)
LEMMA PyOwns == ASSUME PyDelivery PROVE DispatcherOwnsTarget
<1> SUFFICES ASSUME py_mt \in {"ensure", "method"}
             PROVE  object[Entry.key] = "object" /\ refcnt[Entry.key] > ProgramRefs(Entry.key)
  BY DEF DispatcherOwnsTarget
<1>0. PICK k : k = Entry.key
  OBVIOUS
<1>1. mt = "callback"
  BY DEF PyDelivery, PyInv, Calling
<1>2. k \in Targets /\ life[k] # "free" /\ job[k] = Entry.job /\ job[k] # NoJob /\ port_key[job[k]] = k
  BY <1>0, <1>1, EntryFinds, LibraryShape, TargetAssumption DEF PyDelivery
<1>3. Reporting(k)
  BY <1>0, <1>1, <1>2 DEF Reporting, PyDelivery, PyInv, Calling
<1>4. object[k] = "object"
  BY <1>2, <1>3, Held DEF PyDelivery
<1>5. refcnt[k] > ProgramRefs(k)
  BY <1>2, <1>3, ProgramRefsAre DEF PyDelivery, PyInv, Sound, Counted, One
<1> QED BY <1>0, <1>4, <1>5

(* What the system does, and how a port is associated, is the same for       *)
(* careful clients and others.                                               *)
LEMMA SystemIsSame == ASSUME NEW j \in Jobs, System(j) PROVE Disciplined!System(j)
<1> USE DEF Post, Disciplined!Post, Packets, Disciplined!Packets, About, Disciplined!About
<1>1. Fork(j) => Disciplined!Fork(j)
  BY DEF Fork, Disciplined!Fork
<1>2. HitLimit(j) => Disciplined!HitLimit(j)
  BY DEF HitLimit, Disciplined!HitLimit, Limits, Disciplined!Limits
<1>3. Exit(j) => Disciplined!Exit(j)
  BY DEF Exit, Disciplined!Exit
<1> QED BY <1>1, <1>2, <1>3 DEF System, Disciplined!System, object_vars,
     Disciplined!object_vars, thread_vars, Disciplined!thread_vars

(* An association does not depend on the discipline.                         *)
LEMMA AssociateIsSame == ASSUME NEW t \in Targets, Associate(t) PROVE Disciplined!Associate(t)
<1>1. /\ \A kind, p : Disciplined!About(kind, p) = About(kind, p)
      /\ \A key, j, ns : Disciplined!Packets(key, j, ns) = Packets(key, j, ns)
      /\ Disciplined!Notice = Notice
  BY DEF Packets, Disciplined!Packets, About, Disciplined!About, Notice, Disciplined!Notice,
     Limits, Disciplined!Limits
<1>2. \A s, S : Disciplined!Only(s, S) = Only(s, S)
  BY DEF Only, Disciplined!Only
<1>3. AssociatePort(job[t], t) => Disciplined!AssociatePort(job[t], t)
  BY <1>1, <1>2 DEF AssociatePort, Disciplined!AssociatePort
<1> QED BY <1>3 DEF Associate, Disciplined!Associate, Goto, Disciplined!Goto, NowListening,
     Disciplined!NowListening, thread_vars, Disciplined!thread_vars

(* A step of the library under the discipline is one of it with careful      *)
(* clients.                                                                  *)
LEMMA DisciplinedStep ==
  ASSUME Delivery, Discipline, [Next]_vars PROVE [Disciplined!Next]_vars
<1>1. ASSUME NEW t \in Targets, Client(t) PROVE Disciplined!Client(t)
  <2>1. Assign(t) => Disciplined!Assign(t)
    BY DEF Discipline, Assign, Disciplined!Assign, Usable, Disciplined!Usable, CreateSuspended,
       Disciplined!CreateSuspended, Killed, Disciplined!Killed, Orphaned, Disciplined!Orphaned,
       thread_vars, Disciplined!thread_vars
  <2>2. BeginDestroy(t) => Disciplined!BeginDestroy(t)
    BY DEF Discipline, Heeds, BeginDestroy, Disciplined!BeginDestroy, Disciplined!MayDestroy,
       SawExitAll, Disciplined!SawExitAll, ToSet, Disciplined!ToSet, Goto, Disciplined!Goto,
       kernel_vars, Disciplined!kernel_vars, thread_vars, Disciplined!thread_vars
  <2> USE DEF Goto, Disciplined!Goto, Usable, Disciplined!Usable, LockFree, Disciplined!LockFree,
       kernel_vars, Disciplined!kernel_vars, object_vars, Disciplined!object_vars,
       thread_vars, Disciplined!thread_vars
  <2>3. Construct(t) => Disciplined!Construct(t)
    BY DEF Construct, Disciplined!Construct
  <2>4. Attach(t) => Disciplined!Attach(t)
    BY DEF Attach, Disciplined!Attach, Inserted, Disciplined!Inserted
  <2>5. Associate(t) => Disciplined!Associate(t)
    BY AssociateIsSame
  <2>6. StartUnheard(t) \/ Resume(t) \/ TerminateJob(t) =>
          Disciplined!StartUnheard(t) \/ Disciplined!Resume(t) \/ Disciplined!TerminateJob(t)
    BY DEF StartUnheard, Disciplined!StartUnheard, Resume, Disciplined!Resume, TerminateJob,
       Disciplined!TerminateJob, Killed, Disciplined!Killed
  <2>7. Deassociate(t) \/ Free(t) => Disciplined!Deassociate(t) \/ Disciplined!Free(t)
    BY DEF Deassociate, Disciplined!Deassociate, Erased, Disciplined!Erased, Free,
       Disciplined!Free, CloseJob, Disciplined!CloseJob, Killed, Disciplined!Killed, Orphaned,
       Disciplined!Orphaned
  <2> QED BY <1>1, <2>1, <2>2, <2>3, <2>4, <2>5, <2>6, <2>7 DEF Client, Disciplined!Client
<1>2. ASSUME NEW j \in Jobs, System(j) PROVE Disciplined!System(j)
  BY <1>2, SystemIsSame
<1>3. ASSUME MessageThread PROVE Disciplined!MessageThread
  <2> USE DEF Usable, Disciplined!Usable, Entry, Disciplined!Entry, RestOfBatch,
       Disciplined!RestOfBatch, Found, Disciplined!Found, HasCallback, Disciplined!HasCallback,
       kernel_vars, Disciplined!kernel_vars, object_vars, Disciplined!object_vars
  <2>1. Dequeue => Disciplined!Dequeue
    BY DEF Dequeue, Disciplined!Dequeue, ActualCount, Disciplined!ActualCount
  <2>2. Dispatch \/ Discard \/ Return =>
          Disciplined!Dispatch \/ Disciplined!Discard \/ Disciplined!Return
    BY DEF Dispatch, Disciplined!Dispatch, Discard, Disciplined!Discard, Return,
       Disciplined!Return
  <2>3. ReturnDestroyed => Disciplined!ReturnDestroyed
    <3>1. ASSUME ReturnDestroyed PROVE Disciplined!MayDestroy(Entry.key)
      <4>1. PICK k : k = Entry.key
        OBVIOUS
      <4>2. k \in Targets
        BY <3>1, <4>1, EntryFinds, LibraryShape DEF ReturnDestroyed
      <4>3. Heeds(k)
        BY <3>1, <4>1, <4>2 DEF Discipline
      <4> QED BY <4>1, <4>3 DEF Heeds, Disciplined!MayDestroy, SawExitAll,
           Disciplined!SawExitAll, ToSet, Disciplined!ToSet
    <3> QED BY <3>1 DEF ReturnDestroyed, Disciplined!ReturnDestroyed, Erased, Disciplined!Erased,
         CloseJob, Disciplined!CloseJob, Killed, Disciplined!Killed, Orphaned,
         Disciplined!Orphaned
  <2> QED BY <1>3, <2>1, <2>2, <2>3 DEF MessageThread, Disciplined!MessageThread
<1>4. vars = Disciplined!vars /\ vars' = Disciplined!vars'
  BY DEF vars, Disciplined!vars, kernel_vars, Disciplined!kernel_vars, object_vars,
     Disciplined!object_vars, thread_vars, Disciplined!thread_vars
<1>5. AtRest => UNCHANGED vars
  BY DEF AtRest
<1> QED BY <1>1, <1>2, <1>3, <1>4, <1>5 DEF Next, Disciplined!Next

(* Nor do the initial states.                                                *)
LEMMA DisciplinedInit == Init => Disciplined!Init
  BY DEF Init, Disciplined!Init, KernelInit, Disciplined!KernelInit

(***************************************************************************)
(* The references of a container                                           *)
(***************************************************************************)
(* How often a function on S has the value c. *)
Times(f, S, c) == Cardinality({i \in S : f[i] = c})

Same(x, y) == IF x = y THEN 1 ELSE 0

(* One value of a function on a finite set changes.                          *)
LEMMA CountExcept ==
  ASSUME NEW S, IsFiniteSet(S), NEW e \in S, NEW f, NEW g, \A i \in S \ {e} : g[i] = f[i], NEW c
  PROVE  Times(g, S, c) = Times(f, S, c) - Same(f[e], c) + Same(g[e], c)
<1> DEFINE R == {i \in S \ {e} : f[i] = c}
           F == {i \in S : f[i] = c}
           G == {i \in S : g[i] = c}
<1>1. IsFiniteSet(R) /\ e \notin R /\ Cardinality(R) \in Nat
      /\ Cardinality(R \cup {e}) = Cardinality(R) + 1
  <2>1. IsFiniteSet(R)
    BY FS_Subset
  <2>2. e \notin R
    OBVIOUS
  <2> QED BY <2>1, <2>2, FS_AddElement, FS_CardinalityType
<1>2. F = IF f[e] = c THEN R \cup {e} ELSE R
  OBVIOUS
<1>3. G = IF g[e] = c THEN R \cup {e} ELSE R
  OBVIOUS
<1> HIDE DEF R, F, G
<1>4. Cardinality(F) = Cardinality(R) + Same(f[e], c)
  BY <1>1, <1>2 DEF Same
<1>5. Cardinality(G) = Cardinality(R) + Same(g[e], c)
  BY <1>1, <1>3 DEF Same
<1>6. Cardinality(G) = Cardinality(F) - Same(f[e], c) + Same(g[e], c)
  BY <1>1, <1>4, <1>5 DEF Same
<1> QED BY <1>6 DEF F, G, Times

Spawns(c) == Times(via, Threads, c)
Made(c) == Times(container_object, Targets, c)

ContainerCounted(c) ==
  container_refcnt[c] = One(c \in container_names) + Spawns(c) + Made(c)

ContainerInv ==
  /\ container_refcnt \in [Containers -> Int]
  /\ container_names \in SUBSET Containers
  /\ \A c \in Containers : ContainerCounted(c)

(* No container exists at first, and nothing refers to one.                  *)
LEMMA ContainerInvInit == PyInit => ContainerInv
<1> SUFFICES ASSUME PyInit, NEW c \in Containers PROVE ContainerCounted(c)
  BY DEF PyInit, ContainerInv
<1>1. {th \in Threads : via[th] = c} = {} /\ {t \in Targets : container_object[t] = c} = {}
  BY PythonAssumption DEF PyInit
<1> QED BY <1>1, FS_EmptySet DEF PyInit, ContainerCounted, Spawns, Made, Times, One

(* A thread enters or leaves a spawn.                                        *)
LEMMA SpawnsIs ==
  ASSUME PyShape, NEW th \in Threads, NEW x, via' = [via EXCEPT ![th] = x], NEW c
  PROVE  Spawns(c)' = Spawns(c) - Same(via[th], c) + Same(x, c)
<1>1. via'[th] = x /\ \A u \in Threads \ {th} : via'[u] = via[u]
  BY DEF PyShape
<1>2. Times(via', Threads, c) = Times(via, Threads, c) - Same(via[th], c) + Same(via'[th], c)
  <2>1. IsFiniteSet(Threads)
    BY PythonAssumption
  <2>2. ASSUME NEW f, NEW g, \A u \in Threads \ {th} : g[u] = f[u]
        PROVE  Times(g, Threads, c) = Times(f, Threads, c) - Same(f[th], c) + Same(g[th], c)
    BY <2>1, <2>2, CountExcept
  <2> QED BY <1>1, <2>2
<1> QED BY <1>1, <1>2 DEF Spawns

(* A target gets or loses its container.                                     *)
LEMMA MadeIs ==
  ASSUME PyShape, NEW t \in Targets, NEW x,
         container_object' = [container_object EXCEPT ![t] = x], NEW c
  PROVE  Made(c)' = Made(c) - Same(container_object[t], c) + Same(x, c)
<1>1. /\ container_object'[t] = x
      /\ \A u \in Targets \ {t} : container_object'[u] = container_object[u]
  BY DEF PyShape
<1>2. Times(container_object', Targets, c) =
        Times(container_object, Targets, c)
          - Same(container_object[t], c) + Same(container_object'[t], c)
  <2>1. IsFiniteSet(Targets)
    BY PythonAssumption
  <2>2. ASSUME NEW f, NEW g, \A u \in Targets \ {t} : g[u] = f[u]
        PROVE  Times(g, Targets, c) = Times(f, Targets, c) - Same(f[t], c) + Same(g[t], c)
    BY <2>1, <2>2, CountExcept
  <2> QED BY <1>1, <2>2
<1> QED BY <1>1, <1>2 DEF Made

(* The references counted are finitely many.                                 *)
LEMMA CountsType == ASSUME NEW c PROVE Spawns(c) \in Nat /\ Made(c) \in Nat
<1>1. IsFiniteSet({th \in Threads : via[th] = c}) /\ IsFiniteSet({t \in Targets : container_object[t] = c})
  BY PythonAssumption, FS_Subset
<1> QED BY <1>1, FS_CardinalityType DEF Spawns, Made, Times

(* A step that touches none of these keeps the invariant.                    *)
LEMMA ContainerKept ==
  ASSUME ContainerInv, UNCHANGED <<container_refcnt, container_names, via, container_object>>
  PROVE  ContainerInv'
  BY DEF ContainerInv, ContainerCounted, Spawns, Made

(* The target gives its reference to the container back.                     *)
LEMMA ReclaimedFollows ==
  ASSUME PyShape, ContainerInv, NEW t \in Targets, Reclaimed(t), UNCHANGED <<via, container_names>>
  PROVE  ContainerInv'
<1>1. CASE container_object[t] = NoContainer
  <2>1. container_object' = container_object /\ container_refcnt' = container_refcnt
    BY <1>1 DEF Reclaimed, ContainerReleased, PyShape
  <2> QED BY <2>1, ContainerKept
<1>2. CASE container_object[t] # NoContainer
  <2>1. PICK d \in Containers : d = container_object[t]
    BY <1>2 DEF PyShape
  <2>2. /\ container_refcnt' = [container_refcnt EXCEPT ![d] = @ - 1]
        /\ container_object' = [container_object EXCEPT ![t] = NoContainer]
    BY <1>2, <2>1 DEF Reclaimed, ContainerReleased
  <2>3. ASSUME NEW c \in Containers PROVE ContainerCounted(c)'
    <3>1. Made(c)' = Made(c) - Same(d, c) + Same(NoContainer, c) /\ Spawns(c)' = Spawns(c)
      BY <2>1, <2>2, MadeIs DEF Spawns
    <3>2. container_refcnt'[c] = container_refcnt[c] - Same(d, c)
      BY <2>2 DEF ContainerInv, Same
    <3> QED BY <3>1, <3>2, CountsType, PythonAssumption DEF ContainerInv, ContainerCounted, One, Same
  <2> QED BY <2>2, <2>3 DEF ContainerInv
<1> QED BY <1>1, <1>2

(* A method returns, from spawn if it was in it.                             *)
LEMMA LeavesSpawn ==
  ASSUME PyShape, ContainerInv, NEW th \in Threads, NEW t \in Targets, via[th] \in Containers,
         via' = [via EXCEPT ![th] = NoContainer], container_names' = container_names,
         \/ /\ container_object' = container_object
            /\ container_refcnt' = [container_refcnt EXCEPT ![via[th]] = @ - 1]
         \/ /\ container_object[t] = NoContainer
            /\ container_object' = [container_object EXCEPT ![t] = via[th]]
            /\ container_refcnt' = container_refcnt
  PROVE  ContainerInv'
<1>0. PICK d \in Containers : d = via[th]
  OBVIOUS
<1>1. container_refcnt' \in [Containers -> Int]
  BY DEF ContainerInv
<1>2. ASSUME NEW c \in Containers PROVE ContainerCounted(c)'
  <2>1. Spawns(c)' = Spawns(c) - Same(d, c)
    <3>1. Spawns(c)' = Spawns(c) - Same(d, c) + Same(NoContainer, c)
      BY <1>0, SpawnsIs
    <3> QED BY <3>1, CountsType, PythonAssumption DEF Same
  <2>2. CASE /\ container_object' = container_object
             /\ container_refcnt' = [container_refcnt EXCEPT ![via[th]] = @ - 1]
    <3>1. Made(c)' = Made(c) /\ container_refcnt'[c] = container_refcnt[c] - Same(d, c)
      BY <1>0, <2>2 DEF Made, ContainerInv, Same
    <3> QED BY <2>1, <3>1, CountsType DEF ContainerInv, ContainerCounted, One, Same
  <2>3. CASE /\ container_object[t] = NoContainer
             /\ container_object' = [container_object EXCEPT ![t] = via[th]]
             /\ container_refcnt' = container_refcnt
    <3>1. Made(c)' = Made(c) + Same(d, c)
      <4>1. Made(c)' = Made(c) - Same(container_object[t], c) + Same(via[th], c)
        BY <2>3, MadeIs
      <4> QED BY <1>0, <2>3, <4>1, CountsType, PythonAssumption DEF Same
    <3>2. container_refcnt'[c] = One(c \in container_names) + Spawns(c) + Made(c)
      BY <2>3 DEF ContainerInv, ContainerCounted
    <3> QED BY <2>1, <3>1, <3>2, CountsType DEF ContainerCounted, One, Same
  <2> QED BY <2>2, <2>3
<1> QED BY <1>1, <1>2 DEF ContainerInv

(* Every method that takes or gives a reference to a container counts it.    *)
LEMMA ContainerStep ==
  ASSUME PyDelivery, ContainerInv, [PyNext]_all_vars PROVE ContainerInv'
<1> USE DEF target_objects, container_objects, calls, py_vars
<1>0. PyShape /\ Places /\ PyInv /\ Delivery
  BY DEF PyDelivery, PyInv
<1>1. ASSUME NEW th \in Threads, NEW t \in Targets, NEW k, ReturnDropping(th, t, k),
             via[th] = NoContainer,
             UNCHANGED <<container_refcnt, container_names, container_object>>
      PROVE  ContainerInv'
  <2>1. via' = via
    BY <1>0, <1>1 DEF ReturnDropping, PyShape
  <2> QED BY <1>1, <2>1, ContainerKept
<1>2. ASSUME NEW t \in Targets, NewObject(t) PROVE container_object' = container_object
  BY <1>0, <1>2 DEF NewObject, PyInv, Sound, ObjectOf, PyShape
<1>3. ASSUME NEW th \in Threads, NEW t \in Targets,
             NewTarget(th, t) \/ StartBegin(th, t) \/ WaitBegin(th, t)
      PROVE  ContainerInv'
  BY <1>2, <1>3, ContainerKept DEF NewTarget, StartBegin, WaitBegin
<1>4. ASSUME NEW th \in Threads, NEW t \in Targets, DropTarget(th, t) PROVE ContainerInv'
  BY <1>0, <1>1, <1>4, InPython DEF DropTarget
<1>5. ASSUME NEW th \in Threads, NEW d \in Containers, NewContainer(th, d) \/ DropContainer(th, d)
      PROVE  ContainerInv'
  <2>1. container_refcnt' \in [Containers -> Int] /\ container_names' \in SUBSET Containers
    BY <1>5 DEF NewContainer, DropContainer, ContainerInv
  <2>2. ASSUME NEW c \in Containers PROVE ContainerCounted(c)'
    <3>1. Spawns(c)' = Spawns(c) /\ Made(c)' = Made(c)
      BY <1>5 DEF NewContainer, DropContainer, Spawns, Made
    <3>2. container_refcnt[c] = One(c \in container_names) + Spawns(c) + Made(c)
      BY DEF ContainerInv, ContainerCounted
    <3>3. CASE NewContainer(th, d)
      <4>1. d \notin container_names
        <5>1. container_refcnt[d] = One(d \in container_names) + Spawns(d) + Made(d)
              /\ container_refcnt[d] = 0
          BY <3>3 DEF ContainerInv, ContainerCounted, NewContainer
        <5> QED BY <5>1, CountsType DEF One
      <4> QED BY <3>1, <3>2, <3>3, <4>1, CountsType
              DEF NewContainer, ContainerInv, ContainerCounted, One
    <3>4. CASE DropContainer(th, d)
      BY <3>1, <3>2, <3>4, CountsType DEF DropContainer, ContainerInv, ContainerCounted, One
    <3> QED BY <1>5, <3>3, <3>4
  <2> QED BY <2>1, <2>2 DEF ContainerInv
<1>6. ASSUME NEW th \in Threads, NEW t \in Targets, NEW d \in Containers, SpawnBegin(th, d, t)
      PROVE  ContainerInv'
  <2>1. /\ via[th] = NoContainer /\ via' = [via EXCEPT ![th] = d]
        /\ container_refcnt' = [container_refcnt EXCEPT ![d] = @ + 1]
        /\ container_names' = container_names /\ container_object' = container_object
    BY <1>0, <1>2, <1>6, InPython DEF SpawnBegin
  <2>2. ASSUME NEW c \in Containers PROVE ContainerCounted(c)'
    <3>1. Spawns(c)' = Spawns(c) + Same(d, c)
      <4>1. Spawns(c)' = Spawns(c) - Same(NoContainer, c) + Same(d, c)
        BY <1>0, <2>1, SpawnsIs
      <4> QED BY <4>1, CountsType, PythonAssumption DEF Same
    <3>2. Made(c)' = Made(c) /\ container_refcnt'[c] = container_refcnt[c] + Same(d, c)
      BY <2>1 DEF Made, ContainerInv, Same
    <3>3. container_refcnt[c] = One(c \in container_names) + Spawns(c) + Made(c)
      BY DEF ContainerInv, ContainerCounted
    <3> QED BY <2>1, <3>1, <3>2, <3>3, CountsType DEF ContainerCounted, One, Same
  <2> QED BY <2>1, <2>2 DEF ContainerInv
<1>7. ASSUME NEW th \in Threads, Destroy(th) \/ SpawnLibrary(th) \/ StartLibrary(th)
      PROVE  ContainerInv'
  BY <1>7, ContainerKept DEF Destroy, SpawnLibrary, StartLibrary
<1>8. ASSUME NEW th \in Threads, Reclaim(th) PROVE ContainerInv'
  BY <1>0, <1>8, OnItsOwn, ReclaimedFollows DEF Reclaim
<1>9. ASSUME NEW th \in Threads, SpawnEnd(th) \/ SpawnRefused(th) PROVE ContainerInv'
  <2>1. PICK t \in Targets : t = self[th]
    BY <1>0, <1>9, OnItsOwn DEF SpawnEnd, SpawnRefused
  <2>2. /\ via[th] \in Containers /\ container_object[t] = NoContainer
        /\ via' = [via EXCEPT ![th] = NoContainer] /\ container_names' = container_names
    BY <1>0, <1>9, <2>1 DEF SpawnEnd, SpawnRefused, ReturnDropping, Places, Place, PyShape
  <2>3. \/ /\ container_object' = container_object
           /\ container_refcnt' = [container_refcnt EXCEPT ![via[th]] = @ - 1]
        \/ /\ container_object' = [container_object EXCEPT ![t] = via[th]]
           /\ container_refcnt' = container_refcnt
    BY <1>9, <2>1 DEF SpawnEnd, SpawnRefused, ReferenceKept
  <2> QED BY <1>0, <2>2, <2>3, LeavesSpawn
<1>10. ASSUME NEW th \in Threads, StartEnd(th) \/ WaitReturns(th) PROVE ContainerInv'
  <2>1. via[th] = NoContainer /\ self[th] \in Targets
    BY <1>0, <1>10, OnItsOwn DEF StartEnd, WaitReturns, Place
  <2>2. PICK k : ReturnDropping(th, self[th], k)
    BY <1>10 DEF StartEnd, WaitReturns
  <2> QED BY <1>1, <1>10, <2>1, <2>2 DEF StartEnd, WaitReturns
<1>11. ASSUME PyMessageThread PROVE ContainerInv'
  <2>1. CASE ReclaimInside
    <3>1. Entry.key \in Targets
      BY <1>0, <2>1, EntryFinds, LibraryShape DEF ReclaimInside, ReturnDestroyed
    <3> QED BY <1>0, <2>1, <3>1, ReclaimedFollows DEF ReclaimInside
  <2>2. CASE ~ReclaimInside
    BY <1>11, <2>2, ContainerKept DEF PyMessageThread, PyDispatch, EnsureGil, CallbackReturns,
       OnExitAll, py_unchanged
  <2> QED BY <2>1, <2>2
<1>12. ASSUME NEW th \in Threads \cup {Dispatcher}, NEW t \in Targets, Terminate(th, t)
       PROVE  ContainerInv'
  BY <1>12, ContainerKept DEF Terminate
<1>13. ASSUME NEW th \in Threads, Program(th) PROVE ContainerInv'
  BY <1>3, <1>4, <1>5, <1>6, <1>12, <1>13 DEF Program
<1>14. ASSUME NEW th \in Threads, InCall(th) \/ WaitReturns(th) PROVE ContainerInv'
  BY <1>7, <1>8, <1>9, <1>10, <1>14 DEF InCall, WaitEnd
<1>15. CASE UNCHANGED py_vars
  BY <1>15, ContainerKept
<1> QED BY <1>11, <1>12, <1>13, <1>14, <1>15 DEF PyNext, PyAtRest, all_vars

-----------------------------------------------------------------------------
(* While a callback is made its object has a reference that is nobody       *)
(* else's to drop: the comment at target.cc:40, "the event dispatcher owns  *)
(* the target object", is true of every program.                            *)
THEOREM DispatcherOwns ==
  "resume" \notin Faults /\ ~SharedTargets => (PySpec => []DispatcherOwnsTarget)
<1> SUFFICES ASSUME "resume" \notin Faults, ~SharedTargets PROVE PySpec => []DispatcherOwnsTarget
  OBVIOUS
<1> QED BY PyOwns, PyDeliveryInvariant, PTL

(* A target that has a job keeps it: "target already in use" refuses every  *)
(* second spawn (binding_python/container.cc:296-300).                      *)
THEOREM OneSpawn ==
  "resume" \notin Faults /\ ~SharedTargets => (PySpec => SpawnedOnce)
<1> SUFFICES ASSUME "resume" \notin Faults, ~SharedTargets PROVE PySpec => SpawnedOnce
  OBVIOUS
<1>1. ASSUME PyDelivery, [PyNext]_all_vars, NEW t \in Targets, life[t] = "live", job[t] # NoJob
      PROVE  job'[t] = job[t]
  <2>1. ASSUME NEW th \in Threads, pc[th] = "spawn", self[th] = t PROVE FALSE
    BY <1>1, <2>1 DEF PyDelivery, PyInv, Places, Place
  <2> QED BY <1>1, <2>1, GetsAndDies DEF PyDelivery
<1>2. PyDelivery /\ [PyNext]_all_vars =>
        [\A t \in Targets : life[t] = "live" /\ job[t] # NoJob => job'[t] = job[t]]_all_vars
  BY <1>1
<1> QED BY <1>2, PyDeliveryInvariant, PTL DEF PySpec, SpawnedOnce

(* Python programs are careful clients of the library without knowing it.   *)
THEOREM PythonIsCareful ==
  "resume" \notin Faults /\ ~SharedTargets => (PySpec => KeepsDiscipline)
<1> SUFFICES ASSUME "resume" \notin Faults, ~SharedTargets PROVE PySpec => KeepsDiscipline
  OBVIOUS
<1>1. PyDelivery /\ [PyNext]_all_vars => [Disciplined!Next]_vars
  BY PyDeliveryStep, DisciplinedStep DEF PyDelivery
<1>2. PyInit => Disciplined!Init
  BY DisciplinedInit DEF PyInit
<1> QED BY <1>1, <1>2, PyDeliveryInvariant, PTL DEF PySpec, KeepsDiscipline

(* So they miss no notice, hear of no other target's job, are called on     *)
(* live objects only, and are told a story that ends with OnExitAll.        *)
THEOREM PythonHearsAll ==
  "resume" \notin Faults /\ ~SharedTargets =>
    (PySpec => [](NothingLost /\ NoCrossDelivery /\ CallbackOnLiveObject) /\ ImplementsStream)
<1> SUFFICES ASSUME "resume" \notin Faults, ~SharedTargets
             PROVE  PySpec => [](NothingLost /\ NoCrossDelivery /\ CallbackOnLiveObject) /\ ImplementsStream
  OBVIOUS
<1>1. PyDelivery => NothingLost /\ NoCrossDelivery /\ CallbackOnLiveObject
  BY LosesNothing, CallsOwn, CallsLive DEF PyDelivery
<1>2. PyDelivery /\ [PyNext]_all_vars => [Stream!Next]_delivered
  BY PyDeliveryStep, StreamStep DEF PyDelivery
<1>3. PyInit => Stream!Init
  BY DEF PyInit, Init, Stream!Init
<1> QED BY <1>1, <1>2, <1>3, PyDeliveryInvariant, PTL DEF PySpec, ImplementsStream, Stream!Spec

(* ContainerInv holds always.                                                *)
LEMMA ContainerInvariant ==
  ASSUME "resume" \notin Faults, ~SharedTargets PROVE PySpec => []ContainerInv
<1>1. PyDelivery /\ ContainerInv /\ [PyNext]_all_vars => ContainerInv'
  BY ContainerStep
<1> QED BY <1>1, ContainerInvInit, PyDeliveryInvariant, PTL DEF PySpec

(* What a count says is what refers to the object, whatever a start or a    *)
(* spawn came to: no reference to a target or to a container is dropped     *)
(* twice and none is kept (binding_python/target.cc:29-53,                  *)
(* container.cc:287-345).                                                   *)
THEOREM ReferencesCounted ==
  "resume" \notin Faults /\ ~SharedTargets => (PySpec => []RefsAreCounted)
<1> SUFFICES ASSUME "resume" \notin Faults, ~SharedTargets PROVE PySpec => []RefsAreCounted
  OBVIOUS
<1>1. ASSUME ContainerInv, NEW c \in Containers
      PROVE  container_refcnt[c] = (IF c \in container_names THEN 1 ELSE 0)
               + Cardinality({th \in Threads : via[th] = c})
               + Cardinality({t \in Targets : container_object[t] = c})
  BY <1>1 DEF ContainerInv, ContainerCounted, Spawns, Made, Times, One
<1>2. PyDelivery /\ ContainerInv => RefsAreCounted
  BY <1>1, PyCounts DEF PyDelivery, RefsAreCounted
<1> QED BY <1>2, PyDeliveryInvariant, ContainerInvariant, PTL

(* Hence the container that made a target's job outlives the target, as the *)
(* comment at binding_python/container.cc:340 asks.                         *)
THEOREM ContainerOutlives ==
  "resume" \notin Faults /\ ~SharedTargets => (PySpec => []ContainerOutlivesTarget)
<1> SUFFICES ASSUME "resume" \notin Faults, ~SharedTargets
             PROVE  PySpec => []ContainerOutlivesTarget
  OBVIOUS
<1>1. ASSUME PyDelivery, ContainerInv PROVE ContainerOutlivesTarget
  <2> SUFFICES ASSUME NEW t \in Targets, life[t] # "free", job[t] # NoJob
               PROVE  \E c \in Containers :
                        /\ container_refcnt[c] > 0
                        /\ \/ container_object[t] = c
                           \/ \E th \in Threads : self[th] = t /\ via[th] = c
    BY DEF ContainerOutlivesTarget
  <2>0. PyInv /\ PyShape /\ Places /\ HasContainer(t)
    BY <1>1 DEF PyDelivery, PyInv, Sound
  <2>1. ASSUME NEW c \in Containers, NEW S, IsFiniteSet(S), NEW f, NEW e \in S, f[e] = c
        PROVE  Times(f, S, c) # 0
    <3>1. IsFiniteSet({i \in S : f[i] = c}) /\ {i \in S : f[i] = c} # {}
      BY <2>1, FS_Subset
    <3> QED BY <3>1, FS_EmptySet DEF Times
  <2>2. ASSUME NEW c \in Containers, Spawns(c) # 0 \/ Made(c) # 0 PROVE container_refcnt[c] > 0
    BY <1>1, <2>2, CountsType DEF ContainerInv, ContainerCounted, One
  <2>3. CASE container_object[t] # NoContainer
    <3>1. PICK c \in Containers : container_object[t] = c
      BY <2>0, <2>3 DEF PyShape
    <3>2. Made(c) # 0
      BY <2>1, <3>1, PythonAssumption DEF Made
    <3> QED BY <2>2, <3>1, <3>2
  <2>4. ASSUME NEW th \in Threads, self[th] = t, pc[th] = "spawned"
        PROVE  \E c \in Containers : via[th] = c /\ container_refcnt[c] > 0
    <3>1. PICK c \in Containers : via[th] = c
      BY <2>0, <2>4 DEF PyShape, Places, Place
    <3>2. Spawns(c) # 0
      BY <2>1, <3>1, PythonAssumption DEF Spawns
    <3> QED BY <2>2, <3>1, <3>2
  <2> QED BY <2>0, <2>3, <2>4 DEF HasContainer
<1> QED BY <1>1, ContainerInvariant, PyDeliveryInvariant, PTL

(* Types: counts never fall below zero, for one.                            *)
THEOREM PyTypes ==
  "resume" \notin Faults /\ ~SharedTargets => (PySpec => []PyTypeOK)
<1> SUFFICES ASSUME "resume" \notin Faults, ~SharedTargets PROVE PySpec => []PyTypeOK
  OBVIOUS
<1>1. ASSUME PyDelivery, ContainerInv PROVE PyTypeOK
  <2>1. TypeOK /\ PyShape /\ gil \in Threads \cup {Dispatcher, NoThread}
    BY <1>1 DEF PyDelivery, PyInv, Calling, Delivery, Base
  <2>2. ASSUME NEW t \in Targets PROVE refcnt[t] \in Nat /\ (object[t] = "none" => life[t] = "free")
    BY <1>1 DEF PyDelivery, PyInv, Sound, ObjectOf, Counted, One
  <2>3. ASSUME NEW c \in Containers PROVE container_refcnt[c] \in Nat
    BY <1>1, CountsType DEF ContainerInv, ContainerCounted, One
  <2>4. refcnt \in [Targets -> Nat] /\ container_refcnt \in [Containers -> Nat]
    BY <1>1, <2>1, <2>2, <2>3 DEF PyShape, ContainerInv
  <2> QED BY <1>1, <2>1, <2>2, <2>4 DEF PyTypeOK, PyShape, ContainerInv
<1> QED BY <1>1, ContainerInvariant, PyDeliveryInvariant, PTL
=============================================================================
