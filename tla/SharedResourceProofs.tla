------------------------ MODULE SharedResourceProofs ------------------------
(***************************************************************************)
(* Theorems of SharedResource, for any number of calls and addresses.      *)
(* None of the invariants of SharedResource is inductive; Inv adds who     *)
(* owns each object before it is installed or deleted, and ties the lock,  *)
(* the thread_created flag and the message thread to g_shared.             *)
(***************************************************************************)
EXTENDS SharedResource, TLAPS

InLock(c) == pc[c] \in {"recheck", "mark", "leave", "bail"}

(* The object c alone knows: allocated, not yet installed or to be deleted. *)
Owns(c, r) == \/ pc[c] = "publish" /\ sr[c] = r
              \/ pc[c] = "delete" /\ loser[c] = r

(* An object of one call is open, and neither shared nor of another call. *)
OwnedIsPrivate ==
  \A c \in Calls : \A r \in Null : Owns(c, r) =>
    /\ r \in Resources
    /\ r \in completion_port
    /\ r # g_shared
    /\ \A d \in Calls : Owns(d, r) => d = c

(* Who has seen that an object is installed works on that object. *)
InstalledIsUsed ==
  /\ g_shared # NoResource => g_shared \in completion_port
  /\ \A c \in Calls : Using(c) \/ pc[c] = "delete" =>
       sr[c] = g_shared /\ g_shared # NoResource

(* Only the shared object is ever locked or marked. *)
OnlySharedIsMarked ==
  /\ \A r \in thread_created : r = g_shared
  /\ \A r \in Resources : crit_sec[r] # NoCall => r = g_shared

LockHolder ==
  \A c \in Calls : InLock(c) => crit_sec[sr[c]] = c

(* The flag follows the thread, but for the call between the two. *)
FlagFollowsThread ==
  /\ \A m, n \in message_thread : m = n
  /\ \A m \in message_thread : /\ m[1] = g_shared
                               /\ \/ g_shared \in thread_created
                                  \/ \E c \in Calls : pc[c] = "mark"
  /\ thread_created # {} => message_thread # {}
  /\ \A c \in Calls :
       /\ pc[c] = "mark" => message_thread # {} /\ sr[c] \notin thread_created
       /\ pc[c] \in {"leave", "served"} => sr[c] \in thread_created

Inv == /\ TypeOK
       /\ OwnedIsPrivate
       /\ InstalledIsUsed
       /\ OnlySharedIsMarked
       /\ LockHolder
       /\ FlagFollowsThread
       /\ NoPortLeaked

-----------------------------------------------------------------------------
(* Inv holds initially. *)
LEMMA InvInit == Init => Inv
  BY DEF Init, Inv, TypeOK, OwnedIsPrivate, InstalledIsUsed, OnlySharedIsMarked,
         LockHolder, FlagFollowsThread, NoPortLeaked, Owns, Using, InLock, Null,
         Locations

(* A step of a call preserves Inv. *)
LEMMA InvStep == ASSUME Inv, NEW c \in Calls, Step(c) PROVE Inv'
<1> USE SentinelAssumption DEF Inv, TypeOK, Goto, Null
<1>1. CASE LoadGlobal(c)
  <2>1. TypeOK'
    BY <1>1 DEF LoadGlobal, Locations
  <2>2. OwnedIsPrivate' /\ InstalledIsUsed' /\ NoPortLeaked'
    BY <1>1 DEF LoadGlobal, OwnedIsPrivate, InstalledIsUsed, NoPortLeaked,
                Owns, Using
  <2>3. OnlySharedIsMarked' /\ LockHolder'
    BY <1>1 DEF LoadGlobal, OnlySharedIsMarked, LockHolder, InstalledIsUsed,
                InLock, Using
  <2>4. FlagFollowsThread'
    BY <1>1 DEF LoadGlobal, FlagFollowsThread, OnlySharedIsMarked,
                InstalledIsUsed, LockHolder, InLock, Using
  <2> QED BY <2>1, <2>2, <2>3, <2>4
<1>2. CASE NewResource(c)
  <2>1. TypeOK'
    BY <1>2 DEF NewResource, Locations
  <2>2. OwnedIsPrivate' /\ InstalledIsUsed' /\ NoPortLeaked'
    BY <1>2 DEF NewResource, OwnedIsPrivate, InstalledIsUsed, NoPortLeaked,
                Owns, Using
  <2>3. OnlySharedIsMarked' /\ LockHolder'
    BY <1>2 DEF NewResource, OnlySharedIsMarked, LockHolder, InstalledIsUsed,
                InLock, Using
  <2>4. FlagFollowsThread'
    BY <1>2 DEF NewResource, FlagFollowsThread, OnlySharedIsMarked,
                InstalledIsUsed, LockHolder, InLock, Using
  <2> QED BY <2>1, <2>2, <2>3, <2>4
<1>3. CASE Publish(c)
  <2>1. TypeOK'
    BY <1>3 DEF Publish, MayInstall, Original, Locations
  <2>2. OwnedIsPrivate' /\ InstalledIsUsed' /\ NoPortLeaked'
    BY <1>3 DEF Publish, MayInstall, Original, OwnedIsPrivate,
                InstalledIsUsed, NoPortLeaked, Owns, Using
  <2>3. OnlySharedIsMarked' /\ LockHolder'
    BY <1>3 DEF Publish, MayInstall, Original, OnlySharedIsMarked, LockHolder,
                InstalledIsUsed, InLock, Using
  <2>4. FlagFollowsThread'
    BY <1>3 DEF Publish, MayInstall, Original, FlagFollowsThread,
                OnlySharedIsMarked, InstalledIsUsed, LockHolder, InLock, Using
  <2> QED BY <2>1, <2>2, <2>3, <2>4
<1>4. CASE DeleteLoser(c)
  <2>1. TypeOK'
    BY <1>4 DEF DeleteLoser, ToDelete, ClosedWith, Locations
  <2>2. OwnedIsPrivate' /\ InstalledIsUsed' /\ NoPortLeaked'
    BY <1>4 DEF DeleteLoser, ToDelete, ClosedWith, OwnedIsPrivate,
                InstalledIsUsed, NoPortLeaked, Owns, Using
  <2>3. OnlySharedIsMarked' /\ LockHolder'
    BY <1>4 DEF DeleteLoser, ToDelete, ClosedWith, OnlySharedIsMarked,
                LockHolder, InstalledIsUsed, InLock, Using
  <2>4. FlagFollowsThread'
    BY <1>4 DEF DeleteLoser, ToDelete, ClosedWith, FlagFollowsThread,
                OnlySharedIsMarked, InstalledIsUsed, LockHolder, InLock, Using
  <2> QED BY <2>1, <2>2, <2>3, <2>4
<1>5. CASE CheckThread(c)
  <2>1. TypeOK'
    BY <1>5 DEF CheckThread, ThreadCreated, Locations
  <2>2. OwnedIsPrivate' /\ InstalledIsUsed' /\ NoPortLeaked'
    BY <1>5 DEF CheckThread, ThreadCreated, OwnedIsPrivate, InstalledIsUsed,
                NoPortLeaked, Owns, Using
  <2>3. OnlySharedIsMarked' /\ LockHolder'
    BY <1>5 DEF CheckThread, ThreadCreated, OnlySharedIsMarked, LockHolder,
                InstalledIsUsed, InLock, Using
  <2>4. FlagFollowsThread'
    BY <1>5 DEF CheckThread, ThreadCreated, FlagFollowsThread,
                OnlySharedIsMarked, InstalledIsUsed, LockHolder, InLock, Using
  <2> QED BY <2>1, <2>2, <2>3, <2>4
<1>6. CASE EnterLock(c)
  <2>1. TypeOK'
    BY <1>6 DEF EnterLock, Locations
  <2>2. OwnedIsPrivate' /\ InstalledIsUsed' /\ NoPortLeaked'
    BY <1>6 DEF EnterLock, OwnedIsPrivate, InstalledIsUsed, NoPortLeaked,
                Owns, Using
  <2>3. OnlySharedIsMarked' /\ LockHolder'
    BY <1>6 DEF EnterLock, OnlySharedIsMarked, LockHolder, InstalledIsUsed,
                InLock, Using
  <2>4. FlagFollowsThread'
    BY <1>6 DEF EnterLock, FlagFollowsThread, OnlySharedIsMarked,
                InstalledIsUsed, LockHolder, InLock, Using
  <2> QED BY <2>1, <2>2, <2>3, <2>4
<1>7. CASE RecheckThread(c)
  <2>1. TypeOK'
    BY <1>7 DEF RecheckThread, StillNeeded, OnCreateFailure, Locations,
                InstalledIsUsed, Using
  <2>2. OwnedIsPrivate' /\ InstalledIsUsed' /\ NoPortLeaked'
    BY <1>7 DEF RecheckThread, StillNeeded, OnCreateFailure, OwnedIsPrivate,
                InstalledIsUsed, NoPortLeaked, Owns, Using
  <2>3. OnlySharedIsMarked' /\ LockHolder'
    BY <1>7 DEF RecheckThread, StillNeeded, OnCreateFailure,
                OnlySharedIsMarked, LockHolder, InstalledIsUsed, InLock, Using
  <2>4. FlagFollowsThread'
    <3>1. ASSUME sr[c] \notin thread_created PROVE message_thread = {}
      BY <1>7, <3>1 DEF RecheckThread, FlagFollowsThread, InstalledIsUsed,
                        LockHolder, InLock, Using
    <3>2. CASE pc'[c] = "mark"
      <4>1. message_thread' = {<<g_shared, c>>} /\ sr[c] \notin thread_created
        BY <1>7, <3>1, <3>2 DEF RecheckThread, StillNeeded, OnCreateFailure,
                                InstalledIsUsed, Using
      <4> QED BY <1>7, <3>2, <4>1 DEF RecheckThread, FlagFollowsThread,
                                      OnlySharedIsMarked, InstalledIsUsed, Using
    <3>3. CASE pc'[c] # "mark"
      BY <1>7, <3>3 DEF RecheckThread, StillNeeded, OnCreateFailure,
                        FlagFollowsThread
    <3> QED BY <3>2, <3>3
  <2> QED BY <2>1, <2>2, <2>3, <2>4
<1>8. CASE MarkCreated(c)
  <2>1. TypeOK'
    BY <1>8 DEF MarkCreated, Locations, InstalledIsUsed, Using
  <2>2. OwnedIsPrivate' /\ InstalledIsUsed' /\ NoPortLeaked'
    BY <1>8 DEF MarkCreated, OwnedIsPrivate, InstalledIsUsed, NoPortLeaked,
                Owns, Using
  <2>3. OnlySharedIsMarked' /\ LockHolder'
    BY <1>8 DEF MarkCreated, OnlySharedIsMarked, LockHolder, InstalledIsUsed,
                InLock, Using
  <2>4. FlagFollowsThread'
    BY <1>8 DEF MarkCreated, FlagFollowsThread, OnlySharedIsMarked,
                InstalledIsUsed, LockHolder, InLock, Using
  <2> QED BY <2>1, <2>2, <2>3, <2>4
<1>9. CASE LeaveLock(c)
  <2>1. TypeOK'
    BY <1>9 DEF LeaveLock, Released, Locations
  <2>2. OwnedIsPrivate' /\ InstalledIsUsed' /\ NoPortLeaked'
    BY <1>9 DEF LeaveLock, Released, OwnedIsPrivate, InstalledIsUsed,
                NoPortLeaked, Owns, Using
  <2>3. OnlySharedIsMarked' /\ LockHolder'
    BY <1>9 DEF LeaveLock, Released, OnlySharedIsMarked, LockHolder,
                InstalledIsUsed, InLock, Using
  <2>4. FlagFollowsThread'
    BY <1>9 DEF LeaveLock, Released, FlagFollowsThread, OnlySharedIsMarked,
                InstalledIsUsed, LockHolder, InLock, Using
  <2> QED BY <2>1, <2>2, <2>3, <2>4
<1> QED BY <1>1, <1>2, <1>3, <1>4, <1>5, <1>6, <1>7, <1>8, <1>9 DEF Step

(* Inv is an invariant of SharedResource. *)
LEMMA InvAlways == Spec => []Inv
<1>1. Inv /\ [Next]_vars => Inv'
  <2> SUFFICES ASSUME Inv, [Next]_vars PROVE Inv'
    OBVIOUS
  <2>1. CASE UNCHANGED vars
    BY <2>1 DEF Inv, TypeOK, OwnedIsPrivate, InstalledIsUsed, OnlySharedIsMarked,
            LockHolder, FlagFollowsThread, NoPortLeaked, Owns, Using, InLock, vars
  <2>2. CASE \E c \in Calls : Step(c)
    BY <2>2, InvStep
  <2> QED BY <2>1, <2>2 DEF Next, AllReturned
<1> QED BY InvInit, <1>1, PTL DEF Spec

-----------------------------------------------------------------------------
(* The memory of every variable stays in its type, and an open port belongs *)
(* to an allocated object.                                                  *)
THEOREM TypeCorrect == Spec => []TypeOK
<1>1. Inv => TypeOK BY DEF Inv
<1> QED BY InvAlways, <1>1, PTL

(* No call works on a deleted object or on a closed port, whoever wins the *)
(* race of InitJobObjectSharedResource.                                    *)
THEOREM SharedAlive == Spec => []SharedIsAlive
<1>1. Inv => SharedIsAlive
  BY DEF Inv, TypeOK, InstalledIsUsed, SharedIsAlive, Using
<1> QED BY InvAlways, <1>1, PTL

(* GuardCompletionPortThread creates one message thread, on g_shared, and   *)
(* who returns success has it draining its port.                           *)
THEOREM OneThread == Spec => []OneMessageThread
<1>1. Inv => \A m, n \in message_thread : m = n /\ m[1] = g_shared
  BY DEF Inv, FlagFollowsThread
<1>2. ASSUME Inv, NEW c \in Calls, pc[c] = "served"
      PROVE  \E d \in Calls : <<sr[c], d>> \in message_thread
  <2>1. sr[c] = g_shared /\ sr[c] \in thread_created
    BY <1>2 DEF Inv, InstalledIsUsed, FlagFollowsThread, Using
  <2>2. PICK m \in message_thread : m[1] = g_shared
    BY <1>2, <2>1 DEF Inv, FlagFollowsThread
  <2>3. m \in Resources \X Calls
    BY <1>2, <2>2 DEF Inv, TypeOK
  <2> QED BY <2>1, <2>2, <2>3
<1>3. Inv => OneMessageThread
  BY <1>1, <1>2 DEF OneMessageThread
<1> QED BY InvAlways, <1>3, PTL

(* No race leaves a completion port open that nobody will close. *)
THEOREM PortsAccounted == Spec => []NoPortLeaked
<1>1. Inv => NoPortLeaked BY DEF Inv
<1> QED BY InvAlways, <1>1, PTL

-----------------------------------------------------------------------------
(* What a step of a call may do to the three variables of the service. *)
LEMMA GlobalStep ==
  ASSUME Inv, NEW c \in Calls, Step(c)
  PROVE  /\ g_shared # NoResource => g_shared' = g_shared
         /\ g_shared \in thread_created => g_shared \in thread_created'
<1> USE DEF Inv, TypeOK, Null
<1>1. CASE NewResource(c)
  BY <1>1, SentinelAssumption DEF NewResource, OnlySharedIsMarked, InstalledIsUsed
<1>2. CASE Publish(c)
  BY <1>2 DEF Publish, MayInstall
<1>3. CASE \/ LoadGlobal(c) \/ DeleteLoser(c) \/ CheckThread(c) \/ EnterLock(c)
           \/ RecheckThread(c) \/ MarkCreated(c) \/ LeaveLock(c)
  BY <1>3 DEF LoadGlobal, DeleteLoser, CheckThread, EnterLock, RecheckThread,
              MarkCreated, LeaveLock
<1> QED BY <1>1, <1>2, <1>3 DEF Step

(* Once installed, g_shared is never replaced and its thread never forgotten. *)
THEOREM GlobalStable == Spec => GlobalIsStable
<1>1. Inv /\ [Next]_vars =>
        [g_shared # NoResource =>
           /\ g_shared' = g_shared
           /\ g_shared \in thread_created => g_shared \in thread_created']_vars
  BY GlobalStep, SentinelAssumption DEF Next, AllReturned
<1> QED BY InvAlways, <1>1, PTL DEF Spec, GlobalIsStable

-----------------------------------------------------------------------------
(* SharedResource implements CompletionService. *)
Answers == [c \in Calls |-> AnswerOf(c)]

(* The answers change only where a call returns. *)
LEMMA SilentStep ==
  ASSUME Inv, NEW c \in Calls, NEW to \in Locations,
         pc[c] \notin Returned, to \notin Returned,
         pc' = [pc EXCEPT ![c] = to],
         \A d \in Calls \ {c} : sr'[d] = sr[d]
  PROVE  Answers' = Answers
<1> SUFFICES ASSUME NEW d \in Calls PROVE AnswerOf(d)' = AnswerOf(d)
  BY DEF Answers
<1>1. pc \in [Calls -> Locations]
  BY DEF Inv, TypeOK
<1>2. CASE d = c
  BY <1>1, <1>2 DEF AnswerOf, Returned
<1>3. CASE d # c
  BY <1>1, <1>3 DEF AnswerOf
<1> QED BY <1>2, <1>3

(* A call that returns changes its own answer. *)
LEMMA ReturnStep ==
  ASSUME Inv, NEW c \in Calls, NEW to \in Returned,
         pc[c] \notin Returned,
         pc' = [pc EXCEPT ![c] = to],
         \A d \in Calls \ {c} : sr'[d] = sr[d]
  PROVE  /\ Answers[c] = Service!Pending
         /\ Answers' = [Answers EXCEPT ![c] =
              [outcome |-> to,
               port    |-> IF to = "served" THEN sr'[c] ELSE NoResource]]
<1>1. pc \in [Calls -> Locations]
  BY DEF Inv, TypeOK
<1>2. Answers[c] = Service!Pending
  BY DEF Answers, AnswerOf, Service!Pending, Returned
<1>3. ASSUME NEW d \in Calls \ {c} PROVE AnswerOf(d)' = AnswerOf(d)
  BY <1>1, <1>3 DEF AnswerOf
<1>4. AnswerOf(c)' = [outcome |-> to,
                      port    |-> IF to = "served" THEN sr'[c] ELSE NoResource]
  BY <1>1 DEF AnswerOf
<1> QED BY <1>2, <1>3, <1>4 DEF Answers

LEMMA ServiceStep ==
  ASSUME Inv, NEW c \in Calls, Step(c)
  PROVE  Service!Next \/ UNCHANGED <<g_shared, message_thread, Answers>>
<1> USE DEF Inv, TypeOK, Goto, Null, Locations, Returned
<1>1. CASE LoadGlobal(c) \/ DeleteLoser(c) \/ EnterLock(c) \/ MarkCreated(c)
  BY <1>1, SilentStep DEF LoadGlobal, DeleteLoser, EnterLock, MarkCreated
<1>2. CASE NewResource(c)
  <2>1. CASE pc'[c] = "publish"
    BY <1>2, <2>1, SilentStep DEF NewResource
  <2>2. CASE pc'[c] = "failed"
    <3>1. Service!Refuse(c)
      BY <1>2, <2>2, ReturnStep DEF NewResource, Service!Refuse, Answers
    <3> QED BY <3>1 DEF Service!Next
  <2> QED BY <1>2, <2>1, <2>2 DEF NewResource
<1>3. CASE Publish(c)
  <2>1. Answers' = Answers
    BY <1>3, SilentStep DEF Publish
  <2>2. CASE g_shared = NoResource
    <3>1. sr[c] \in Resources
      BY <1>3 DEF Publish, OwnedIsPrivate, Owns
    <3>2. Service!Open(sr[c])
      BY <1>3, <2>1, <2>2 DEF Publish, MayInstall, Service!Open, Answers
    <3> QED BY <3>1, <3>2 DEF Service!Next
  <2>3. CASE g_shared # NoResource
    BY <1>3, <2>1, <2>3 DEF Publish, MayInstall
  <2> QED BY <2>2, <2>3
<1>4. CASE CheckThread(c)
  <2>1. CASE ThreadCreated(c)
    <3>1. sr[c] = g_shared /\ message_thread # {}
      BY <1>4, <2>1 DEF CheckThread, ThreadCreated, InstalledIsUsed,
                        FlagFollowsThread, Using
    <3>2. Service!Serve(c)
      BY <1>4, <2>1, <3>1, ReturnStep DEF CheckThread, Service!Serve, Answers
    <3> QED BY <3>2 DEF Service!Next
  <2>2. CASE ~ThreadCreated(c)
    BY <1>4, <2>2, SilentStep DEF CheckThread
  <2> QED BY <2>1, <2>2
<1>5. CASE RecheckThread(c)
  <2>1. Answers' = Answers
    BY <1>5, SilentStep DEF RecheckThread, OnCreateFailure
  <2>2. CASE UNCHANGED message_thread
    BY <1>5, <2>1, <2>2 DEF RecheckThread
  <2>3. CASE message_thread' = message_thread \cup {<<sr[c], c>>}
             /\ sr[c] \notin thread_created
    <3>1. sr[c] = g_shared /\ g_shared # NoResource
      BY <1>5 DEF RecheckThread, InstalledIsUsed, Using
    <3>2. message_thread = {}
      BY <1>5, <2>3, <3>1 DEF RecheckThread, FlagFollowsThread, LockHolder,
                              InLock, InstalledIsUsed, Using
    <3>3. Service!StartDispatcher(c)
      BY <1>5, <2>1, <2>3, <3>1, <3>2
         DEF RecheckThread, Service!StartDispatcher, Answers
    <3> QED BY <3>3 DEF Service!Next
  <2> QED BY <1>5, <2>2, <2>3 DEF RecheckThread, StillNeeded
<1>6. CASE LeaveLock(c)
  <2>1. CASE pc[c] = "leave"
    <3>1. sr[c] = g_shared /\ message_thread # {}
      BY <1>6, <2>1 DEF LeaveLock, InstalledIsUsed, FlagFollowsThread, Using
    <3>2. Service!Serve(c)
      BY <1>6, <2>1, <3>1, ReturnStep DEF LeaveLock, Service!Serve, Answers
    <3> QED BY <3>2 DEF Service!Next
  <2>2. CASE pc[c] = "bail"
    <3>1. Service!Refuse(c)
      BY <1>6, <2>2, ReturnStep DEF LeaveLock, Service!Refuse, Answers
    <3> QED BY <3>1 DEF Service!Next
  <2> QED BY <1>6, <2>1, <2>2 DEF LeaveLock
<1> QED BY <1>1, <1>2, <1>3, <1>4, <1>5, <1>6 DEF Step

(* Every behaviour of the lock-free and double-checked code is one of the *)
(* service that opens one port and starts one dispatcher atomically.      *)
THEOREM Implements == Spec => ImplementsService
<1>1. Init => Service!Init
  BY DEF Init, Service!Init, Service!Pending, AnswerOf, Returned
<1>2. Inv /\ [Next]_vars => [Service!Next]_Service!vars
  <2> SUFFICES ASSUME Inv, [Next]_vars PROVE [Service!Next]_Service!vars
    OBVIOUS
  <2>1. CASE UNCHANGED vars
    BY <2>1 DEF vars, Service!vars, AnswerOf
  <2>2. CASE \E c \in Calls : Step(c)
    BY <2>2, ServiceStep DEF Service!vars, Answers
  <2> QED BY <2>1, <2>2 DEF Next, AllReturned
<1> QED BY InvAlways, <1>1, <1>2, PTL DEF Spec, ImplementsService, Service!Spec
=============================================================================
