------------------------------- MODULE Policy -------------------------------
(***************************************************************************)
(* Policy of core/policy.cc: what the next process is to be spawned as,    *)
(* and the two caches derived from it, the restricted token and the        *)
(* alternate desktop.  A setter drops the caches it makes stale; a getter  *)
(* fills a cache in two steps, between which the new object is known to    *)
(* the calling thread alone, and hands out a borrowed reference.           *)
(***************************************************************************)
EXTENDS Naturals, Sequences, FiniteSets, SequencesExt, Filtering

CONSTANTS Logons,        \* Logon objects; each also names its logon SID
          CurrentLogon,  \* the one GetLogon makes of the process's own token
          WellKnownSids, \* SIDs that are no logon's, in the order GetPolicy adds them
          MaxSids,       \* bound on restricted_sids_
          Tokens,        \* values a token handle can have
          Desktops,      \* values a desktop handle can have
          NoLogon, NoToken, NoDesktop

ASSUME PolicyAssumption ==
  /\ CurrentLogon \in Logons
  /\ WellKnownSids \in Seq(ToSet(WellKnownSids) \ Logons)
  /\ MaxSids \in Nat /\ MaxSids > Len(WellKnownSids)
  /\ NoLogon \notin Logons /\ NoToken \notin Tokens /\ NoDesktop \notin Desktops

VARIABLES
  logon,             \* logon_
  restricted_sids,   \* restricted_sids_
  use_desktop,       \* use_desktop_
  kill_on_close,     \* job_basic_limit_ contains KILL_ON_JOB_CLOSE
  restricted_token,  \* restricted_token_
  alternate_desktop, \* alternate_desktop_
  token,             \* the system's token behind each handle, Closed if none
  desktop            \* behind each desktop, the logons with access to it and
                     \* whether its full name is cached, Closed if none

policy_vars == <<logon, restricted_sids, use_desktop, kill_on_close,
                 restricted_token, alternate_desktop, token, desktop>>

Sids == Logons \cup ToSet(WellKnownSids)
TokenInfo == [logon : Logons, sids : SUBSET Sids]
Closed == [open |-> FALSE]
Opened(what) == [open |-> TRUE, is |-> what]

PolicyTypeOK ==
  /\ logon \in Logons \cup {NoLogon}
  /\ restricted_sids \in Seq(Sids) /\ Len(restricted_sids) <= MaxSids
  /\ use_desktop \in BOOLEAN /\ kill_on_close \in BOOLEAN
  /\ restricted_token \in Tokens \cup {NoToken}
  /\ alternate_desktop \in Desktops \cup {NoDesktop}
  /\ \A h \in Tokens : token[h].open => token[h].is \in TokenInfo
  /\ \A d \in Desktops : desktop[d].open =>
       desktop[d].is \in SUBSET Logons /\ desktop[d].named \in BOOLEAN

(* Policy's constructor. *)
PolicyInit ==
  /\ logon = NoLogon
  /\ restricted_sids = <<>>
  /\ use_desktop = FALSE
  /\ kill_on_close = FALSE
  /\ restricted_token = NoToken
  /\ alternate_desktop = NoDesktop
  /\ token = [h \in Tokens |-> Closed]
  /\ desktop = [d \in Desktops |-> Closed]

(* unique_handle and ~AlternateDesktop: what a reset pointer owned is closed. *)
StillOpen(handles, h) == handles \* mutant: reset does not close what it owned
Without(handles, h) == [x \in DOMAIN handles |-> IF x = h THEN Closed ELSE handles[x]]

ResetToken ==
  /\ restricted_token' = NoToken
  /\ token' = Without(token, restricted_token)

(***************************************************************************)
(* Setters                                                                 *)
(***************************************************************************)
KeepDesktop ==                 \* mutant: SetLogon keeps the desktop
  UNCHANGED <<alternate_desktop, desktop>>
ResetDesktop ==
  /\ alternate_desktop' = NoDesktop
  /\ desktop' = Without(desktop, alternate_desktop)

SetLogon(l) ==
  /\ logon' = l
  /\ ResetToken
  /\ ResetDesktop
  /\ UNCHANGED <<restricted_sids, use_desktop, kill_on_close>>

AddRestrictSid(sid) ==
  /\ Len(restricted_sids) < MaxSids
  /\ restricted_sids' = Append(restricted_sids, sid)
  /\ ResetToken
  /\ UNCHANGED <<logon, use_desktop, kill_on_close, alternate_desktop, desktop>>

(* Every occurrence goes. *)
RemoveKeepingToken(sid) ==     \* mutant: the cached token is kept
  /\ restricted_sids' = Only(restricted_sids, Sids \ {sid})
  /\ UNCHANGED <<logon, use_desktop, kill_on_close, restricted_token, token,
                 alternate_desktop, desktop>>
RemoveRestrictSid(sid) ==
  /\ restricted_sids' = Only(restricted_sids, Sids \ {sid})
  /\ ResetToken
  /\ UNCHANGED <<logon, use_desktop, kill_on_close, alternate_desktop, desktop>>

SetUseDesktop(use) ==
  /\ use_desktop' = use
  /\ UNCHANGED <<logon, restricted_sids, kill_on_close, restricted_token, token,
                 alternate_desktop, desktop>>

SetBasicLimit(kill) ==
  /\ kill_on_close' = kill
  /\ UNCHANGED <<logon, restricted_sids, use_desktop, restricted_token, token,
                 alternate_desktop, desktop>>

Setter ==
  \/ \E l \in Logons : SetLogon(l)
  \/ \E sid \in Sids : AddRestrictSid(sid) \/ RemoveRestrictSid(sid)
  \/ \E b \in BOOLEAN : SetUseDesktop(b) \/ SetBasicLimit(b)

(***************************************************************************)
(* The steps of GetRestrictedToken and GetDesktop                          *)
(***************************************************************************)
NullLogon == logon             \* mutant: no default logon is made
GetLogon == IF logon = NoLogon THEN CurrentLogon ELSE logon

(* What LogonWithIntegrity::FilterToken makes of a logon's token. *)
RestrictedTo(l, sids) == [logon |-> l, sids |-> ToSet(sids)]

(* A miss of the cache: a new token, under a handle that was closed. *)
FilterToken(h) ==
  /\ ~token[h].open
  /\ logon' = GetLogon
  /\ token' = [token EXCEPT ![h] = Opened(RestrictedTo(GetLogon, restricted_sids))]
  /\ UNCHANGED <<restricted_sids, use_desktop, kill_on_close, restricted_token,
                 alternate_desktop, desktop>>

(* restricted_token_.reset(h) *)
InstallToken(h) ==
  /\ restricted_token' = h
  /\ token' = Without(token, restricted_token)
  /\ UNCHANGED <<logon, restricted_sids, use_desktop, kill_on_close,
                 alternate_desktop, desktop>>

(* Who may use an object after UserLogon::GrantAccess or, for the process's *)
(* own logon, which needs no entry of the list, after the integrity label.  *)
GrantedTo(l) == {l}

(* A miss of the cache: AlternateDesktop::Init and GrantAccess on the *)
(* desktop and its station.                                           *)
MakeDesktop(d) ==
  /\ ~desktop[d].open
  /\ logon' = GetLogon
  /\ desktop' = [desktop EXCEPT ![d] =
       [open |-> TRUE, is |-> GrantedTo(GetLogon), named |-> FALSE]]
  /\ UNCHANGED <<restricted_sids, use_desktop, kill_on_close, restricted_token,
                 alternate_desktop, token>>

(* alternate_desktop_ = move(d) *)
InstallDesktop(d) ==
  /\ alternate_desktop' = d
  /\ desktop' = Without(desktop, alternate_desktop)
  /\ UNCHANGED <<logon, restricted_sids, use_desktop, kill_on_close,
                 restricted_token, token>>

(* Desktop::GetFullName keeps the name. *)
KeepName(d) ==
  /\ desktop' = [desktop EXCEPT ![d].named = TRUE]
  /\ UNCHANGED <<logon, restricted_sids, use_desktop, kill_on_close,
                 restricted_token, alternate_desktop, token>>
=============================================================================
