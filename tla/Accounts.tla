------------------------------ MODULE Accounts ------------------------------
(***************************************************************************)
(* First-run set-up, accounts, sessions and roles: internal/auth/store.go  *)
(* under the middleware and handlers of internal/app (auth.go, admin.go),  *)
(* with the one setting they decide about, the access mode.                *)
(*                                                                         *)
(* A request is authenticated by one query, checked by the middleware with *)
(* another one, and acts in a transaction of its own, so it may act on     *)
(* rights that its user has lost since it arrived. "installed" and the     *)
(* access mode are copies in memory, read when the process starts and      *)
(* written by the set-up after its transaction, as a step of its own.      *)
(* Passwords, the rate limiter and the CSRF token's value are left out.    *)
(***************************************************************************)
EXTENDS Integers, FiniteSets

CONSTANTS
  Users,         \* the accounts that may be created
  Sessions,      \* the sessions that may be issued
  Requests,      \* bound: requests at a time
  Modes,         \* access modes
  DefaultMode,   \* RASPI_MEDIA_PLAYER_ACCESS_MODE
  BuiltInMode,   \* "open", what app.New takes for an empty string
  Disturbances,  \* bound: restarts, and settings that are not saved
  None

ASSUME AccountsAssumption ==
  /\ IsFiniteSet(Users) /\ None \notin Users \cup Sessions \cup Modes
  /\ {DefaultMode, BuiltInMode} \subseteq Modes
  /\ "" \notin Modes /\ None # "" /\ Disturbances \in Nat

VARIABLES
  exists, admin,  \* users, and those with is_admin = 1
  completed,      \* installation_state.completed_at is not NULL
  session,        \* per session, its state and its user
  stored,         \* application_settings 'access_mode', None for no row
  installed,      \* application.installed
  mode,           \* application.options.AccessMode
  req,            \* per request, where it is and what it knows
  chosen,         \* history: the mode the completed set-up asked for
  faithful,       \* history: the choice was stored, and not replaced since
  left            \* disturbances still to come

db == <<exists, admin, completed, session, stored>>
vars == <<db, installed, mode, req, chosen, faithful, left>>

NoSession == [state |-> "none", user |-> None]
NoRequest ==
  [pc |-> "none", kind |-> "signup", by |-> None, isAdmin |-> FALSE, own |-> None,
   mode |-> None]
Kinds == {"setup", "signup", "login", "revoke", "role", "setting"}

\* Mutant: an empty string is taken as it is.
EffectiveVerbatim(value) == IF value = None THEN DefaultMode ELSE value

\* applyStoredSettings, and app.New.
Effective(value) == IF value = None THEN DefaultMode
                    ELSE IF value = "" THEN BuiltInMode ELSE value

Init ==
  /\ exists = {} /\ admin = {} /\ completed = FALSE
  /\ session = [s \in Sessions |-> NoSession]
  /\ stored = None
  /\ installed = FALSE /\ mode = DefaultMode
  /\ req = [q \in Requests |-> NoRequest]
  /\ chosen = None /\ faithful = TRUE
  /\ left = Disturbances
-----------------------------------------------------------------------------
(* A request arrives.                                                      *)

At(q, pc) == req[q].pc = pc
Goto(q, pc) == req' = [req EXCEPT ![q].pc = pc]
Answered(q) == req' = [req EXCEPT ![q] = NoRequest]
Live(s) == session[s].state = "live"

\* authenticate: the session of the cookie, if there is one and it is good.
Arrive(q, kind) ==
  /\ At(q, "none")
  /\ \E m \in IF kind = "setup" THEN Modes ELSE {None} :
       \/ req' = [req EXCEPT ![q] = [NoRequest EXCEPT !.pc = "check", !.kind = kind,
                                                      !.mode = m]]
       \/ \E s \in Sessions :
            /\ Live(s)
            /\ req' = [req EXCEPT ![q] =
                 [pc |-> "check", kind |-> kind, by |-> session[s].user,
                  isAdmin |-> session[s].user \in admin, own |-> s, mode |-> m]]
  /\ UNCHANGED <<db, installed, mode, chosen, faithful, left>>

\* requireInstallation, protectMutations, and what the handler asks first: the
\* role is the one that authenticate read, and VerifyCSRF asks only whether the
\* session was revoked: it may have expired meanwhile.
Admitted(q) ==
  /\ installed \/ req[q].kind = "setup"
  /\ \/ req[q].by = None \/ req[q].kind \in {"login", "signup"}
     \/ session[req[q].own].state # "revoked"
  /\ req[q].kind = "setup" => ~installed
  /\ req[q].kind = "revoke" => req[q].by # None
  /\ req[q].kind \in {"role", "setting"} => req[q].by # None /\ req[q].isAdmin

Check(q) ==
  /\ At(q, "check")
  /\ IF Admitted(q) THEN Goto(q, "act") ELSE Answered(q)
  /\ UNCHANGED <<db, installed, mode, chosen, faithful, left>>

Acts(q, kind) == At(q, "act") /\ req[q].kind = kind

Issue(u) ==
  \E s \in Sessions :
    /\ session[s].state = "none"
    /\ session' = [session EXCEPT ![s] = [state |-> "live", user |-> u]]
-----------------------------------------------------------------------------
(* What it does.                                                           *)

\* CreateUserAndSession; a name that is taken is refused.
SignUp(q) ==
  /\ Acts(q, "signup")
  /\ \E u \in Users \ exists : exists' = exists \cup {u} /\ Issue(u)
  /\ Answered(q)
  /\ UNCHANGED <<admin, completed, stored, installed, mode, chosen, faithful, left>>

\* FindUser, the password, and CreateSession.
LogIn(q) ==
  /\ Acts(q, "login")
  /\ \E u \in exists : Issue(u)
  /\ Answered(q)
  /\ UNCHANGED <<exists, admin, completed, stored, installed, mode, chosen,
                 faithful, left>>

\* logout and revokeSession: a session of one's own.
Revoke(q) ==
  /\ Acts(q, "revoke")
  /\ \E s \in Sessions :
       /\ session[s].user = req[q].by /\ session[s].state \in {"live", "expired"}
       /\ session' = [session EXCEPT ![s].state = "revoked"]
  /\ Answered(q)
  /\ UNCHANGED <<exists, admin, completed, stored, installed, mode, chosen,
                 faithful, left>>

\* Mutant: the count includes the account that is demoted.
MayDemoteAny(u) == Cardinality(admin) >= 1

MayDemote(u) == u \in admin => Cardinality(admin) > 1

\* SetAdmin, in one transaction.
SetRole(q) ==
  /\ Acts(q, "role")
  /\ \E u \in exists :
       \/ admin' = admin \cup {u}
       \/ MayDemote(u) /\ admin' = admin \ {u}
  /\ Answered(q)
  /\ UNCHANGED <<exists, completed, session, stored, installed, mode, chosen,
                 faithful, left>>

\* updateAdminSetting and deleteAdminSetting; the copy in memory stays.
SaveSetting(q) ==
  /\ Acts(q, "setting")
  /\ \E m \in Modes \cup {""} : stored' = m
  /\ faithful' = FALSE
  /\ Answered(q)
  /\ UNCHANGED <<exists, admin, completed, session, installed, mode, chosen, left>>

\* Mutant: only the copy in memory says that the installation is complete.
UnfinishedInMemory == ~installed

Unfinished == ~completed

\* CreateInitialAdminAndSession: everything or nothing.
Install(q) ==
  /\ Acts(q, "setup") /\ Unfinished
  /\ \E u \in Users \ exists :
       /\ exists' = exists \cup {u} /\ admin' = admin \cup {u} /\ Issue(u)
  /\ completed' = TRUE
  /\ chosen' = req[q].mode
  /\ Goto(q, "choice")
  /\ UNCHANGED <<stored, installed, mode, faithful, left>>

\* Mutant: the choice is kept in memory only.
KeepChoice(q) ==
  /\ At(q, "choice") /\ Goto(q, "open")
  /\ UNCHANGED <<db, installed, mode, chosen, faithful, left>>

\* settings.Set, whose failure is logged and no more.
SaveChoice(q) ==
  /\ At(q, "choice")
  /\ \/ stored' = req[q].mode /\ UNCHANGED <<faithful, left>>
     \/ left > 0 /\ left' = left - 1 /\ faithful' = FALSE /\ UNCHANGED stored
  /\ Goto(q, "open")
  /\ UNCHANGED <<exists, admin, completed, session, installed, mode, chosen>>

\* The copies in memory.
Open(q) ==
  /\ At(q, "open")
  /\ mode' = req[q].mode /\ installed' = TRUE
  /\ Answered(q)
  /\ UNCHANGED <<db, chosen, faithful, left>>

\* Nothing to act on: a name taken or unknown, the last administrator, a
\* session that is not there, a set-up that came second.
Refuse(q) ==
  /\ At(q, "act") /\ req[q].kind # "setting"
  /\ req[q].kind = "setup" => ~Unfinished
  /\ Answered(q)
  /\ UNCHANGED <<db, installed, mode, chosen, faithful, left>>
-----------------------------------------------------------------------------
Expire(s) ==
  /\ Live(s)
  /\ session' = [session EXCEPT ![s].state = "expired"]
  /\ UNCHANGED <<exists, admin, completed, stored, installed, mode, req, chosen,
                 faithful, left>>

\* The process starts again and reads what the database says. A set-up that
\* was cut off before it saved its choice has lost it.
Restart ==
  /\ left > 0 /\ left' = left - 1
  /\ installed' = completed
  /\ mode' = Effective(stored)
  /\ faithful' = (faithful /\ \A q \in Requests : ~At(q, "choice"))
  /\ req' = [q \in Requests |-> NoRequest]
  /\ UNCHANGED <<db, chosen>>

RequestStep(q) ==
  \/ \E kind \in Kinds : Arrive(q, kind)
  \/ Check(q)
  \/ SignUp(q) \/ LogIn(q) \/ Revoke(q) \/ SetRole(q) \/ SaveSetting(q)
  \/ Install(q) \/ SaveChoice(q) \/ Open(q)
  \/ Refuse(q)

Next ==
  \/ \E q \in Requests : RequestStep(q)
  \/ \E s \in Sessions : Expire(s)
  \/ Restart

Spec == Init /\ [][Next]_vars
-----------------------------------------------------------------------------
RequestType ==
  [pc: {"none", "check", "act", "choice", "open"}, kind: Kinds,
   by: Users \cup {None}, isAdmin: BOOLEAN, own: Sessions \cup {None},
   mode: Modes \cup {None}]
SessionType ==
  [state: {"none", "live", "revoked", "expired"}, user: Users \cup {None}]

UsersOK == admin \subseteq exists /\ exists \subseteq Users

SessionsOK ==
  /\ session \in [Sessions -> SessionType]
  /\ \A s \in Sessions : session[s].state # "none" => session[s].user \in exists

RequestsOK ==
  /\ req \in [Requests -> RequestType]
  /\ \A q \in Requests :
       At(q, "choice") \/ At(q, "open") \/ (~At(q, "none") /\ req[q].kind = "setup")
         => req[q].mode \in Modes

SettingsOK ==
  /\ completed \in BOOLEAN /\ installed \in BOOLEAN /\ faithful \in BOOLEAN
  /\ stored \in Modes \cup {None, ""} /\ mode \in Modes
  /\ chosen \in Modes \cup {None} /\ left \in Nat

\* Who has a session has an account, and who is installing chose a mode.
AccountsTypeOK == UsersOK /\ SessionsOK /\ RequestsOK /\ SettingsOK

\* The household is never locked out: from the first set-up on there is an
\* administrator, whoever demotes whom at the same time, with rights of
\* whatever age. Before it there is no account at all.
KeepsAnAdmin == IF completed THEN admin # {} ELSE exists = {}

\* The installer is single-use, for any number of browsers that finish it at
\* once and across a restart between its steps: after the first, no account is
\* born an administrator, and roles are given by requests that an administrator
\* sent.
InstalledOnce ==
  [][completed => \A u \in admin' \ admin :
       u \in exists /\ \E q \in Requests : SetRole(q) /\ req[q].isAdmin]_vars

\* The access mode of the wizard is in force as soon as the player is open, and
\* after every restart, until an administrator saves another one or the wizard
\* could not save it.
ChoiceInForce == installed /\ faithful => mode = chosen
=============================================================================
