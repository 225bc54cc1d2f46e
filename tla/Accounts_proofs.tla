-------------------------- MODULE Accounts_proofs ---------------------------
(***************************************************************************)
(* Proofs about Accounts, for any number of accounts, sessions, requests   *)
(* and restarts: types, the administrator that always remains, the access  *)
(* mode that the wizard chose, and the installer that works once.          *)
(***************************************************************************)
EXTENDS Accounts, FiniteSetTheorems, TLAPS

\* Rights are checked before a request acts, and stay with it: whoever acts for
\* a household acts after its installation, and who gives roles came as an
\* administrator.
Rights ==
  /\ installed => completed
  /\ \A q \in Requests : At(q, "act") /\ req[q].kind # "setup" => completed
  /\ \A q \in Requests : At(q, "act") /\ req[q].kind = "role" => req[q].isAdmin

\* The installer between its steps: there is one choice, and it is stored but
\* for the moment in which its request still has it.
Choice ==
  /\ completed => chosen \in Modes
  /\ \A q \in Requests : At(q, "choice") \/ At(q, "open") =>
       completed /\ req[q].mode = chosen
  /\ completed /\ faithful /\ (\A q \in Requests : ~At(q, "choice")) => stored = chosen

Inv == AccountsTypeOK /\ Rights /\ KeepsAnAdmin /\ Choice /\ ChoiceInForce

LEMMA InitInv == Init => Inv
<1> SUFFICES ASSUME Init PROVE Inv
  OBVIOUS
<1> USE AccountsAssumption DEF Init
<1>1. UsersOK /\ SettingsOK
  BY DEF UsersOK, SettingsOK
<1>2. SessionsOK
  BY DEF SessionsOK, SessionType, NoSession
<1>3. RequestsOK
  BY DEF RequestsOK, RequestType, NoRequest, Kinds, At
<1>4. Rights /\ Choice
  BY DEF Rights, Choice, At, NoRequest
<1>5. KeepsAnAdmin /\ ChoiceInForce
  BY DEF KeepsAnAdmin, ChoiceInForce
<1> QED
  BY <1>1, <1>2, <1>3, <1>4, <1>5 DEF Inv, AccountsTypeOK
-----------------------------------------------------------------------------
(* What a step does to the request that takes it, and to its session.      *)

Pcs == {"none", "check", "act", "choice", "open"}
OthersWait(q) == \A p \in Requests \ {q} : req'[p] = req[p]

LEMMA AnsweredEffect ==
  ASSUME NEW q \in Requests, RequestsOK, Answered(q)
  PROVE  RequestsOK' /\ OthersWait(q) /\ req'[q].pc = "none"
BY DEF Answered, NoRequest, OthersWait, RequestsOK, RequestType, Kinds, At

LEMMA GotoEffect ==
  ASSUME NEW q \in Requests, NEW pc \in Pcs \ {"none"}, RequestsOK, ~At(q, "none"),
         pc \in {"choice", "open"} => req[q].mode \in Modes, Goto(q, pc)
  PROVE  /\ RequestsOK' /\ OthersWait(q)
         /\ req'[q].pc = pc /\ req'[q].kind = req[q].kind
         /\ req'[q].isAdmin = req[q].isAdmin /\ req'[q].mode = req[q].mode
<1>1. /\ req' \in [Requests -> RequestType] /\ OthersWait(q)
      /\ req'[q].pc = pc /\ req'[q].kind = req[q].kind
      /\ req'[q].isAdmin = req[q].isAdmin /\ req'[q].mode = req[q].mode
  BY DEF Goto, OthersWait, RequestsOK, RequestType, Pcs
<1> HIDE DEF OthersWait, Goto
<1>2. RequestsOK'
  BY <1>1 DEF RequestsOK, OthersWait, At
<1> QED
  BY <1>1, <1>2

LEMMA ArriveEffect ==
  ASSUME NEW q \in Requests, NEW kind \in Kinds, SessionsOK, RequestsOK, Arrive(q, kind)
  PROVE  RequestsOK' /\ OthersWait(q) /\ req'[q].pc = "check" /\ req'[q].kind = kind
<1>1. PICK m \in IF kind = "setup" THEN Modes ELSE {None} :
        \/ req' = [req EXCEPT ![q] = [NoRequest EXCEPT !.pc = "check", !.kind = kind,
                                                       !.mode = m]]
        \/ \E s \in Sessions :
             req' = [req EXCEPT ![q] =
               [pc |-> "check", kind |-> kind, by |-> session[s].user,
                isAdmin |-> session[s].user \in admin, own |-> s, mode |-> m]]
  BY DEF Arrive
<1>2. PICK r \in RequestType :
        /\ req' = [req EXCEPT ![q] = r]
        /\ r.pc = "check" /\ r.kind = kind /\ r.mode = m
  <2>1. m \in Modes \cup {None}
    OBVIOUS
  <2>2. CASE req' = [req EXCEPT ![q] = [NoRequest EXCEPT !.pc = "check",
                                          !.kind = kind, !.mode = m]]
    <3>1. [NoRequest EXCEPT !.pc = "check", !.kind = kind, !.mode = m] \in RequestType
      BY <2>1 DEF NoRequest, RequestType
    <3> QED
      BY <2>2, <3>1 DEF NoRequest
  <2>3. ASSUME NEW s \in Sessions,
               req' = [req EXCEPT ![q] =
                 [pc |-> "check", kind |-> kind, by |-> session[s].user,
                  isAdmin |-> session[s].user \in admin, own |-> s, mode |-> m]]
        PROVE  \E r \in RequestType :
                 /\ req' = [req EXCEPT ![q] = r]
                 /\ r.pc = "check" /\ r.kind = kind /\ r.mode = m
    <3> DEFINE r == [pc |-> "check", kind |-> kind, by |-> session[s].user,
                     isAdmin |-> session[s].user \in admin, own |-> s, mode |-> m]
    <3>1. session[s].user \in Users \cup {None}
      BY DEF SessionsOK, SessionType
    <3>2. r \in RequestType
      BY <2>1, <3>1 DEF RequestType
    <3> QED
      BY <2>3, <3>2
  <2> QED
    BY <1>1, <2>2, <2>3
<1>3. kind = "setup" => m \in Modes
  OBVIOUS
<1> QED
  BY <1>2, <1>3 DEF OthersWait, RequestsOK, At

LEMMA ResetEffect ==
  ASSUME req' = [q \in Requests |-> NoRequest]
  PROVE  RequestsOK' /\ \A q \in Requests : req'[q].pc = "none"
BY DEF NoRequest, RequestsOK, RequestType, Kinds, At

LEMMA IssueEffect ==
  ASSUME SessionsOK, NEW u \in Users, Issue(u), exists \subseteq exists', u \in exists'
  PROVE  SessionsOK'
BY DEF SessionsOK, SessionType, Issue

\* SetAdmin's count leaves somebody.
LEMMA DemotionLeavesOne ==
  ASSUME NEW S, IsFiniteSet(S), NEW u, u \in S => Cardinality(S) > 1, S # {}
  PROVE  S \ {u} # {}
<1>1. CASE u \in S
  <2>1. SUFFICES ASSUME S \ {u} = {} PROVE FALSE
    OBVIOUS
  <2>2. S = {u}
    BY <1>1, <2>1
  <2>3. Cardinality({u}) = 1
    BY FS_Singleton
  <2> QED
    BY <1>1, <2>2, <2>3
<1> QED
  BY <1>1
-----------------------------------------------------------------------------
(* The steps that leave the installation as it is.                         *)

\* What the rest of a step must not do to keep rights and choice.
LEMMA Frame ==
  ASSUME Inv, NEW q \in Requests, OthersWait(q),
         ~At(q, "choice"), ~At(q, "open") , req'[q].pc \notin {"choice", "open"},
         UNCHANGED <<completed, installed, mode, chosen>>,
         UNCHANGED <<stored, faithful>> \/ faithful' = FALSE,
         req'[q].pc = "act" => /\ req'[q].kind # "setup" => completed
                               /\ req'[q].kind = "role" => req'[q].isAdmin
  PROVE  Rights' /\ Choice' /\ ChoiceInForce'
<1>1. Rights'
  BY DEF Inv, Rights, OthersWait, At
<1>2. \A p \in Requests : req'[p].pc = "choice" <=> req[p].pc = "choice"
  BY DEF OthersWait, At
<1>3. Choice'
  BY <1>2 DEF Inv, Choice, OthersWait, At
<1>4. ChoiceInForce'
  BY DEF Inv, ChoiceInForce
<1> QED
  BY <1>1, <1>3, <1>4

LEMMA ArriveKeeps ==
  ASSUME Inv, NEW q \in Requests, NEW kind \in Kinds, Arrive(q, kind)
  PROVE  Inv'
<1>1. RequestsOK' /\ OthersWait(q) /\ req'[q].pc = "check"
  BY ArriveEffect DEF Inv, AccountsTypeOK
<1>2. At(q, "none") /\ UNCHANGED <<db, installed, mode, chosen, faithful, left>>
  BY DEF Arrive
<1>3. Rights' /\ Choice' /\ ChoiceInForce'
  BY <1>1, <1>2, Frame DEF db, At
<1> QED
  BY <1>1, <1>2, <1>3
  DEF Inv, AccountsTypeOK, UsersOK, SessionsOK, SettingsOK, KeepsAnAdmin, db

LEMMA CheckKeeps ==
  ASSUME Inv, NEW q \in Requests, Check(q)
  PROVE  Inv'
<1>1. At(q, "check") /\ UNCHANGED <<db, installed, mode, chosen, faithful, left>>
  BY DEF Check
<1>2. /\ RequestsOK' /\ OthersWait(q)
      /\ \/ req'[q].pc = "none"
         \/ /\ req'[q].pc = "act" /\ Admitted(q)
            /\ req'[q].kind = req[q].kind /\ req'[q].isAdmin = req[q].isAdmin
  <2>1. CASE Admitted(q)
    BY <1>1, <2>1, GotoEffect DEF Check, Pcs, At, Inv, AccountsTypeOK
  <2>2. CASE ~Admitted(q)
    BY <2>2, AnsweredEffect DEF Check, Inv, AccountsTypeOK
  <2> QED
    BY <2>1, <2>2
<1>3. req'[q].pc = "act" => /\ req'[q].kind # "setup" => completed
                            /\ req'[q].kind = "role" => req'[q].isAdmin
  BY <1>2 DEF Admitted, Inv, Rights
<1>4. Rights' /\ Choice' /\ ChoiceInForce'
  BY <1>1, <1>2, <1>3, Frame DEF db, At
<1> QED
  BY <1>1, <1>2, <1>4
  DEF Inv, AccountsTypeOK, UsersOK, SessionsOK, SettingsOK, KeepsAnAdmin, db

\* An answer to a request that acts, when the installation stays as it is.
LEMMA AnswerKeeps ==
  ASSUME Inv, NEW q \in Requests, At(q, "act"), Answered(q),
         UNCHANGED <<completed, installed, mode, chosen, left>>,
         UNCHANGED <<stored, faithful>> \/ (stored' \in Modes \cup {""} /\ faithful' = FALSE)
  PROVE  RequestsOK' /\ SettingsOK' /\ Rights' /\ Choice' /\ ChoiceInForce'
<1>1. RequestsOK' /\ OthersWait(q) /\ req'[q].pc = "none"
  BY AnsweredEffect DEF Inv, AccountsTypeOK
<1>2. Rights' /\ Choice' /\ ChoiceInForce'
  BY <1>1, Frame DEF At
<1>3. SettingsOK'
  BY DEF Inv, AccountsTypeOK, SettingsOK
<1> QED
  BY <1>1, <1>2, <1>3

LEMMA SignUpKeeps ==
  ASSUME Inv, NEW q \in Requests, SignUp(q)
  PROVE  Inv'
<1>1. RequestsOK' /\ SettingsOK' /\ Rights' /\ Choice' /\ ChoiceInForce'
  BY AnswerKeeps DEF SignUp, Acts
<1>2. PICK u \in Users : exists' = exists \cup {u} /\ Issue(u)
  BY DEF SignUp
<1>3. SessionsOK'
  BY <1>2, IssueEffect DEF Inv, AccountsTypeOK
<1>4. UsersOK'
  BY <1>2 DEF Inv, AccountsTypeOK, UsersOK, SignUp
<1>5. KeepsAnAdmin'
  BY DEF SignUp, Acts, Inv, Rights, KeepsAnAdmin
<1> QED
  BY <1>1, <1>3, <1>4, <1>5 DEF Inv, AccountsTypeOK

LEMMA LogInKeeps ==
  ASSUME Inv, NEW q \in Requests, LogIn(q)
  PROVE  Inv'
<1>1. RequestsOK' /\ SettingsOK' /\ Rights' /\ Choice' /\ ChoiceInForce'
  BY AnswerKeeps DEF LogIn, Acts
<1>2. SessionsOK'
  BY IssueEffect DEF LogIn, Inv, AccountsTypeOK, UsersOK
<1> QED
  BY <1>1, <1>2 DEF LogIn, Inv, AccountsTypeOK, UsersOK, KeepsAnAdmin

LEMMA RevokeKeeps ==
  ASSUME Inv, NEW q \in Requests, Revoke(q)
  PROVE  Inv'
<1>1. RequestsOK' /\ SettingsOK' /\ Rights' /\ Choice' /\ ChoiceInForce'
  BY AnswerKeeps DEF Revoke, Acts
<1>2. SessionsOK'
  BY DEF Revoke, Inv, AccountsTypeOK, SessionsOK, SessionType
<1> QED
  BY <1>1, <1>2 DEF Revoke, Inv, AccountsTypeOK, UsersOK, KeepsAnAdmin

LEMMA SetRoleKeeps ==
  ASSUME Inv, NEW q \in Requests, SetRole(q)
  PROVE  Inv'
<1>1. RequestsOK' /\ SettingsOK' /\ Rights' /\ Choice' /\ ChoiceInForce'
  BY AnswerKeeps DEF SetRole, Acts
<1>2. PICK u \in exists :
        admin' = admin \cup {u} \/ (MayDemote(u) /\ admin' = admin \ {u})
  BY DEF SetRole
<1>3. UNCHANGED <<exists, completed, session>>
  BY DEF SetRole
<1>4. UsersOK' /\ SessionsOK'
  BY <1>2, <1>3 DEF Inv, AccountsTypeOK, UsersOK, SessionsOK
<1>5. KeepsAnAdmin'
  <2>1. completed /\ admin # {}
    BY DEF SetRole, Acts, Inv, Rights, KeepsAnAdmin
  <2>2. IsFiniteSet(admin)
    BY AccountsAssumption, FS_Subset DEF Inv, AccountsTypeOK, UsersOK
  <2>3. CASE MayDemote(u) /\ admin' = admin \ {u}
    BY <1>3, <2>1, <2>2, <2>3, DemotionLeavesOne DEF MayDemote, KeepsAnAdmin
  <2> QED
    BY <1>2, <1>3, <2>1, <2>3 DEF KeepsAnAdmin
<1> QED
  BY <1>1, <1>4, <1>5 DEF Inv, AccountsTypeOK

LEMMA SaveSettingKeeps ==
  ASSUME Inv, NEW q \in Requests, SaveSetting(q)
  PROVE  Inv'
<1>1. RequestsOK' /\ SettingsOK' /\ Rights' /\ Choice' /\ ChoiceInForce'
  BY AnswerKeeps DEF SaveSetting, Acts
<1> QED
  BY <1>1 DEF SaveSetting, Inv, AccountsTypeOK, UsersOK, SessionsOK, KeepsAnAdmin

LEMMA RefuseKeeps ==
  ASSUME Inv, NEW q \in Requests, Refuse(q)
  PROVE  Inv'
<1>1. UNCHANGED <<exists, admin, completed, session, stored, installed, mode, chosen,
                  faithful, left>>
  BY DEF Refuse, db
<1>2. RequestsOK' /\ SettingsOK' /\ Rights' /\ Choice' /\ ChoiceInForce'
  BY <1>1, AnswerKeeps DEF Refuse
<1> QED
  BY <1>1, <1>2 DEF Inv, AccountsTypeOK, UsersOK, SessionsOK, KeepsAnAdmin

LEMMA ExpireKeeps ==
  ASSUME Inv, NEW s \in Sessions, Expire(s)
  PROVE  Inv'
<1>1. SessionsOK'
  BY DEF Expire, Live, Inv, AccountsTypeOK, SessionsOK, SessionType
<1>2. UNCHANGED <<exists, admin, completed, stored, installed, mode, req, chosen,
                  faithful, left>>
  BY DEF Expire
<1>3. (UsersOK /\ RequestsOK /\ SettingsOK /\ KeepsAnAdmin)'
  BY <1>2 DEF Inv, AccountsTypeOK, UsersOK, RequestsOK, SettingsOK, KeepsAnAdmin, At
<1>4. (Rights /\ Choice /\ ChoiceInForce)'
  BY <1>2 DEF Inv, Rights, Choice, ChoiceInForce, At
<1> QED
  BY <1>1, <1>3, <1>4 DEF Inv, AccountsTypeOK
-----------------------------------------------------------------------------
(* The installer and the restart.                                          *)

LEMMA InstallKeeps ==
  ASSUME Inv, NEW q \in Requests, Install(q)
  PROVE  Inv'
<1>1. /\ At(q, "act") /\ req[q].kind = "setup" /\ ~completed /\ completed' = TRUE
      /\ chosen' = req[q].mode /\ UNCHANGED <<stored, installed, mode, faithful, left>>
  BY DEF Install, Acts, Unfinished
<1>2. req[q].mode \in Modes
  BY <1>1 DEF Inv, AccountsTypeOK, RequestsOK, At
<1>3. /\ RequestsOK' /\ OthersWait(q) /\ req'[q].pc = "choice"
      /\ req'[q].mode = req[q].mode
  BY <1>1, <1>2, GotoEffect DEF Install, Pcs, At, Inv, AccountsTypeOK
<1>4. PICK u \in Users : exists' = exists \cup {u} /\ admin' = admin \cup {u} /\ Issue(u)
  BY DEF Install
<1>5. SessionsOK' /\ UsersOK'
  BY <1>4, IssueEffect DEF Inv, AccountsTypeOK, UsersOK
<1>6. SettingsOK'
  BY <1>1, <1>2 DEF Inv, AccountsTypeOK, SettingsOK
<1>7. KeepsAnAdmin'
  BY <1>1, <1>4 DEF KeepsAnAdmin
<1>8. Rights'
  BY <1>1, <1>3 DEF Inv, Rights, OthersWait, At
<1>9. Choice'
  BY <1>1, <1>2, <1>3 DEF Inv, Choice, OthersWait, At
<1>10. ChoiceInForce'
  BY <1>1 DEF Inv, Rights, ChoiceInForce
<1> QED
  BY <1>3, <1>5, <1>6, <1>7, <1>8, <1>9, <1>10 DEF Inv, AccountsTypeOK

LEMMA SaveChoiceKeeps ==
  ASSUME Inv, NEW q \in Requests, SaveChoice(q)
  PROVE  Inv'
<1>1. /\ At(q, "choice")
      /\ UNCHANGED <<exists, admin, completed, session, installed, mode, chosen>>
      /\ \/ stored' = req[q].mode /\ UNCHANGED <<faithful, left>>
         \/ left > 0 /\ left' = left - 1 /\ faithful' = FALSE /\ UNCHANGED stored
  BY DEF SaveChoice
<1>2. req[q].mode \in Modes /\ req[q].mode = chosen
  BY <1>1 DEF Inv, AccountsTypeOK, RequestsOK, Choice
<1>3. /\ RequestsOK' /\ OthersWait(q) /\ req'[q].pc = "open"
      /\ req'[q].mode = req[q].mode
  BY <1>1, <1>2, GotoEffect DEF SaveChoice, Pcs, At, Inv, AccountsTypeOK
<1>4. UsersOK' /\ SessionsOK' /\ KeepsAnAdmin'
  BY <1>1 DEF Inv, AccountsTypeOK, UsersOK, SessionsOK, KeepsAnAdmin
<1>5. SettingsOK'
  <2>1. left' \in Nat
    <3>1. left \in Nat
      BY Zenon DEF Inv, AccountsTypeOK, SettingsOK
    <3>2. left' = left \/ (left > 0 /\ left' = left - 1)
      BY <1>1, Zenon
    <3> QED
      BY <3>1, <3>2
  <2>2. completed \in BOOLEAN /\ installed \in BOOLEAN /\ faithful \in BOOLEAN
    BY Zenon DEF Inv, AccountsTypeOK, SettingsOK
  <2>3. completed' \in BOOLEAN /\ installed' \in BOOLEAN
    BY <1>1, <2>2, Zenon
  <2>4. faithful' = faithful \/ faithful' = FALSE
    BY <1>1, Zenon
  <2>5. faithful' \in BOOLEAN
    BY <2>2, <2>4, Zenon
  <2> QED
    BY <1>1, <1>2, <2>1, <2>3, <2>5 DEF Inv, AccountsTypeOK, SettingsOK
<1>6. Rights'
  BY <1>1, <1>3 DEF Inv, Rights, OthersWait, At
<1>7. Choice'
  BY <1>1, <1>2, <1>3 DEF Inv, Choice, OthersWait, At
<1>8. ChoiceInForce'
  BY <1>1 DEF Inv, ChoiceInForce
<1> QED
  BY <1>3, <1>4, <1>5, <1>6, <1>7, <1>8 DEF Inv, AccountsTypeOK

LEMMA OpenKeeps ==
  ASSUME Inv, NEW q \in Requests, Open(q)
  PROVE  Inv'
<1>1. /\ At(q, "open") /\ mode' = req[q].mode /\ installed' = TRUE
      /\ UNCHANGED <<exists, admin, completed, session, stored, chosen, faithful, left>>
  BY DEF Open, db
<1>2. req[q].mode \in Modes /\ req[q].mode = chosen /\ completed
  BY <1>1 DEF Inv, AccountsTypeOK, RequestsOK, Choice
<1>3. RequestsOK' /\ OthersWait(q) /\ req'[q].pc = "none"
  BY AnsweredEffect DEF Open, Inv, AccountsTypeOK
<1>4. UsersOK' /\ SessionsOK' /\ KeepsAnAdmin' /\ SettingsOK'
  BY <1>1, <1>2
  DEF Inv, AccountsTypeOK, UsersOK, SessionsOK, SettingsOK, KeepsAnAdmin
<1>5. Rights'
  BY <1>1, <1>2, <1>3 DEF Inv, Rights, OthersWait, At
<1>6. Choice'
  BY <1>1, <1>2, <1>3 DEF Inv, Choice, OthersWait, At
<1>7. ChoiceInForce'
  BY <1>1, <1>2 DEF ChoiceInForce
<1> QED
  BY <1>3, <1>4, <1>5, <1>6, <1>7 DEF Inv, AccountsTypeOK

\* What the process reads again is what it had chosen, unless that was lost.
LEMMA RestartKeeps ==
  ASSUME Inv, Restart
  PROVE  Inv'
<1>1. /\ UNCHANGED <<exists, admin, completed, session, stored, chosen>>
      /\ left > 0 /\ left' = left - 1
      /\ installed' = completed /\ mode' = Effective(stored)
      /\ faithful' = (faithful /\ \A q \in Requests : ~At(q, "choice"))
  BY DEF Restart, db
<1>2. RequestsOK' /\ \A q \in Requests : req'[q].pc = "none"
  BY ResetEffect DEF Restart
<1>3. UsersOK' /\ SessionsOK' /\ KeepsAnAdmin'
  BY <1>1 DEF Inv, AccountsTypeOK, UsersOK, SessionsOK, KeepsAnAdmin
<1>4. SettingsOK'
  <2>1. left' \in Nat
    <3>1. left \in Nat
      BY Zenon DEF Inv, AccountsTypeOK, SettingsOK
    <3>2. left' = left \/ (left > 0 /\ left' = left - 1)
      BY <1>1, Zenon
    <3> QED
      BY <3>1, <3>2
  <2>2. completed \in BOOLEAN /\ installed' = completed /\ completed' = completed
    BY <1>1, Zenon DEF Inv, AccountsTypeOK, SettingsOK
  <2>3. completed' \in BOOLEAN /\ installed' \in BOOLEAN
    BY <2>2, Zenon
  <2>4. faithful' \in BOOLEAN
    BY <1>1, Zenon
  <2>5. mode' \in Modes
    BY <1>1, AccountsAssumption DEF Inv, AccountsTypeOK, SettingsOK, Effective
  <2> QED
    BY <1>1, <2>1, <2>3, <2>4, <2>5 DEF Inv, AccountsTypeOK, SettingsOK
<1>5. Rights'
  BY <1>1, <1>2 DEF Rights, At
<1>6. Choice'
  BY <1>1, <1>2 DEF Inv, Choice, At
<1>7. ChoiceInForce'
  BY <1>1, AccountsAssumption DEF Inv, Choice, ChoiceInForce, Effective
<1> QED
  BY <1>2, <1>3, <1>4, <1>5, <1>6, <1>7 DEF Inv, AccountsTypeOK

LEMMA Invariance == Spec => []Inv
<1>1. ASSUME Inv, UNCHANGED vars PROVE Inv'
  <2>1. AccountsTypeOK'
    BY <1>1 DEF Inv, AccountsTypeOK, UsersOK, SessionsOK, RequestsOK, SettingsOK, At,
                vars, db
  <2>2. (Rights /\ KeepsAnAdmin /\ Choice /\ ChoiceInForce)'
    BY <1>1 DEF Inv, Rights, KeepsAnAdmin, Choice, ChoiceInForce, At, vars, db
  <2> QED
    BY <2>1, <2>2 DEF Inv
<1>2. Inv /\ Next => Inv'
  BY ArriveKeeps, CheckKeeps, SignUpKeeps, LogInKeeps, RevokeKeeps, SetRoleKeeps,
     SaveSettingKeeps, RefuseKeeps, ExpireKeeps, InstallKeeps, SaveChoiceKeeps,
     OpenKeeps, RestartKeeps
  DEF Next, RequestStep
<1> QED
  BY InitInv, <1>1, <1>2, PTL DEF Spec
-----------------------------------------------------------------------------
\* Types: sessions belong to accounts, administrators are accounts, and a
\* request in the middle of the set-up has a mode (AccountsTypeOK).
THEOREM AccountsTypeCorrect == Spec => []AccountsTypeOK
<1>1. Inv => AccountsTypeOK
  BY DEF Inv
<1> QED
  BY Invariance, <1>1, PTL

\* From the first set-up on there is an administrator, whoever demotes whom
\* with rights of whatever age; before it there is no account (SetAdmin,
\* requireInstallation).
THEOREM AccountsKeepAnAdmin == Spec => []KeepsAnAdmin
<1>1. Inv => KeepsAnAdmin
  BY DEF Inv
<1> QED
  BY Invariance, <1>1, PTL

\* The access mode of the wizard is in force once the player is open, and after
\* any number of restarts (completeSetup, applyStoredSettings).
THEOREM AccountsChoiceInForce == Spec => []ChoiceInForce
<1>1. Inv => ChoiceInForce
  BY DEF Inv
<1> QED
  BY Invariance, <1>1, PTL

\* The installer works once; later administrators are made by administrators
\* (CreateInitialAdminAndSession, updateAdminRole).
THEOREM AccountsInstalledOnce == Spec => InstalledOnce
<1>1. Inv /\ [Next]_vars =>
        [completed => \A u \in admin' \ admin :
           u \in exists /\ \E q \in Requests : SetRole(q) /\ req[q].isAdmin]_vars
  <2> SUFFICES ASSUME Inv, Next, completed, NEW u \in admin' \ admin
               PROVE  u \in exists /\ \E q \in Requests : SetRole(q) /\ req[q].isAdmin
    OBVIOUS
  <2>1. PICK q \in Requests : SetRole(q)
    <3>1. ASSUME NEW q \in Requests, RequestStep(q), ~SetRole(q) PROVE FALSE
      BY <3>1 DEF RequestStep, Arrive, Check, SignUp, LogIn, Revoke, SaveSetting,
                  Install, Unfinished, SaveChoice, Open, Refuse, db
    <3>2. ASSUME NEW s \in Sessions, Expire(s) PROVE FALSE
      BY <3>2 DEF Expire
    <3>3. ASSUME Restart PROVE FALSE
      BY <3>3 DEF Restart, db
    <3> QED
      BY <3>1, <3>2, <3>3 DEF Next
  <2>2. req[q].isAdmin
    BY <2>1 DEF SetRole, Acts, Inv, Rights
  <2>3. u \in exists
    BY <2>1 DEF SetRole, Inv, AccountsTypeOK, UsersOK
  <2> QED
    BY <2>1, <2>2, <2>3
<1> QED
  BY Invariance, <1>1, PTL DEF Spec, InstalledOnce
=============================================================================
