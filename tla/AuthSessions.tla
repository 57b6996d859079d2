---------------------------- MODULE AuthSessions ----------------------------
(***************************************************************************)
(* The sessions of a user.  A login opens a family of sessions; a refresh  *)
(* replaces the session of its token by a new one of the family, and a     *)
(* token that comes back after it was replaced ends the family.  A refresh *)
(* reads the session first and replaces it later, by an update that only   *)
(* takes a session not revoked: another refresh of the same token, a       *)
(* logout, a new password or the expiry may come in between.               *)
(*                                                                         *)
(* One user stands for all: nothing is shared between users.               *)
(***************************************************************************)
EXTENDS FiniteSets

CONSTANTS
  Sessions,
  Refreshes, \* requests to refresh
  Resets,    \* password reset tokens
  NoSession

ASSUME SessionsAssumption == NoSession \notin Sessions

VARIABLES
  session,   \* "AuthSession": its family is named by the session that opened it
  refreshing,\* refresh: where it is, and the session it read
  eligible,  \* the user, its role and its organisation are active
  resetToken \* "PasswordResetToken"

sessionVars == <<session, refreshing, eligible, resetToken>>

NotOpened == [family |-> NoSession, live |-> FALSE, expired |-> FALSE]
Waiting == [phase |-> "none", of |-> NoSession]

SessionsTypeOK ==
  /\ session \in [Sessions -> [family : Sessions \cup {NoSession}, live : BOOLEAN, expired : BOOLEAN]]
  /\ refreshing \in [Refreshes -> [phase : {"none", "rotate", "reuse", "expire"},
                                   of : Sessions \cup {NoSession}]]
  /\ eligible \in BOOLEAN
  /\ resetToken \in [Resets -> {"none", "open", "checked", "used"}]

Opened(s) == session[s].family # NoSession

----------------------------------------------------------------------------
(* login, logout and passwords.                                            *)

Login(s) ==
  /\ eligible /\ ~Opened(s)
  /\ \A t \in Sessions : session[t].family # s
  /\ session' = [session EXCEPT ![s] = [family |-> s, live |-> TRUE, expired |-> FALSE]]
  /\ UNCHANGED <<refreshing, eligible, resetToken>>

Logout(s) ==
  /\ session[s].live
  /\ session' = [session EXCEPT ![s].live = FALSE]
  /\ UNCHANGED <<refreshing, eligible, resetToken>>

\* One update ends every session of S that is live.
Ended(S) == [s \in Sessions |-> IF s \in S THEN [session[s] EXCEPT !.live = FALSE] ELSE session[s]]

LogoutAll ==
  /\ session' = Ended(Sessions)
  /\ UNCHANGED <<refreshing, eligible, resetToken>>

ForgotPassword(k) ==
  /\ eligible /\ resetToken[k] = "none"
  /\ resetToken' = [resetToken EXCEPT ![k] = "open"]
  /\ UNCHANGED <<session, refreshing, eligible>>

\* resetPassword reads the token; a transaction marks it, sets the password
\* and ends the sessions.
ReadResetToken(k) ==
  /\ eligible /\ resetToken[k] = "open"
  /\ resetToken' = [resetToken EXCEPT ![k] = "checked"]
  /\ UNCHANGED <<session, refreshing, eligible>>

ResetPassword(k) ==
  /\ resetToken[k] = "checked"
  /\ IF eligible
     THEN /\ resetToken' = [resetToken EXCEPT ![k] = "used"]
          /\ session' = Ended(Sessions)
     ELSE /\ resetToken' = [resetToken EXCEPT ![k] = "open"]
          /\ UNCHANGED session
  /\ UNCHANGED <<refreshing, eligible>>

\* A user, a role or an organisation is made active or not elsewhere.
SwitchUser ==
  /\ eligible' = ~eligible
  /\ UNCHANGED <<session, refreshing, resetToken>>

Expire(s) ==
  /\ Opened(s) /\ ~session[s].expired
  /\ session' = [session EXCEPT ![s].expired = TRUE]
  /\ UNCHANGED <<refreshing, eligible, resetToken>>

----------------------------------------------------------------------------
(* refresh.                                                                *)

ReadSession(r, s) ==
  /\ refreshing[r] = Waiting /\ Opened(s)
  /\ refreshing' = [refreshing EXCEPT ![r] =
       [of |-> s, phase |-> IF ~session[s].live THEN "reuse"
                            ELSE IF session[s].expired \/ ~eligible THEN "expire" ELSE "rotate"]]
  /\ UNCHANGED <<session, eligible, resetToken>>

\* Mutant of Replaceable: the session that was read is replaced.
ReplaceableAsRead(s) == Opened(s)

\* The WHERE of the update: not revoked since it was read.
Replaceable(s) == session[s].live

Rotate(r, n) ==
  LET s == refreshing[r].of IN
  /\ refreshing[r].phase = "rotate"
  /\ Replaceable(s)
  /\ ~Opened(n)
  /\ session' = [session EXCEPT ![s].live = FALSE,
                   ![n] = [family |-> session[s].family, live |-> TRUE, expired |-> FALSE]]
  /\ refreshing' = [refreshing EXCEPT ![r] = Waiting]
  /\ UNCHANGED <<eligible, resetToken>>

MissRotation(r) ==
  /\ refreshing[r].phase = "rotate"
  /\ ~Replaceable(refreshing[r].of)
  /\ refreshing' = [refreshing EXCEPT ![r].phase = "reuse"]
  /\ UNCHANGED <<session, eligible, resetToken>>

FamilyOf(s) == {t \in Sessions : session[t].family = session[s].family}

\* handleRefreshReuse.
EndFamily(r) ==
  /\ refreshing[r].phase = "reuse"
  /\ session' = Ended(FamilyOf(refreshing[r].of))
  /\ refreshing' = [refreshing EXCEPT ![r] = Waiting]
  /\ UNCHANGED <<eligible, resetToken>>

EndExpired(r) ==
  /\ refreshing[r].phase = "expire"
  /\ session' = Ended({refreshing[r].of})
  /\ refreshing' = [refreshing EXCEPT ![r] = Waiting]
  /\ UNCHANGED <<eligible, resetToken>>

\* A statement fails or the process dies.
AbortRefresh(r) ==
  /\ refreshing[r] # Waiting
  /\ refreshing' = [refreshing EXCEPT ![r] = Waiting]
  /\ UNCHANGED <<session, eligible, resetToken>>

----------------------------------------------------------------------------
SessionsInit ==
  /\ session = [s \in Sessions |-> NotOpened]
  /\ refreshing = [r \in Refreshes |-> Waiting]
  /\ eligible = TRUE
  /\ resetToken = [k \in Resets |-> "none"]

SessionsNext ==
  \/ \E s \in Sessions :
       \/ Login(s) \/ Logout(s) \/ Expire(s)
       \/ \E r \in Refreshes : ReadSession(r, s) \/ Rotate(r, s)
  \/ LogoutAll \/ SwitchUser
  \/ \E k \in Resets : ForgotPassword(k) \/ ReadResetToken(k) \/ ResetPassword(k)
  \/ \E r \in Refreshes : MissRotation(r) \/ EndFamily(r) \/ EndExpired(r) \/ AbortRefresh(r)

SessionsSpec == SessionsInit /\ [][SessionsNext]_sessionVars

----------------------------------------------------------------------------
(* Correctness.                                                            *)

\* A family has one live session, however many requests refresh with the same
\* token at once and whatever ends sessions in between.
FamilyHasOneLive ==
  \A s, t \in Sessions :
    session[s].live /\ session[t].live /\ session[s].family = session[t].family => s = t
============================================================================
