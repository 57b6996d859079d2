----------------------------- MODULE WebSession -----------------------------
(***************************************************************************)
(* The session as the web client keeps it, over the sessions of the API.   *)
(* The page holds an access token, the browser the cookie that renews it.  *)
(* A page has several calls under way; each one that is refused with 401   *)
(* asks for a renewal with the cookie of that moment, and is repeated once *)
(* with the token it got.  A call here is also the refresh it may ask for. *)
(***************************************************************************)
EXTENDS AuthSessions

VARIABLES
  page,   \* "useAuthStore" and the cookie, each naming a session
  stale,  \* sessions whose access token has expired
  call,   \* "request": where a call is, and the session its token or cookie names
  left,   \* history: somebody or something other than the calls ended a session
  raced   \* history: two calls asked for a renewal with the same cookie

webVars == <<session, refreshing, eligible, resetToken, page, stale, call, left, raced>>

SessionOrNone == Sessions \cup {NoSession}
NoCall == [phase |-> "none", with |-> NoSession]

WebTypeOK ==
  /\ SessionsTypeOK
  /\ page \in [status : {"authenticated", "unauthenticated"}, token : SessionOrNone,
               cookie : SessionOrNone]
  /\ stale \subseteq Sessions
  /\ call \in [Refreshes -> [phase : {"none", "sent", "refused", "asking", "renewed", "denied",
                                      "repeated"}, with : SessionOrNone]]
  /\ left \in BOOLEAN
  /\ raced \in BOOLEAN

----------------------------------------------------------------------------
(* The page.                                                               *)

LogIn(s) ==
  /\ page.status = "unauthenticated"
  /\ Login(s)
  /\ page' = [status |-> "authenticated", token |-> s, cookie |-> s]
  /\ UNCHANGED <<stale, call, left, raced>>

LogOut ==
  /\ page.status = "authenticated"
  /\ session' = Ended({page.cookie})
  /\ page' = [status |-> "unauthenticated", token |-> NoSession, cookie |-> NoSession]
  /\ left' = TRUE
  /\ UNCHANGED <<refreshing, eligible, resetToken, stale, call, raced>>

\* Another device, an administrator or time ends sessions.
EndElsewhere ==
  /\ LogoutAll \/ SwitchUser \/ \E s \in Sessions : Expire(s)
  /\ left' = TRUE
  /\ UNCHANGED <<page, stale, call, raced>>

TokenExpires(s) ==
  /\ Opened(s) /\ s \notin stale
  /\ stale' = stale \cup {s}
  /\ UNCHANGED <<session, refreshing, eligible, resetToken, page, call, left, raced>>

----------------------------------------------------------------------------
(* request.                                                                *)

Goes(q, phase, with) == call' = [call EXCEPT ![q] = [phase |-> phase, with |-> with]]

Send(q) ==
  /\ page.status = "authenticated" /\ call[q] = NoCall
  /\ Goes(q, "sent", page.token)
  /\ UNCHANGED <<session, refreshing, eligible, resetToken, page, stale, left, raced>>

\* JwtAuthGuard: the token is valid and so is the session it names.
Accepted(s) == s \notin stale /\ eligible /\ session[s].live /\ ~session[s].expired

\* Mutant of AnswerCall: a call that is refused does not ask for a renewal.
AnswerOrDeny(q) ==
  /\ call[q].phase \in {"sent", "repeated"}
  /\ IF call[q].phase = "repeated" \/ Accepted(call[q].with)
     THEN Goes(q, "none", NoSession)
     ELSE Goes(q, "denied", NoSession)
  /\ UNCHANGED <<session, refreshing, eligible, resetToken, page, stale, left, raced>>

AnswerCall(q) ==
  /\ call[q].phase \in {"sent", "repeated"}
  /\ IF call[q].phase = "repeated" \/ Accepted(call[q].with)
     THEN Goes(q, "none", NoSession)
     ELSE Goes(q, "refused", NoSession)
  /\ UNCHANGED <<session, refreshing, eligible, resetToken, page, stale, left, raced>>

\* refreshSession: the browser sends the cookie it holds.
AskRenewal(q) ==
  /\ call[q].phase = "refused"
  /\ IF page.cookie = NoSession THEN Goes(q, "denied", NoSession) ELSE Goes(q, "asking", page.cookie)
  /\ raced' = (raced \/ \E r \in Refreshes \ {q} :
                         call[r].phase \in {"asking", "renewed"} /\ page.cookie # NoSession)
  /\ UNCHANGED <<session, refreshing, eligible, resetToken, page, stale, left>>

ReadCookie(q) ==
  /\ call[q].phase = "asking"
  /\ ReadSession(q, call[q].with)
  /\ UNCHANGED <<page, stale, call, left, raced>>

Renew(q, n) ==
  /\ Rotate(q, n)
  /\ Goes(q, "renewed", n)
  /\ UNCHANGED <<page, stale, left, raced>>

MissRenewal(q) == MissRotation(q) /\ UNCHANGED <<page, stale, call, left, raced>>

Deny(q) ==
  /\ EndFamily(q) \/ EndExpired(q)
  /\ Goes(q, "denied", NoSession)
  /\ UNCHANGED <<page, stale, left, raced>>

\* The request for a renewal fails on its way or in the server.
LoseRenewal(q) ==
  /\ AbortRefresh(q)
  /\ Goes(q, "denied", NoSession)
  /\ left' = TRUE
  /\ UNCHANGED <<page, stale, raced>>

ReceiveRenewal(q) ==
  /\ call[q].phase = "renewed"
  /\ page' = [status |-> "authenticated", token |-> call[q].with, cookie |-> call[q].with]
  /\ Goes(q, "repeated", call[q].with)
  /\ UNCHANGED <<session, refreshing, eligible, resetToken, stale, left, raced>>

ReceiveDenial(q) ==
  /\ call[q].phase = "denied"
  /\ page' = [page EXCEPT !.status = "unauthenticated", !.token = NoSession]
  /\ Goes(q, "none", NoSession)
  /\ UNCHANGED <<session, refreshing, eligible, resetToken, stale, left, raced>>

----------------------------------------------------------------------------
WebInit ==
  /\ SessionsInit
  /\ page = [status |-> "unauthenticated", token |-> NoSession, cookie |-> NoSession]
  /\ stale = {}
  /\ call = [q \in Refreshes |-> NoCall]
  /\ left = FALSE
  /\ raced = FALSE

WebNext ==
  \/ \E s \in Sessions : LogIn(s) \/ TokenExpires(s)
  \/ LogOut \/ EndElsewhere
  \/ \E q \in Refreshes :
       \/ Send(q) \/ AnswerCall(q) \/ AskRenewal(q) \/ ReadCookie(q)
       \/ \E n \in Sessions : Renew(q, n)
       \/ MissRenewal(q) \/ Deny(q) \/ LoseRenewal(q) \/ ReceiveRenewal(q) \/ ReceiveDenial(q)

WebSpec == WebInit /\ [][WebNext]_webVars

----------------------------------------------------------------------------
(* Correctness.                                                            *)

\* The user of a page is logged out only when somebody ended the session, a renewal
\* failed, or two calls asked for one with the same cookie.
LostOnlyByRace ==
  page.status = "unauthenticated" /\ (\E s \in Sessions : Opened(s)) => left \/ raced

\* Divergence: a page whose token expires renews it with the cookie, and is logged
\* out only when somebody ended the session (docs/navigation.md).
LeavesOnlyWhenEnded ==
  page.status = "unauthenticated" /\ (\E s \in Sessions : Opened(s)) => left

\* Divergence: once the user has logged out, a renewal that was under way does not
\* open the page again (docs/authentication.md).
StaysLoggedOut ==
  [][page.status = "unauthenticated" /\ page'.status = "authenticated"
       => \E s \in Sessions : ~Opened(s) /\ session'[s].family = s]_webVars
=============================================================================
