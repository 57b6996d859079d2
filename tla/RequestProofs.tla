---------------------------- MODULE RequestProofs ----------------------------
(***************************************************************************)
(* What TLAPS proves of what comes in from outside: of AuthSessions, for   *)
(* any number of sessions, requests to refresh and tokens to reset a       *)
(* password; of WebSession, for any number of calls under way; and of      *)
(* WhatsAppInbound, for any webhooks, messages, pollers and listeners.     *)
(***************************************************************************)
EXTENDS WebSession, WhatsAppInbound, FiniteSetTheorems, TLAPS

----------------------------------------------------------------------------
(* Sessions.                                                               *)

\* A request past its read remembers a session.
ReadsASession == \A r \in Refreshes : refreshing[r].phase # "none" => refreshing[r].of \in Sessions

SessionsInv == SessionsTypeOK /\ ReadsASession /\ FamilyHasOneLive

\* What ends sessions changes nothing but whether they are live, and revives none.
LEMMA EndedOnlyEnds ==
  ASSUME SessionsTypeOK, NEW S
  PROVE  /\ Ended(S) \in [Sessions -> [family : Sessions \cup {NoSession}, live : BOOLEAN, expired : BOOLEAN]]
         /\ \A s \in Sessions : /\ Ended(S)[s].family = session[s].family
                                /\ Ended(S)[s].live => session[s].live
  BY DEF SessionsTypeOK, Ended

\* A step that keeps families and revives no session keeps one live session per family.
LEMMA OneLiveKept ==
  ASSUME FamilyHasOneLive,
         \A s \in Sessions : /\ session'[s].family = session[s].family
                             /\ session'[s].live => session[s].live
  PROVE  FamilyHasOneLive'
  BY DEF FamilyHasOneLive

LEMMA SessionsStart == SessionsInit => SessionsInv
  BY SessionsAssumption DEF SessionsInit, SessionsInv, SessionsTypeOK, ReadsASession, FamilyHasOneLive,
                            NotOpened, Waiting

LEMMA SessionsStepKeeps ==
  ASSUME SessionsInv, [SessionsNext]_sessionVars
  PROVE  SessionsInv'
<1> USE DEF SessionsInv
<1>1. ASSUME NEW s \in Sessions, Login(s) PROVE SessionsInv'
  <2>1. SessionsTypeOK' BY <1>1 DEF Login, SessionsTypeOK
  <2>2. ReadsASession' BY <1>1 DEF Login, ReadsASession
  <2>3. FamilyHasOneLive'
    BY <1>1 DEF Login, FamilyHasOneLive, SessionsTypeOK
  <2> QED BY <2>1, <2>2, <2>3
<1>2. ASSUME NEW s \in Sessions, Logout(s) PROVE SessionsInv'
  <2>1. SessionsTypeOK' BY <1>2 DEF Logout, SessionsTypeOK
  <2>2. ReadsASession' BY <1>2 DEF Logout, ReadsASession
  <2>3. FamilyHasOneLive' BY <1>2, OneLiveKept DEF Logout, SessionsTypeOK
  <2> QED BY <2>1, <2>2, <2>3
<1>3. ASSUME NEW s \in Sessions, Expire(s) PROVE SessionsInv'
  <2>1. SessionsTypeOK' BY <1>3 DEF Expire, SessionsTypeOK
  <2>2. ReadsASession' BY <1>3 DEF Expire, ReadsASession
  <2>3. FamilyHasOneLive' BY <1>3, OneLiveKept DEF Expire, SessionsTypeOK
  <2> QED BY <2>1, <2>2, <2>3
<1>4. ASSUME NEW s \in Sessions, NEW r \in Refreshes, ReadSession(r, s) PROVE SessionsInv'
  <2>1. SessionsTypeOK' BY <1>4 DEF ReadSession, SessionsTypeOK
  <2>2. ReadsASession' BY <1>4 DEF ReadSession, ReadsASession, SessionsTypeOK
  <2>3. FamilyHasOneLive' BY <1>4 DEF ReadSession, FamilyHasOneLive
  <2> QED BY <2>1, <2>2, <2>3
<1>5. ASSUME NEW n \in Sessions, NEW r \in Refreshes, Rotate(r, n) PROVE SessionsInv'
  <2> DEFINE s == refreshing[r].of
  <2>1. s \in Sessions /\ s # n
    BY <1>5, SessionsAssumption DEF Rotate, ReadsASession, Replaceable, Opened, SessionsTypeOK
  <2>2. /\ session'[n] = [family |-> session[s].family, live |-> TRUE, expired |-> FALSE]
        /\ session'[s] = [session[s] EXCEPT !.live = FALSE]
        /\ \A t \in Sessions \ {s, n} : session'[t] = session[t]
    BY <1>5, <2>1 DEF Rotate, SessionsTypeOK
  <2>3. SessionsTypeOK'
    BY <1>5, <2>1 DEF Rotate, SessionsTypeOK, Waiting
  <2>4. ReadsASession' BY <1>5 DEF Rotate, ReadsASession, Waiting, SessionsTypeOK
  <2>5. FamilyHasOneLive'
    <3>1. session[s].live BY <1>5 DEF Rotate, Replaceable
    <3>2. ~session'[s].live BY <2>1, <2>2 DEF SessionsTypeOK
    <3>3. \A t \in Sessions \ {s, n} : session[t].live => session[t].family # session[s].family
      BY <2>1, <3>1 DEF FamilyHasOneLive
    <3>4. session'[n].live /\ session'[n].family = session[s].family BY <2>2
    <3>5. \A t \in Sessions \ {n} :
            session'[t].live => t # s /\ session'[t] = session[t] /\ session[t].family # session[s].family
      BY <2>2, <3>2, <3>3
    <3> HIDE DEF s
    <3> QED BY <3>4, <3>5 DEF FamilyHasOneLive
  <2> QED BY <2>3, <2>4, <2>5
<1>6. CASE LogoutAll
  <2>1. SessionsTypeOK' BY <1>6, EndedOnlyEnds DEF LogoutAll, SessionsTypeOK
  <2>2. ReadsASession' BY <1>6 DEF LogoutAll, ReadsASession
  <2>3. FamilyHasOneLive' BY <1>6, EndedOnlyEnds, OneLiveKept DEF LogoutAll
  <2> QED BY <2>1, <2>2, <2>3
<1>7. CASE SwitchUser
  BY <1>7 DEF SwitchUser, SessionsTypeOK, ReadsASession, FamilyHasOneLive
<1>8. ASSUME NEW k \in Resets, ForgotPassword(k) \/ ReadResetToken(k) PROVE SessionsInv'
  BY <1>8 DEF ForgotPassword, ReadResetToken, SessionsTypeOK, ReadsASession, FamilyHasOneLive
<1>9. ASSUME NEW k \in Resets, ResetPassword(k) PROVE SessionsInv'
  <2>1. SessionsTypeOK' BY <1>9, EndedOnlyEnds DEF ResetPassword, SessionsTypeOK
  <2>2. ReadsASession' BY <1>9 DEF ResetPassword, ReadsASession
  <2>3. FamilyHasOneLive' BY <1>9, EndedOnlyEnds, OneLiveKept DEF ResetPassword
  <2> QED BY <2>1, <2>2, <2>3
<1>10. ASSUME NEW r \in Refreshes, MissRotation(r) \/ AbortRefresh(r) PROVE SessionsInv'
  <2>1. SessionsTypeOK' BY <1>10 DEF MissRotation, AbortRefresh, SessionsTypeOK, Waiting
  <2>2. ReadsASession' BY <1>10 DEF MissRotation, AbortRefresh, ReadsASession, Waiting, SessionsTypeOK
  <2>3. FamilyHasOneLive' BY <1>10 DEF MissRotation, AbortRefresh, FamilyHasOneLive
  <2> QED BY <2>1, <2>2, <2>3
<1>11. ASSUME NEW r \in Refreshes, EndFamily(r) \/ EndExpired(r) PROVE SessionsInv'
  <2>0. PICK S : session' = Ended(S) BY <1>11 DEF EndFamily, EndExpired
  <2>1. SessionsTypeOK' BY <1>11, <2>0, EndedOnlyEnds DEF EndFamily, EndExpired, SessionsTypeOK, Waiting
  <2>2. ReadsASession' BY <1>11 DEF EndFamily, EndExpired, ReadsASession, Waiting, SessionsTypeOK
  <2>3. FamilyHasOneLive' BY <2>0, EndedOnlyEnds, OneLiveKept
  <2> QED BY <2>1, <2>2, <2>3
<1>12. CASE UNCHANGED sessionVars
  BY <1>12 DEF sessionVars, SessionsTypeOK, ReadsASession, FamilyHasOneLive
<1> QED
  BY <1>1, <1>2, <1>3, <1>4, <1>5, <1>6, <1>7, <1>8, <1>9, <1>10, <1>11, <1>12 DEF SessionsNext

LEMMA SessionsAlways == SessionsSpec => []SessionsInv
<1>1. SessionsInv /\ [SessionsNext]_sessionVars => SessionsInv' BY SessionsStepKeeps
<1> QED BY <1>1, SessionsStart, PTL DEF SessionsSpec

\* A family has one live session whatever requests race, for any number of them.
THEOREM OneLiveSession == SessionsSpec => []FamilyHasOneLive
<1>1. SessionsInv => FamilyHasOneLive BY DEF SessionsInv
<1> QED BY <1>1, SessionsAlways, PTL

\* A session that ended is never live again: sessions and families are not
\* reused, and no update brings one back (auth.service.ts, revokedAt).
EndedStaysEnded ==
  [][\A s \in Sessions : Opened(s) /\ ~session[s].live => ~session'[s].live]_sessionVars

THEOREM NoSessionRevived == SessionsSpec => EndedStaysEnded
<1>1. ASSUME SessionsInv, [SessionsNext]_sessionVars
      PROVE  [\A s \in Sessions : Opened(s) /\ ~session[s].live => ~session'[s].live]_sessionVars
  <2> SUFFICES ASSUME SessionsNext, NEW s \in Sessions, Opened(s), ~session[s].live
               PROVE  ~session'[s].live
    BY <1>1
  <2>0. SessionsTypeOK BY <1>1 DEF SessionsInv
  <2>1. ASSUME NEW t \in Sessions, Login(t) \/ Logout(t) \/ Expire(t) PROVE ~session'[s].live
    BY <2>0, <2>1 DEF Login, Logout, Expire, SessionsTypeOK, Opened
  <2>2. ASSUME NEW n \in Sessions, NEW r \in Refreshes, Rotate(r, n) PROVE ~session'[s].live
    BY <2>0, <2>2 DEF Rotate, SessionsTypeOK, Opened
  <2>3. ASSUME NEW S, session' = Ended(S) PROVE ~session'[s].live
    BY <2>0, <2>3, EndedOnlyEnds
  <2>4. ASSUME UNCHANGED session PROVE ~session'[s].live BY <2>4
  <2>5. \/ UNCHANGED session
        \/ \E S : session' = Ended(S)
        \/ \E t \in Sessions : Login(t) \/ Logout(t) \/ Expire(t) \/ \E r \in Refreshes : Rotate(r, t)
    BY DEF SessionsNext, ReadSession, LogoutAll, SwitchUser, ForgotPassword, ReadResetToken,
           ResetPassword, MissRotation, EndFamily, EndExpired, AbortRefresh
  <2> QED BY <2>1, <2>2, <2>3, <2>4, <2>5
<1> QED BY <1>1, SessionsAlways, PTL DEF SessionsSpec, EndedStaysEnded
----------------------------------------------------------------------------
(* The page, over the sessions (WebSession).  As long as nothing but its    *)
(* calls has ended a session and no two of them have asked for a renewal    *)
(* with one cookie, at most one call renews, and the session of the page,   *)
(* or the one that call brings, is live.                                    *)

Renewing(q) == call[q].phase \in {"asking", "renewed"}
NobodyRenewed == \A q \in Refreshes : call[q].phase # "renewed"

\* A call that asks for a renewal does so with a cookie.
AsksWithCookie == \A q \in Refreshes : call[q].phase = "asking" => call[q].with \in Sessions

\* Sessions are as their logins and renewals left them.
NothingEnded == eligible /\ \A s \in Sessions : ~session[s].expired

OneRenews == \A q, r \in Refreshes : Renewing(q) /\ Renewing(r) => q = r

\* Where each call may be, and the request for a renewal it has under way.
CallFits(q) ==
  /\ call[q].phase # "denied"
  /\ call[q].phase = "asking" => call[q].with = page.cookie
  /\ call[q].phase = "renewed" => call[q].with \in Sessions /\ session[call[q].with].live
  /\ refreshing[q] # Waiting => /\ call[q].phase = "asking"
                                /\ refreshing[q].phase = "rotate"
                                /\ refreshing[q].of = call[q].with

PageFits ==
  /\ page.status = "authenticated" => /\ page.cookie \in Sessions
                                      /\ NobodyRenewed => session[page.cookie].live
  /\ page.status = "unauthenticated" => /\ \A s \in Sessions : ~Opened(s)
                                        /\ \A q \in Refreshes : call[q] = NoCall

Calm == NothingEnded /\ OneRenews /\ (\A q \in Refreshes : CallFits(q)) /\ PageFits

WebInv == SessionsInv /\ WebTypeOK /\ AsksWithCookie /\ (left \/ raced \/ Calm)

LEMMA WebStart == WebInit => WebInv
<1> SUFFICES ASSUME WebInit PROVE WebInv
  OBVIOUS
<1>1. SessionsInv
  BY SessionsStart DEF WebInit
<1>2. WebTypeOK /\ AsksWithCookie
  BY <1>1 DEF WebInit, WebTypeOK, SessionsInv, SessionOrNone, NoCall, AsksWithCookie
<1>3. Calm
  BY DEF WebInit, SessionsInit, Calm, NothingEnded, OneRenews, Renewing, CallFits, PageFits, NotOpened,
         NoCall, Waiting, Opened
<1> QED BY <1>1, <1>2, <1>3 DEF WebInv

\* Every step of the page is one of the sessions, or leaves them alone, or ends one.
LEMMA SessionsOfTheWeb ==
  ASSUME SessionsInv, AsksWithCookie, [WebNext]_webVars
  PROVE  SessionsInv'
<1>1. ASSUME [SessionsNext]_sessionVars PROVE SessionsInv'
  BY <1>1, SessionsStepKeeps
<1>2. ASSUME NEW s \in Sessions, LogIn(s) \/ TokenExpires(s) PROVE SessionsInv'
  BY <1>1, <1>2 DEF LogIn, TokenExpires, SessionsNext, sessionVars
<1>3. CASE LogOut
  <2>1. SessionsTypeOK' /\ ReadsASession'
    BY <1>3, EndedOnlyEnds DEF LogOut, SessionsInv, SessionsTypeOK, ReadsASession
  <2>2. FamilyHasOneLive'
    BY <1>3, EndedOnlyEnds, OneLiveKept DEF LogOut, SessionsInv
  <2> QED BY <2>1, <2>2 DEF SessionsInv
<1>4. CASE EndElsewhere
  BY <1>1, <1>4 DEF EndElsewhere, SessionsNext
<1>5. ASSUME NEW q \in Refreshes,
             Send(q) \/ AnswerCall(q) \/ AskRenewal(q) \/ ReceiveRenewal(q) \/ ReceiveDenial(q)
      PROVE  SessionsInv'
  <2>1. UNCHANGED sessionVars
    BY <1>5 DEF Send, AnswerCall, AskRenewal, ReceiveRenewal, ReceiveDenial, sessionVars
  <2> QED BY <2>1, <1>1
<1>6. ASSUME NEW q \in Refreshes, ReadCookie(q) PROVE SessionsInv'
  <2>1. ReadSession(q, call[q].with) /\ call[q].with \in Sessions
    BY <1>6 DEF ReadCookie, AsksWithCookie
  <2> QED BY <2>1, <1>1 DEF SessionsNext
<1>7. ASSUME NEW q \in Refreshes, NEW n \in Sessions, Renew(q, n) PROVE SessionsInv'
  BY <1>1, <1>7 DEF Renew, SessionsNext
<1>8. ASSUME NEW q \in Refreshes, MissRenewal(q) \/ Deny(q) \/ LoseRenewal(q) PROVE SessionsInv'
  BY <1>1, <1>8 DEF MissRenewal, Deny, LoseRenewal, SessionsNext
<1>9. CASE UNCHANGED webVars
  BY <1>1, <1>9 DEF webVars, sessionVars
<1> QED BY <1>2, <1>3, <1>4, <1>5, <1>6, <1>7, <1>8, <1>9 DEF WebNext

\* Where the calls and the page may be.
LEMMA TypesOfTheWeb ==
  ASSUME SessionsInv, WebTypeOK, AsksWithCookie, [WebNext]_webVars
  PROVE  WebTypeOK' /\ AsksWithCookie'
<1>1. SessionsTypeOK'
  BY SessionsOfTheWeb DEF SessionsInv
<1>2. ASSUME UNCHANGED <<page, stale, call>>, left' \in BOOLEAN, raced' \in BOOLEAN
      PROVE  WebTypeOK' /\ AsksWithCookie'
  BY <1>1, <1>2 DEF WebTypeOK, AsksWithCookie
<1>3. ASSUME NEW q \in Refreshes, NEW w \in SessionOrNone,
             NEW phase \in {"none", "sent", "refused", "asking", "renewed", "denied", "repeated"},
             Goes(q, phase, w), phase = "asking" => w \in Sessions,
             UNCHANGED stale, left' \in BOOLEAN, raced' \in BOOLEAN,
             page' \in [status : {"authenticated", "unauthenticated"}, token : SessionOrNone,
                        cookie : SessionOrNone]
      PROVE  WebTypeOK' /\ AsksWithCookie'
  <2>1. call' = [call EXCEPT ![q] = [phase |-> phase, with |-> w]]
    BY <1>3 DEF Goes
  <2>2. AsksWithCookie'
    BY <2>1, <1>3 DEF AsksWithCookie, WebTypeOK
  <2>3. WebTypeOK'
    BY <2>1, <1>1, <1>3 DEF WebTypeOK
  <2> QED BY <2>2, <2>3
<1>4. NoSession \in SessionOrNone /\ \A s \in Sessions : s \in SessionOrNone
  BY DEF SessionOrNone
<1>5. page \in [status : {"authenticated", "unauthenticated"}, token : SessionOrNone,
                cookie : SessionOrNone] /\ left \in BOOLEAN /\ raced \in BOOLEAN
      /\ \A q \in Refreshes : call[q].with \in SessionOrNone
  BY DEF WebTypeOK
<1>6. ASSUME NEW s \in Sessions, LogIn(s) PROVE WebTypeOK' /\ AsksWithCookie'
  BY <1>1, <1>4, <1>6 DEF LogIn, WebTypeOK, AsksWithCookie
<1>7. ASSUME NEW s \in Sessions, TokenExpires(s) PROVE WebTypeOK' /\ AsksWithCookie'
  BY <1>1, <1>7 DEF TokenExpires, WebTypeOK, AsksWithCookie
<1>8. CASE LogOut
  BY <1>1, <1>4, <1>8 DEF LogOut, WebTypeOK, AsksWithCookie
<1>9. CASE EndElsewhere
  BY <1>2, <1>5, <1>9 DEF EndElsewhere
<1>10. ASSUME NEW q \in Refreshes, Send(q) PROVE WebTypeOK' /\ AsksWithCookie'
  BY <1>3, <1>5, <1>10 DEF Send
<1>11. ASSUME NEW q \in Refreshes, AnswerCall(q) PROVE WebTypeOK' /\ AsksWithCookie'
  BY <1>3, <1>4, <1>5, <1>11 DEF AnswerCall
<1>12. ASSUME NEW q \in Refreshes, AskRenewal(q) PROVE WebTypeOK' /\ AsksWithCookie'
  <2>1. raced' \in BOOLEAN /\ UNCHANGED <<page, stale, left>>
    BY <1>5, <1>12 DEF AskRenewal
  <2>2. \/ Goes(q, "denied", NoSession)
        \/ page.cookie # NoSession /\ Goes(q, "asking", page.cookie)
    BY <1>12 DEF AskRenewal
  <2> QED BY <2>1, <2>2, <1>3, <1>4, <1>5 DEF SessionOrNone
<1>13. ASSUME NEW q \in Refreshes, ReadCookie(q) \/ MissRenewal(q) PROVE WebTypeOK' /\ AsksWithCookie'
  BY <1>2, <1>5, <1>13 DEF ReadCookie, MissRenewal
<1>14. ASSUME NEW q \in Refreshes, NEW n \in Sessions, Renew(q, n) PROVE WebTypeOK' /\ AsksWithCookie'
  BY <1>3, <1>4, <1>5, <1>14 DEF Renew
<1>15. ASSUME NEW q \in Refreshes, Deny(q) \/ LoseRenewal(q) PROVE WebTypeOK' /\ AsksWithCookie'
  BY <1>3, <1>4, <1>5, <1>15 DEF Deny, LoseRenewal
<1>16. ASSUME NEW q \in Refreshes, ReceiveRenewal(q) PROVE WebTypeOK' /\ AsksWithCookie'
  BY <1>3, <1>5, <1>16 DEF ReceiveRenewal
<1>17. ASSUME NEW q \in Refreshes, ReceiveDenial(q) PROVE WebTypeOK' /\ AsksWithCookie'
  <2>1. page' = [status |-> "unauthenticated", token |-> NoSession, cookie |-> page.cookie]
    BY <1>5, <1>17 DEF ReceiveDenial
  <2> QED BY <2>1, <1>3, <1>4, <1>5, <1>17 DEF ReceiveDenial
<1>18. CASE UNCHANGED webVars
  BY <1>2, <1>5, <1>18 DEF webVars
<1> QED BY <1>6, <1>7, <1>8, <1>9, <1>10, <1>11, <1>12, <1>13, <1>14, <1>15, <1>16, <1>17, <1>18
        DEF WebNext

\* What a step of the calls that touches no session leaves calm.
LEMMA CalmCall ==
  ASSUME WebTypeOK, Calm, UNCHANGED sessionVars, UNCHANGED page, page.status = "authenticated",
         NEW q \in Refreshes, NEW phase \in {"none", "sent", "refused", "repeated"},
         NEW w, Goes(q, phase, w), call[q].phase # "renewed", refreshing[q] = Waiting
  PROVE  Calm'
<1>1. /\ call'[q].phase = phase
      /\ \A r \in Refreshes \ {q} : call'[r] = call[r]
      /\ UNCHANGED <<session, refreshing, eligible, page>>
  BY DEF Goes, WebTypeOK, sessionVars
<1>2. NothingEnded' /\ OneRenews'
  BY <1>1 DEF Calm, NothingEnded, OneRenews, Renewing
<1>3. ASSUME NEW r \in Refreshes PROVE CallFits(r)'
  BY <1>1 DEF Calm, CallFits
<1>4. PageFits'
  BY <1>1 DEF Calm, PageFits, NobodyRenewed
<1> QED BY <1>2, <1>3, <1>4 DEF Calm

\* A renewal that nobody disturbs replaces the session of the page.
LEMMA CalmRenewal ==
  ASSUME WebInv, Calm, NEW q \in Refreshes, NEW n \in Sessions, Renew(q, n)
  PROVE  Calm'
<1> DEFINE s == page.cookie
<1>1. /\ refreshing[q].phase = "rotate" /\ ~Opened(n)
      /\ session' = [session EXCEPT ![refreshing[q].of].live = FALSE,
                       ![n] = [family |-> session[refreshing[q].of].family, live |-> TRUE,
                               expired |-> FALSE]]
      /\ refreshing' = [refreshing EXCEPT ![q] = Waiting]
      /\ call' = [call EXCEPT ![q] = [phase |-> "renewed", with |-> n]]
      /\ UNCHANGED <<eligible, page>>
  BY DEF Renew, Rotate, Goes
<1>2. call[q].phase = "asking" /\ refreshing[q].of = s
  BY <1>1 DEF Calm, CallFits, Waiting
<1>3. page.status = "authenticated" /\ s \in Sessions
  BY <1>2 DEF Calm, PageFits, NoCall, WebInv, WebTypeOK
<1>4. /\ call'[q] = [phase |-> "renewed", with |-> n] /\ refreshing'[q] = Waiting
      /\ \A r \in Refreshes \ {q} : call'[r] = call[r] /\ refreshing'[r] = refreshing[r]
  BY <1>1 DEF WebInv, WebTypeOK, SessionsTypeOK
<1>5. \A t \in Sessions : session'[t].expired => session[t].expired
  BY <1>1, <1>2, <1>3 DEF WebInv, WebTypeOK, SessionsTypeOK
<1>6. session'[n].live
  BY <1>1 DEF WebInv, WebTypeOK, SessionsTypeOK
<1>7. \A r \in Refreshes \ {q} : ~Renewing(r)
  BY <1>2 DEF Calm, OneRenews, Renewing
<1>8. NothingEnded'
  BY <1>1, <1>5 DEF Calm, NothingEnded
<1>9. OneRenews'
  BY <1>4, <1>7 DEF OneRenews, Renewing
<1>10. ASSUME NEW r \in Refreshes PROVE CallFits(r)'
  <2>1. CASE r = q
    BY <2>1, <1>4, <1>6 DEF CallFits
  <2>2. CASE r # q
    BY <2>2, <1>4, <1>7 DEF CallFits, Calm, Renewing
  <2> QED BY <2>1, <2>2
<1>11. PageFits'
  BY <1>1, <1>3, <1>4 DEF PageFits, NobodyRenewed
<1> QED BY <1>8, <1>9, <1>10, <1>11 DEF Calm

LEMMA WebStepKeeps == WebInv /\ [WebNext]_webVars => WebInv'
<1> SUFFICES ASSUME WebInv, [WebNext]_webVars PROVE WebInv'
  OBVIOUS
<1>0. SessionsInv' /\ WebTypeOK' /\ AsksWithCookie'
  BY SessionsOfTheWeb, TypesOfTheWeb DEF WebInv
<1>t. /\ \A q \in Refreshes : call[q].phase # "none" => call[q] # NoCall
      /\ page.status \in {"authenticated", "unauthenticated"}
  BY DEF NoCall, WebInv, WebTypeOK
<1> SUFFICES ASSUME ~left', ~raced' PROVE Calm'
  BY <1>0 DEF WebInv
<1>a. ~left /\ ~raced
  <2>1. ASSUME UNCHANGED <<left, raced>> PROVE ~left /\ ~raced
    BY <2>1
  <2>2. ASSUME NEW q \in Refreshes, AskRenewal(q) PROVE ~left /\ ~raced
    BY <2>2 DEF AskRenewal
  <2>3. ~LogOut /\ ~EndElsewhere /\ \A q \in Refreshes : ~LoseRenewal(q)
    BY DEF LogOut, EndElsewhere, LoseRenewal
  <2>4. ASSUME NEW s \in Sessions, LogIn(s) \/ TokenExpires(s) PROVE UNCHANGED <<left, raced>>
    BY <2>4 DEF LogIn, TokenExpires
  <2>5. ASSUME NEW q \in Refreshes,
               \/ Send(q) \/ AnswerCall(q) \/ ReadCookie(q) \/ MissRenewal(q) \/ Deny(q)
               \/ ReceiveRenewal(q) \/ ReceiveDenial(q) \/ \E n \in Sessions : Renew(q, n)
        PROVE  UNCHANGED <<left, raced>>
    BY <2>5 DEF Send, AnswerCall, ReadCookie, MissRenewal, Deny, ReceiveRenewal, ReceiveDenial, Renew
  <2>6. CASE UNCHANGED webVars
    BY <2>6 DEF webVars
  <2> QED BY <2>1, <2>2, <2>3, <2>4, <2>5, <2>6 DEF WebNext
<1>b. Calm
  BY <1>a DEF WebInv
<1>c. \A q \in Refreshes : call[q].phase # "none" => page.status = "authenticated"
  BY <1>b, <1>t DEF Calm, PageFits
<1>1. ASSUME NEW s \in Sessions, LogIn(s) PROVE Calm'
  <2>1. /\ session' = [session EXCEPT ![s] = [family |-> s, live |-> TRUE, expired |-> FALSE]]
        /\ page' = [status |-> "authenticated", token |-> s, cookie |-> s]
        /\ UNCHANGED <<refreshing, eligible, call>>
    BY <1>1 DEF LogIn, Login
  <2>2. \A q \in Refreshes : call[q] = NoCall
    BY <1>1, <1>b DEF LogIn, Calm, PageFits
  <2>3. NothingEnded'
    BY <2>1, <1>b DEF Calm, NothingEnded, WebInv, WebTypeOK, SessionsTypeOK
  <2>4. OneRenews'
    BY <2>1, <1>b DEF Calm, OneRenews, Renewing
  <2>5. ASSUME NEW q \in Refreshes PROVE CallFits(q)'
    BY <2>1, <2>2, <1>b DEF Calm, CallFits, NoCall
  <2>6. PageFits'
    BY <2>1 DEF PageFits, WebInv, WebTypeOK, SessionsTypeOK
  <2> QED BY <2>3, <2>4, <2>5, <2>6 DEF Calm
<1>2. ASSUME UNCHANGED <<session, refreshing, eligible, page, call>> PROVE Calm'
  BY <1>2, <1>b DEF Calm, NothingEnded, OneRenews, Renewing, CallFits, PageFits, NobodyRenewed, Opened
<1>3. ASSUME NEW s \in Sessions, TokenExpires(s) PROVE Calm'
  BY <1>2, <1>3 DEF TokenExpires
<1>4. ~LogOut /\ ~EndElsewhere
  BY DEF LogOut, EndElsewhere
<1>5. ASSUME NEW q \in Refreshes, Send(q) PROVE Calm'
  <2>1. refreshing[q] = Waiting /\ call[q].phase = "none"
    BY <1>5, <1>b DEF Send, Calm, CallFits, NoCall
  <2>2. UNCHANGED sessionVars /\ UNCHANGED page /\ Goes(q, "sent", page.token)
        /\ page.status = "authenticated"
    BY <1>5 DEF Send, sessionVars
  <2> QED BY <2>1, <2>2, <1>b, CalmCall DEF WebInv
<1>6. ASSUME NEW q \in Refreshes, AnswerCall(q) PROVE Calm'
  <2>1. refreshing[q] = Waiting /\ call[q].phase \notin {"none", "renewed"}
    BY <1>6, <1>b DEF AnswerCall, Calm, CallFits
  <2>2. UNCHANGED sessionVars /\ UNCHANGED page
    BY <1>6 DEF AnswerCall, sessionVars
  <2>3. Goes(q, "none", NoSession) \/ Goes(q, "refused", NoSession)
    BY <1>6 DEF AnswerCall
  <2> QED BY <2>1, <2>2, <2>3, <1>b, <1>c, CalmCall DEF WebInv
<1>7. ASSUME NEW q \in Refreshes, AskRenewal(q) PROVE Calm'
  <2>1. call[q].phase = "refused" /\ UNCHANGED <<session, refreshing, eligible, page>>
    BY <1>7 DEF AskRenewal
  <2>2. page.status = "authenticated" /\ page.cookie \in Sessions
    BY <2>1, <1>b, <1>c DEF Calm, PageFits
  <2>3. page.cookie # NoSession
    BY <2>2, SessionsAssumption
  <2>4. \A r \in Refreshes \ {q} : ~Renewing(r)
    BY <1>7, <2>3 DEF AskRenewal, Renewing
  <2>5. Goes(q, "asking", page.cookie)
    BY <1>7, <2>3 DEF AskRenewal
  <2>6. /\ call'[q] = [phase |-> "asking", with |-> page.cookie]
        /\ \A r \in Refreshes \ {q} : call'[r] = call[r]
    BY <2>5 DEF Goes, WebInv, WebTypeOK
  <2>7. NothingEnded' /\ OneRenews'
    BY <2>1, <2>4, <2>6, <1>b DEF Calm, NothingEnded, OneRenews, Renewing
  <2>8. ASSUME NEW r \in Refreshes PROVE CallFits(r)'
    <3>1. CASE r = q
      BY <3>1, <2>1, <2>6, <1>b DEF Calm, CallFits
    <3>2. CASE r # q
      BY <3>2, <2>1, <2>6, <1>b DEF Calm, CallFits
    <3> QED BY <3>1, <3>2
  <2>9. PageFits'
    BY <2>1, <2>2, <2>6, <1>b DEF Calm, PageFits, NobodyRenewed
  <2> QED BY <2>7, <2>8, <2>9 DEF Calm
<1>8. ASSUME NEW q \in Refreshes, ReadCookie(q) PROVE Calm'
  <2>1. /\ call[q].phase = "asking"
        /\ refreshing' = [refreshing EXCEPT ![q] =
             [of |-> call[q].with, phase |-> IF ~session[call[q].with].live THEN "reuse"
                                  ELSE IF session[call[q].with].expired \/ ~eligible THEN "expire"
                                  ELSE "rotate"]]
        /\ UNCHANGED <<session, eligible, page, call>>
    BY <1>8 DEF ReadCookie, ReadSession
  <2>2. page.status = "authenticated" /\ page.cookie \in Sessions /\ call[q].with = page.cookie
    BY <2>1, <1>b, <1>c DEF Calm, PageFits, CallFits
  <2>3. NobodyRenewed
    BY <2>1, <1>b DEF Calm, OneRenews, Renewing, NobodyRenewed
  <2>4. session[call[q].with].live /\ ~session[call[q].with].expired /\ eligible
    BY <2>2, <2>3, <1>b DEF Calm, PageFits, NothingEnded
  <2>5. refreshing' = [refreshing EXCEPT ![q] = [of |-> call[q].with, phase |-> "rotate"]]
    BY <2>1, <2>4
  <2>6. /\ refreshing'[q] = [of |-> call[q].with, phase |-> "rotate"]
        /\ \A r \in Refreshes \ {q} : refreshing'[r] = refreshing[r]
    BY <2>5 DEF WebInv, WebTypeOK, SessionsTypeOK
  <2>7. NothingEnded' /\ OneRenews' /\ PageFits'
    BY <2>1, <1>b DEF Calm, NothingEnded, OneRenews, Renewing, PageFits, NobodyRenewed, Opened
  <2>8. ASSUME NEW r \in Refreshes PROVE CallFits(r)'
    <3>1. CASE r = q
      BY <3>1, <2>1, <2>2, <2>6 DEF CallFits
    <3>2. CASE r # q
      BY <3>2, <2>1, <2>6, <1>b DEF Calm, CallFits
    <3> QED BY <3>1, <3>2
  <2> QED BY <2>7, <2>8 DEF Calm
<1>9. ASSUME NEW q \in Refreshes, NEW n \in Sessions, Renew(q, n) PROVE Calm'
  BY <1>9, <1>b, CalmRenewal
<1>10. ASSUME NEW q \in Refreshes PROVE ~MissRenewal(q)
  <2>1. SUFFICES ASSUME refreshing[q].phase = "rotate" PROVE Replaceable(refreshing[q].of)
    BY DEF MissRenewal, MissRotation
  <2>2. call[q].phase = "asking" /\ refreshing[q].of = page.cookie
    BY <2>1, <1>b DEF Calm, CallFits, Waiting
  <2>3. NobodyRenewed
    BY <2>2, <1>b DEF Calm, OneRenews, Renewing, NobodyRenewed
  <2> QED BY <2>2, <2>3, <1>b, <1>c DEF Calm, PageFits, Replaceable
<1>11. ASSUME NEW q \in Refreshes PROVE ~Deny(q) /\ ~LoseRenewal(q)
  BY <1>b DEF Deny, LoseRenewal, EndFamily, EndExpired, Calm, CallFits, Waiting
<1>12. ASSUME NEW q \in Refreshes, ReceiveRenewal(q) PROVE Calm'
  <2>1. /\ call[q].phase = "renewed"
        /\ page' = [status |-> "authenticated", token |-> call[q].with, cookie |-> call[q].with]
        /\ call' = [call EXCEPT ![q] = [phase |-> "repeated", with |-> call[q].with]]
        /\ UNCHANGED <<session, refreshing, eligible>>
    BY <1>12 DEF ReceiveRenewal, Goes
  <2>2. call[q].with \in Sessions /\ session[call[q].with].live /\ refreshing[q] = Waiting
    BY <2>1, <1>b DEF Calm, CallFits
  <2>3. \A r \in Refreshes \ {q} : ~Renewing(r)
    BY <2>1, <1>b DEF Calm, OneRenews, Renewing
  <2>4. /\ call'[q] = [phase |-> "repeated", with |-> call[q].with]
        /\ \A r \in Refreshes \ {q} : call'[r] = call[r]
    BY <2>1 DEF WebInv, WebTypeOK
  <2>5. NothingEnded' /\ OneRenews'
    BY <2>1, <2>3, <2>4, <1>b DEF Calm, NothingEnded, OneRenews, Renewing
  <2>6. ASSUME NEW r \in Refreshes PROVE CallFits(r)'
    <3>1. CASE r = q
      BY <3>1, <2>1, <2>2, <2>4 DEF CallFits
    <3>2. CASE r # q
      BY <3>2, <2>1, <2>3, <2>4, <1>b DEF Calm, CallFits, Renewing
    <3> QED BY <3>1, <3>2
  <2>7. PageFits'
    BY <2>1, <2>2 DEF PageFits
  <2> QED BY <2>5, <2>6, <2>7 DEF Calm
<1>13. ASSUME NEW q \in Refreshes PROVE ~ReceiveDenial(q)
  BY <1>b DEF ReceiveDenial, Calm, CallFits
<1>14. CASE UNCHANGED webVars
  BY <1>2, <1>14 DEF webVars
<1> QED BY <1>1, <1>3, <1>4, <1>5, <1>6, <1>7, <1>8, <1>9, <1>10, <1>11, <1>12, <1>13, <1>14
        DEF WebNext

\* The user of a page is logged out only when somebody ended the session, a renewal
\* failed, or two calls asked for one with the same cookie (request and
\* refreshSession of the web client), for any number of calls under way.
THEOREM LogoutsAreExplained == WebSpec => []LostOnlyByRace
<1>1. WebInv => LostOnlyByRace
  BY DEF WebInv, Calm, PageFits, LostOnlyByRace
<1> QED BY <1>1, WebStart, WebStepKeeps, PTL DEF WebSpec

----------------------------------------------------------------------------
(* Webhooks.  Two inductive invariants.  JobsInv: a worker has stored every *)
(* message of its webhook before the position it has reached, whatever the  *)
(* others do to the row of that webhook; nothing else ever writes PROCESSED.*)
(* CountsInv: a message is inserted with its conversation's count, once.   *)


----------------------------------------------------------------------------
(* The jobs of the workers.                                                *)

JobRecords == [hook : Hooks \cup {NoHook}, at : Nat \ {0}, phase : JobPhase, seen : SUBSET Needs]

\* The job j is one of a webhook all of whose messages before j.at are in S.
JobFits(j, S) ==
  /\ j.phase # "read" => j.hook \in Hooks
  /\ j.phase = "insert" => j.at <= Len(Carries[j.hook])
  /\ j.hook \in Hooks => /\ j.at <= Len(Carries[j.hook]) + 1
                         /\ \A i \in 1 .. j.at - 1 : Carries[j.hook][i] \in S

HookTypes == hook \in [Hooks -> [st : HookStatus, ready : BOOLEAN]]

JobsInv ==
  /\ HookTypes
  /\ job \in [Workers -> JobRecords]
  /\ \A w \in Workers : JobFits(job[w], stored)

Held == JobsInv /\ ProcessedIsStored

\* The jobs ToNext and ToCatch give.
NextJob(w) == [hook |-> job[w].hook, at |-> job[w].at + 1, phase |-> "read", seen |-> {}]
CaughtJob(w) == [hook |-> job[w].hook, at |-> job[w].at, phase |-> "error", seen |-> {}]
InsertJob(w) == [hook |-> job[w].hook, at |-> job[w].at, phase |-> "insert",
                 seen |-> Present(KeyOf(Current(w)))]

LEMMA IdleIsAJob == IdleJob \in JobRecords /\ \A S : JobFits(IdleJob, S)
BY InboundAssumption DEF IdleJob, JobRecords, JobFits, JobPhase

LEMMA StartedIsAJob ==
  ASSUME NEW h \in Hooks
  PROVE  /\ [IdleJob EXCEPT !.hook = h] \in JobRecords
         /\ \A S : JobFits([IdleJob EXCEPT !.hook = h], S)
<1>1. Len(Carries[h]) \in Nat
  BY InboundAssumption
<1>. QED BY <1>1 DEF IdleJob, JobRecords, JobFits, JobPhase

LEMMA JobSteps ==
  ASSUME JobsInv, NEW w \in Workers
  PROVE  /\ ToNext(w) = [job EXCEPT ![w] = NextJob(w)]
         /\ ToCatch(w) = [job EXCEPT ![w] = CaughtJob(w)]
         /\ [job EXCEPT ![w].phase = "insert", ![w].seen = Present(KeyOf(Current(w)))]
              = [job EXCEPT ![w] = InsertJob(w)]
<1>1. job \in [Workers -> JobRecords] /\ job[w] \in JobRecords
  BY DEF JobsInv
<1>2. ToNext(w) = [job EXCEPT ![w] = NextJob(w)]
  <2>. DEFINE j == [job EXCEPT ![w].at = @ + 1, ![w].phase = "read", ![w].seen = {}]
  <2>1. DOMAIN j = Workers /\ \A v \in Workers \ {w} : j[v] = job[v]
    BY <1>1
  <2>2. j[w] = NextJob(w)
    BY <1>1 DEF NextJob, JobRecords
  <2>3. j = [v \in DOMAIN j |-> j[v]]
    BY <1>1
  <2>4. j = [v \in Workers |-> IF v = w THEN NextJob(w) ELSE job[v]]
    BY <2>1, <2>2, <2>3
  <2>. QED BY <1>1, <2>4 DEF ToNext
<1>3. ToCatch(w) = [job EXCEPT ![w] = CaughtJob(w)]
  <2>. DEFINE j == [job EXCEPT ![w].phase = "error", ![w].seen = {}]
  <2>1. DOMAIN j = Workers /\ \A v \in Workers \ {w} : j[v] = job[v]
    BY <1>1
  <2>2. j[w] = CaughtJob(w)
    BY <1>1 DEF CaughtJob, JobRecords
  <2>3. j = [v \in DOMAIN j |-> j[v]]
    BY <1>1
  <2>4. j = [v \in Workers |-> IF v = w THEN CaughtJob(w) ELSE job[v]]
    BY <2>1, <2>2, <2>3
  <2>. QED BY <1>1, <2>4 DEF ToCatch
<1>4. [job EXCEPT ![w].phase = "insert", ![w].seen = Present(KeyOf(Current(w)))]
        = [job EXCEPT ![w] = InsertJob(w)]
  <2>. DEFINE j == [job EXCEPT ![w].phase = "insert", ![w].seen = Present(KeyOf(Current(w)))]
  <2>1. DOMAIN j = Workers /\ \A v \in Workers \ {w} : j[v] = job[v]
    BY <1>1
  <2>2. j[w] = InsertJob(w)
    BY <1>1 DEF InsertJob, JobRecords
  <2>3. j = [v \in DOMAIN j |-> j[v]]
    BY <1>1
  <2>4. j = [v \in Workers |-> IF v = w THEN InsertJob(w) ELSE job[v]]
    BY <2>1, <2>2, <2>3
  <2>. QED BY <1>1, <2>4
<1>. QED BY <1>2, <1>3, <1>4

\* The message a worker is at is one of its webhook's.
LEMMA CurrentIsAMessage ==
  ASSUME JobsInv, NEW w \in Workers, job[w].hook \in Hooks, MoreToDo(w)
  PROVE  Current(w) \in Messages /\ job[w].at \in 1 .. Len(Carries[job[w].hook])
<1>1. Carries[job[w].hook] \in Seq(Messages) /\ job[w].at \in Nat \ {0}
  BY InboundAssumption DEF JobsInv, JobRecords
<1>. QED BY <1>1 DEF Current, MoreToDo

\* One job is replaced by one that fits, and nothing is deleted.
LEMMA JobReplaced ==
  ASSUME JobsInv, NEW w \in Workers, NEW j \in JobRecords, job' = [job EXCEPT ![w] = j],
         stored \subseteq stored', JobFits(j, stored'), HookTypes'
  PROVE  JobsInv'
<1>1. job' \in [Workers -> JobRecords]
  BY DEF JobsInv
<1>2. ASSUME NEW v \in Workers PROVE JobFits(job'[v], stored')
  <2>1. CASE v = w
    BY <2>1 DEF JobsInv
  <2>2. CASE v # w
    <3>1. job'[v] = job[v] /\ JobFits(job[v], stored)
      BY <2>2 DEF JobsInv
    <3>. QED BY <3>1 DEF JobFits
  <2>. QED BY <2>1, <2>2
<1>. QED BY <1>1, <1>2 DEF JobsInv

\* The jobs stay, and nothing is deleted.
LEMMA JobsKept ==
  ASSUME JobsInv, UNCHANGED job, stored \subseteq stored', HookTypes'
  PROVE  JobsInv'
<1>1. ASSUME NEW v \in Workers PROVE JobFits(job[v], stored')
  BY DEF JobsInv, JobFits
<1>. QED BY <1>1 DEF JobsInv

\* A job that is at a stored message, or has just stored it, may go on.
LEMMA NextFits ==
  ASSUME JobsInv, NEW w \in Workers, job[w].hook \in Hooks, MoreToDo(w), NEW S,
         stored \subseteq S, Current(w) \in S
  PROVE  NextJob(w) \in JobRecords /\ JobFits(NextJob(w), S)
<1>1. job[w] \in JobRecords /\ JobFits(job[w], stored)
  BY DEF JobsInv
<1>2. Len(Carries[job[w].hook]) \in Nat /\ job[w].at \in Nat \ {0}
  BY <1>1, InboundAssumption DEF JobRecords
<1>3. job[w].at + 1 <= Len(Carries[job[w].hook]) + 1
  BY <1>2 DEF MoreToDo
<1>4. \A i \in 1 .. (job[w].at + 1) - 1 : Carries[job[w].hook][i] \in S
  <2>1. SUFFICES ASSUME NEW i \in 1 .. (job[w].at + 1) - 1
                 PROVE  Carries[job[w].hook][i] \in S
    OBVIOUS
  <2>2. i = job[w].at \/ i \in 1 .. job[w].at - 1
    BY <1>2
  <2>3. CASE i = job[w].at
    BY <2>3 DEF Current
  <2>4. CASE i \in 1 .. job[w].at - 1
    BY <2>4, <1>1 DEF JobFits
  <2>. QED BY <2>2, <2>3, <2>4
<1>5. NextJob(w) \in JobRecords
  BY <1>1, <1>2 DEF NextJob, JobRecords, JobPhase
<1>. QED BY <1>3, <1>4, <1>5 DEF NextJob, JobFits

LEMMA CaughtFits ==
  ASSUME JobsInv, NEW w \in Workers, job[w].hook \in Hooks
  PROVE  CaughtJob(w) \in JobRecords /\ JobFits(CaughtJob(w), stored)
<1>1. job[w] \in JobRecords /\ JobFits(job[w], stored)
  BY DEF JobsInv
<1>. QED BY <1>1 DEF CaughtJob, JobRecords, JobFits, JobPhase

LEMMA InsertFits ==
  ASSUME JobsInv, NEW w \in Workers, job[w].hook \in Hooks, MoreToDo(w)
  PROVE  InsertJob(w) \in JobRecords /\ JobFits(InsertJob(w), stored)
<1>1. job[w] \in JobRecords /\ JobFits(job[w], stored)
  BY DEF JobsInv
<1>2. Present(KeyOf(Current(w))) \in SUBSET Needs
  BY DEF Present
<1>. QED BY <1>1, <1>2 DEF InsertJob, JobRecords, JobFits, JobPhase, MoreToDo

LEMMA JobsInit == InboundInit => Held
<1>1. SUFFICES ASSUME InboundInit PROVE Held
  OBVIOUS
<1>2. HookTypes
  BY <1>1 DEF InboundInit, HookTypes, Hook, HookStatus
<1>3. job = [w \in Workers |-> IdleJob]
  BY <1>1 DEF InboundInit
<1>4. JobsInv
  BY <1>2, <1>3, IdleIsAJob DEF JobsInv
<1>5. ProcessedIsStored
  BY <1>1 DEF ProcessedIsStored, InboundInit, Hook
<1>. QED BY <1>4, <1>5 DEF Held

\* Nothing is deleted, and no webhook becomes PROCESSED.
LEMMA StillStored ==
  ASSUME ProcessedIsStored, stored \subseteq stored',
         \A h \in Hooks : hook'[h].st = "PROCESSED" => hook[h].st = "PROCESSED"
  PROVE  ProcessedIsStored'
BY DEF ProcessedIsStored

LEMMA JobsStep == Held /\ [InboundNext]_inboundVars => Held'
<1>. SUFFICES ASSUME Held, [InboundNext]_inboundVars PROVE Held'
  OBVIOUS
<1>. USE DEF Held
<1>r. job \in [Workers -> JobRecords] /\ HookTypes
  BY DEF JobsInv
<1>q. ASSUME UNCHANGED <<hook, stored>> PROVE HookTypes' /\ ProcessedIsStored'
  BY <1>q DEF JobsInv, HookTypes, ProcessedIsStored
<1>s. ASSUME UNCHANGED <<hook, job, stored>> PROVE Held'
  BY <1>s, <1>q, JobsKept
<1>1. ASSUME NEW h \in Hooks, Receive(h) \/ ElapseHook(h) PROVE Held'
  <2>1. UNCHANGED job /\ stored \subseteq stored'
    BY <1>1 DEF Receive, ElapseHook
  <2>2. HookTypes'
    <3>1. CASE Receive(h)
      BY <3>1, <1>r DEF Receive, HookTypes, Hook, HookStatus
    <3>2. CASE ElapseHook(h)
      <4>1. hook' = [hook EXCEPT ![h].ready = TRUE]
        BY <3>2, Zenon DEF ElapseHook
      <4>2. hook[h] \in [st : HookStatus, ready : BOOLEAN]
        BY <1>r DEF HookTypes
      <4>3. hook'[h] = [hook[h] EXCEPT !.ready = TRUE]
        BY <4>1, <1>r DEF HookTypes
      <4>4. hook'[h] \in [st : HookStatus, ready : BOOLEAN]
        BY <4>2, <4>3
      <4>5. DOMAIN hook' = Hooks /\ \A g \in Hooks \ {h} : hook'[g] = hook[g]
        BY <4>1, <1>r DEF HookTypes
      <4>6. hook' = [g \in Hooks |-> hook'[g]]
        BY <4>1, <1>r DEF HookTypes
      <4>. QED BY <4>4, <4>5, <4>6, <1>r DEF HookTypes
    <3>. QED BY <1>1, <3>1, <3>2
  <2>3. \A g \in Hooks : hook'[g].st = "PROCESSED" => hook[g].st = "PROCESSED"
    BY <1>1, <1>r DEF Receive, ElapseHook, HookTypes, Hook
  <2>. QED BY <2>1, <2>2, <2>3, JobsKept, StillStored
<1>2. ASSUME NEW p \in Pollers, ReadHooks(p) PROVE Held'
  BY <1>2, <1>s DEF ReadHooks
<1>3. ASSUME NEW p \in Pollers, ClaimHooks(p) PROVE Held'
  <2>1. UNCHANGED job /\ stored \subseteq stored'
    BY <1>3 DEF ClaimHooks
  <2>2. hook' = [h \in Hooks |-> IF h \in batch[p] /\ hook[h].st # "PROCESSED"
                                 THEN Hook("PROCESSING", FALSE) ELSE hook[h]]
    BY <1>3, Zenon DEF ClaimHooks
  <2>3. HookTypes'
    BY <2>2, <1>r DEF HookTypes, Hook, HookStatus
  <2>4. \A g \in Hooks : hook'[g].st = "PROCESSED" => hook[g].st = "PROCESSED"
    BY <2>2 DEF Hook
  <2>. QED BY <2>1, <2>3, <2>4, JobsKept, StillStored
<1>4. ASSUME NEW w \in Workers, NEW h \in Hooks, UNCHANGED <<hook, stored>>,
             job' = [job EXCEPT ![w] = [IdleJob EXCEPT !.hook = h]]
      PROVE  Held'
  <2>1. HookTypes' /\ ProcessedIsStored' /\ stored' = stored
    BY <1>4, <1>q
  <2>2. [IdleJob EXCEPT !.hook = h] \in JobRecords /\ JobFits([IdleJob EXCEPT !.hook = h], stored')
    BY StartedIsAJob
  <2>3. JobsInv'
    BY <2>1, <2>2, <1>4, JobReplaced
  <2>. QED BY <2>1, <2>3
<1>5. ASSUME NEW p \in Pollers, NEW h \in Hooks, StartHook(p, h) PROVE Held'
  <2>1. UNCHANGED <<hook, stored>> /\ p \in Workers
    BY <1>5 DEF StartHook, Workers
  <2>2. UNCHANGED job \/ job' = [job EXCEPT ![p] = [IdleJob EXCEPT !.hook = h]]
    BY <1>5, Zenon DEF StartHook
  <2>. QED BY <2>1, <2>2, <1>4, <1>s
<1>6. ASSUME NEW l \in Listeners, NEW h \in Hooks, Notify(l, h) PROVE Held'
  <2>1. UNCHANGED <<hook, stored>> /\ l \in Workers
    BY <1>6 DEF Notify, Workers
  <2>2. job' = [job EXCEPT ![l] = [IdleJob EXCEPT !.hook = h]]
    BY <1>6, Zenon DEF Notify
  <2>. QED BY <2>1, <2>2, <1>4
<1>7. ASSUME NEW w \in Workers, ReadMessage(w) PROVE Held'
  <2>1. UNCHANGED <<hook, stored>> /\ MoreToDo(w) /\ job[w].hook # NoHook
    BY <1>7 DEF ReadMessage, Busy
  <2>2. job[w].hook \in Hooks
    BY <2>1, <1>r DEF JobRecords
  <2>3. HookTypes' /\ ProcessedIsStored' /\ stored' = stored
    BY <2>1, <1>q
  <2>4. CASE Current(w) \in stored
    <3>1. job' = [job EXCEPT ![w] = NextJob(w)]
      BY <1>7, <2>4, JobSteps DEF ReadMessage
    <3>. QED BY <2>1, <2>2, <2>3, <2>4, <3>1, NextFits, JobReplaced
  <2>5. CASE Current(w) \notin stored /\ Current(w) \in Malformed
    <3>1. job' = [job EXCEPT ![w] = CaughtJob(w)]
      BY <1>7, <2>5, JobSteps DEF ReadMessage
    <3>. QED BY <2>2, <2>3, <3>1, CaughtFits, JobReplaced
  <2>6. CASE Current(w) \notin stored /\ Current(w) \notin Malformed
    <3>1. job' = [job EXCEPT ![w] = InsertJob(w)]
      BY <1>7, <2>6, JobSteps DEF ReadMessage
    <3>. QED BY <2>1, <2>2, <2>3, <3>1, InsertFits, JobReplaced
  <2>. QED BY <2>4, <2>5, <2>6
<1>8. ASSUME NEW w \in Workers, StoreMessage(w) PROVE Held'
  <2>1. job[w].phase = "insert" /\ UNCHANGED hook
    BY <1>8 DEF StoreMessage
  <2>2. job[w].hook \in Hooks /\ MoreToDo(w)
    BY <2>1 DEF JobsInv, JobFits, MoreToDo
  <2>3. CASE Refused(Current(w), job[w].seen)
    <3>1. UNCHANGED stored /\ job' = [job EXCEPT ![w] = CaughtJob(w)]
      BY <1>8, <2>3, JobSteps DEF StoreMessage
    <3>. QED BY <2>1, <2>2, <3>1, <1>q, CaughtFits, JobReplaced
  <2>4. CASE ~Refused(Current(w), job[w].seen)
    <3>1. stored' = stored \cup {Current(w)} /\ job' = [job EXCEPT ![w] = NextJob(w)]
      BY <1>8, <2>4, JobSteps DEF StoreMessage, Insert
    <3>2. stored \subseteq stored' /\ Current(w) \in stored'
      BY <3>1
    <3>3. HookTypes' /\ ProcessedIsStored'
      BY <2>1, <3>2, <1>r, StillStored DEF HookTypes
    <3>4. NextJob(w) \in JobRecords /\ JobFits(NextJob(w), stored')
      BY <2>2, <3>2, NextFits
    <3>. QED BY <3>1, <3>2, <3>3, <3>4, JobReplaced
  <2>. QED BY <2>3, <2>4
<1>9. ASSUME NEW w \in Workers, FailJob(w) PROVE Held'
  <2>1. UNCHANGED <<hook, stored>> /\ job[w].hook # NoHook
    BY <1>9 DEF FailJob, Busy
  <2>2. job[w].hook \in Hooks
    BY <2>1, <1>r DEF JobRecords
  <2>3. job' = [job EXCEPT ![w] = CaughtJob(w)]
    BY <1>9, JobSteps DEF FailJob
  <2>4. HookTypes' /\ ProcessedIsStored' /\ stored' = stored
    BY <2>1, <1>q
  <2>. QED BY <2>2, <2>3, <2>4, CaughtFits, JobReplaced
<1>10. ASSUME NEW w \in Workers, NEW outcome \in {"PROCESSED", "FAILED"}, EndJob(w, outcome),
              job[w].hook \in Hooks,
              outcome = "PROCESSED" => \A i \in DOMAIN Carries[job[w].hook] :
                                         Carries[job[w].hook][i] \in stored
       PROVE  Held'
  <2>1. /\ hook' = [hook EXCEPT ![job[w].hook] = Hook(outcome, FALSE)]
        /\ job' = [job EXCEPT ![w] = IdleJob]
        /\ stored' = stored
    BY <1>10, Zenon DEF EndJob
  <2>2. HookTypes'
    BY <1>10, <1>r, <2>1 DEF HookTypes, Hook, HookStatus
  <2>3. JobsInv'
    BY <2>1, <2>2, IdleIsAJob, JobReplaced
  <2>4. ASSUME NEW h \in Hooks, hook'[h].st = "PROCESSED"
        PROVE  \A i \in DOMAIN Carries[h] : Carries[h][i] \in stored
    <3>1. CASE h = job[w].hook
      <4>1. hook'[h] = Hook(outcome, FALSE)
        BY <3>1, <2>1, <1>r DEF HookTypes
      <4>. QED BY <3>1, <4>1, <2>4, <1>10 DEF Hook
    <3>2. CASE h # job[w].hook
      <4>1. hook'[h] = hook[h]
        BY <3>2, <2>1, <1>r DEF HookTypes
      <4>. QED BY <4>1, <2>4 DEF ProcessedIsStored
    <3>. QED BY <3>1, <3>2
  <2>5. ProcessedIsStored'
    BY <2>1, <2>4 DEF ProcessedIsStored
  <2>. QED BY <2>3, <2>5
<1>11. ASSUME NEW w \in Workers, MarkHookProcessed(w) PROVE Held'
  <2>1. EndJob(w, "PROCESSED") /\ ~MoreToDo(w) /\ job[w].hook # NoHook
    BY <1>11 DEF MarkHookProcessed, Busy
  <2>2. job[w].hook \in Hooks /\ job[w].at \in Nat \ {0} /\ JobFits(job[w], stored)
    BY <2>1, <1>r DEF JobRecords, JobsInv
  <2>3. Carries[job[w].hook] \in Seq(Messages)
    BY <2>2, InboundAssumption
  <2>4. \A i \in DOMAIN Carries[job[w].hook] : Carries[job[w].hook][i] \in stored
    BY <2>1, <2>2, <2>3 DEF JobFits, MoreToDo
  <2>. QED BY <2>1, <2>2, <2>4, <1>10
<1>12. ASSUME NEW w \in Workers, MarkHookFailed(w) PROVE Held'
  <2>1. EndJob(w, "FAILED") /\ job[w].phase = "error"
    BY <1>12 DEF MarkHookFailed
  <2>2. job[w].hook \in Hooks
    BY <2>1 DEF JobsInv, JobFits
  <2>. QED BY <2>1, <2>2, <1>10
<1>13. ASSUME NEW w \in Workers, AbortJob(w) PROVE Held'
  <2>1. UNCHANGED <<hook, stored>> /\ job' = [job EXCEPT ![w] = IdleJob]
    BY <1>13, Zenon DEF AbortJob
  <2>2. HookTypes' /\ ProcessedIsStored' /\ stored' = stored
    BY <2>1, <1>q
  <2>. QED BY <2>1, <2>2, IdleIsAJob, JobReplaced
<1>14. ASSUME NEW p \in Phones, CreateContact(p) PROVE Held'
  BY <1>14, <1>s DEF CreateContact, hookVars
<1>15. ASSUME Connect PROVE Held'
  BY <1>15, <1>s DEF Connect, hookVars
<1>16. ASSUME NEW m \in WebMessages, ReadPost(m) \/ AnnouncePost(m) \/ DropPost(m) PROVE Held'
  BY <1>16, <1>s DEF ReadPost, AnnouncePost, DropPost, hookVars
<1>17. ASSUME NEW m \in WebMessages, StorePost(m) PROVE Held'
  <2>1. UNCHANGED <<hook, job>> /\ stored \subseteq stored'
    BY <1>17 DEF StorePost, Insert, hookVars
  <2>2. HookTypes' /\ ProcessedIsStored'
    BY <2>1, <1>r, StillStored DEF HookTypes
  <2>. QED BY <2>1, <2>2, JobsKept
<1>18. CASE UNCHANGED inboundVars
  BY <1>18, <1>s DEF inboundVars
<1>. HIDE DEF Held
<1>. QED BY <1>1, <1>2, <1>3, <1>5, <1>6, <1>7, <1>8, <1>9, <1>11, <1>12, <1>13, <1>14, <1>15,
            <1>16, <1>17, <1>18 DEF InboundNext

\* A webhook that is put aside as PROCESSED has left no message behind: the
\* property ProcessedIsStored of the code of processWebhookEvent, for any
\* number of workers on the same webhook.
THEOREM NoMessageLeftBehind == InboundSpec => []ProcessedIsStored
<1>1. Held => ProcessedIsStored
  BY DEF Held
<1>. QED BY <1>1, JobsInit, JobsStep, PTL DEF InboundSpec

----------------------------------------------------------------------------
(* The counts of the conversations.                                        *)

CountsInv ==
  /\ stored \subseteq Messages \cup WebMessages /\ IsFiniteSet(stored)
  /\ chat \in [PhoneKeys -> Nat]
  /\ UnreadMatches

LEMMA KeysAreKeys ==
  ASSUME NEW m \in Messages \cup WebMessages
  PROVE  KeyOf(m) \in PhoneKeys
BY InboundAssumption DEF KeyOf, PhoneKeys, Digits, E164

\* Storing a new message adds one to its conversation and to no other.
LEMMA InsertCounts ==
  ASSUME CountsInv, NEW m \in Messages \cup WebMessages, m \notin stored, Insert(m)
  PROVE  CountsInv'
<1>. DEFINE Of(k) == {n \in stored : KeyOf(n) = k}
<1>1. /\ stored' = stored \cup {m}
      /\ contact' = contact \cup {KeyOf(m)}
      /\ chat' = [chat EXCEPT ![KeyOf(m)] = @ + 1]
  BY DEF Insert
<1>2. KeyOf(m) \in PhoneKeys
  BY KeysAreKeys
<1>3. stored' \subseteq Messages \cup WebMessages /\ IsFiniteSet(stored')
  BY <1>1, FS_AddElement DEF CountsInv
<1>4. chat' \in [PhoneKeys -> Nat]
  BY <1>1, <1>2 DEF CountsInv
<1>5. ASSUME NEW k \in PhoneKeys
      PROVE  chat'[k] = Cardinality({n \in stored' : KeyOf(n) = k})
  <2>1. IsFiniteSet(Of(k)) /\ m \notin Of(k) /\ chat[k] = Cardinality(Of(k))
    BY FS_Subset DEF CountsInv, UnreadMatches
  <2>2. CASE k = KeyOf(m)
    <3>1. {n \in stored' : KeyOf(n) = k} = Of(k) \cup {m}
      BY <1>1, <2>2
    <3>2. Cardinality(Of(k) \cup {m}) = Cardinality(Of(k)) + 1
      BY <2>1, FS_AddElement
    <3>. QED BY <1>1, <2>1, <2>2, <3>1, <3>2 DEF CountsInv
  <2>3. CASE k # KeyOf(m)
    <3>1. {n \in stored' : KeyOf(n) = k} = Of(k)
      BY <1>1, <2>3
    <3>. QED BY <1>1, <2>1, <2>3, <3>1 DEF CountsInv
  <2>. QED BY <2>2, <2>3
<1>6. \A n \in stored' : KeyOf(n) \in contact'
  BY <1>1 DEF CountsInv, UnreadMatches
<1>7. UnreadMatches'
  BY <1>5, <1>6 DEF UnreadMatches, KeyOf, Digits, E164
<1>. QED BY <1>3, <1>4, <1>7 DEF CountsInv

LEMMA CountsKept ==
  ASSUME CountsInv, UNCHANGED <<stored, chat>>, contact \subseteq contact'
  PROVE  CountsInv'
<1>1. UnreadMatches'
  BY DEF CountsInv, UnreadMatches, KeyOf, Digits, E164
<1>. QED BY <1>1 DEF CountsInv

LEMMA CountsInit == InboundInit => CountsInv
<1>1. SUFFICES ASSUME InboundInit PROVE CountsInv
  OBVIOUS
<1>2. stored = {} /\ contact = {} /\ chat = [k \in PhoneKeys |-> 0]
  BY <1>1 DEF InboundInit
<1>3. \A k \in PhoneKeys : {m \in stored : KeyOf(m) = k} = {}
  BY <1>2
<1>4. IsFiniteSet({}) /\ Cardinality({}) = 0
  BY FS_EmptySet
<1>5. UnreadMatches
  BY <1>2, <1>3, <1>4 DEF UnreadMatches
<1>. QED BY <1>2, <1>4, <1>5 DEF CountsInv

LEMMA CountsStep == JobsInv /\ CountsInv /\ [InboundNext]_inboundVars => CountsInv'
<1>. SUFFICES ASSUME JobsInv, CountsInv, [InboundNext]_inboundVars PROVE CountsInv'
  OBVIOUS
<1>1. ASSUME NEW h \in Hooks, Receive(h) \/ ElapseHook(h) PROVE CountsInv'
  BY <1>1, CountsKept DEF Receive, ElapseHook
<1>2. ASSUME NEW p \in Pollers, ReadHooks(p) \/ ClaimHooks(p) PROVE CountsInv'
  BY <1>2, CountsKept DEF ReadHooks, ClaimHooks
<1>3. ASSUME NEW p \in Pollers, NEW h \in Hooks, StartHook(p, h) PROVE CountsInv'
  BY <1>3, CountsKept DEF StartHook
<1>4. ASSUME NEW l \in Listeners, NEW h \in Hooks, Notify(l, h) PROVE CountsInv'
  BY <1>4, CountsKept DEF Notify
<1>5. ASSUME NEW w \in Workers,
             ReadMessage(w) \/ FailJob(w) \/ AbortJob(w) PROVE CountsInv'
  BY <1>5, CountsKept DEF ReadMessage, FailJob, AbortJob
<1>6. ASSUME NEW w \in Workers, MarkHookProcessed(w) \/ MarkHookFailed(w) PROVE CountsInv'
  BY <1>6, CountsKept DEF MarkHookProcessed, MarkHookFailed, EndJob
<1>7. ASSUME NEW w \in Workers, StoreMessage(w) PROVE CountsInv'
  <2>1. CASE Refused(Current(w), job[w].seen)
    BY <1>7, <2>1, CountsKept DEF StoreMessage
  <2>2. CASE ~Refused(Current(w), job[w].seen)
    <3>1. job[w].phase = "insert" /\ Insert(Current(w)) /\ Current(w) \notin stored
      BY <1>7, <2>2 DEF StoreMessage, Refused
    <3>2. job[w].hook \in Hooks /\ MoreToDo(w)
      BY <3>1 DEF JobsInv, JobFits, MoreToDo
    <3>3. Current(w) \in Messages \cup WebMessages
      BY <3>2, CurrentIsAMessage
    <3>. QED BY <3>1, <3>3, InsertCounts
  <2>. QED BY <2>1, <2>2
<1>8. ASSUME NEW p \in Phones, CreateContact(p) PROVE CountsInv'
  BY <1>8, CountsKept DEF CreateContact
<1>9. ASSUME Connect PROVE CountsInv'
  BY <1>9, CountsKept DEF Connect
<1>10. ASSUME NEW m \in WebMessages, ReadPost(m) \/ AnnouncePost(m) \/ DropPost(m)
       PROVE  CountsInv'
  BY <1>10, CountsKept DEF ReadPost, AnnouncePost, DropPost
<1>11. ASSUME NEW m \in WebMessages, StorePost(m) PROVE CountsInv'
  <2>1. CASE Refused(m, post[m].seen)
    BY <1>11, <2>1, CountsKept DEF StorePost
  <2>2. CASE ~Refused(m, post[m].seen)
    <3>1. Insert(m) /\ m \notin stored
      BY <1>11, <2>2 DEF StorePost, Refused
    <3>. QED BY <3>1, InsertCounts
  <2>. QED BY <2>1, <2>2
<1>12. CASE UNCHANGED inboundVars
  BY <1>12, CountsKept DEF inboundVars
<1>. QED BY <1>1, <1>2, <1>3, <1>4, <1>5, <1>6, <1>7, <1>8, <1>9, <1>10, <1>11, <1>12
         DEF InboundNext

\* A conversation counts each of its messages once and each message has its
\* contact, for any number of workers and of posts of the reader.
THEOREM EachMessageCountedOnce == InboundSpec => []UnreadMatches
<1>1. Held => JobsInv
  BY DEF Held
<1>2. CountsInv => UnreadMatches
  BY DEF CountsInv
<1>. QED BY <1>1, <1>2, JobsInit, JobsStep, CountsInit, CountsStep, PTL DEF InboundSpec
=============================================================================
