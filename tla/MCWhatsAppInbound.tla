-------------------------- MODULE MCWhatsAppInbound --------------------------
(* Bounded instances of WhatsAppInbound for TLC. *)
EXTENDS WhatsAppInbound, TLC

CONSTANTS m1, m2, m3, v1, v2, a1, p1, p2, l1

MCTwoHooks == 1 .. 2

\* One message comes in both webhooks; the sender of another is invalid.
MCOverlapping == 1 :> <<m1>> @@ 2 :> <<m2, m1, m3>>
MCFrom == m1 :> a1 @@ m2 :> a1 @@ m3 :> a1 @@ v1 :> a1 @@ v2 :> a1

----------------------------------------------------------------------------
(* The two ways in write no row in common (a phone has another key in      *)
(* each), so a behaviour takes one of them; webhooks are worked on by two  *)
(* pollers, or by one of them and a listener.  The fairness of the idle    *)
(* poller excludes nothing: the other one never lets a webhook stay due.   *)

VARIABLE way

mcVars == <<inboundVars, way>>

MCInboundInit == InboundInit /\ way \in {"pollers", "notified", "reader"}

MCInboundNext ==
  /\ InboundNext
  /\ UNCHANGED way
  /\ way = "pollers" => job'[l1] = IdleJob
  /\ way = "notified" => batch'[p2] = {}
  /\ way # "reader" => UNCHANGED readerVars
  /\ way = "reader" => UNCHANGED hookVars

MCInboundSpec == MCInboundInit /\ [][MCInboundNext]_mcVars /\ InboundFairness
============================================================================
