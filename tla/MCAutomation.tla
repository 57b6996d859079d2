---------------------------- MODULE MCAutomation ----------------------------
(* Bounded instances of Automation and of AutomationRules for TLC.  A       *)
(* behaviour is that of the engine with one execution, or of a part of what *)
(* it is told: rules that are edited while an event arrives, deadlines that *)
(* are scanned, an execution of each type of action, templates.             *)
EXTENDS Automation, AutomationRules, TLC

CONSTANTS y1, y2, b1, b2, b3, b4, b5, z1, z2, l1, ann, bob, x1, x2, g8

\* Actions: one of each type; b5 takes the place of b1.  Rules: of
\* every card, and of the deadlines of bob with a message.
MCDoes  == b1 :> "followUp" @@ b2 :> "notify" @@ b3 :> "activity" @@ b4 :> "emit" @@ b5 :> "hook"
MCPlace == b1 :> 1 @@ b2 :> 2 @@ b3 :> 3 @@ b4 :> 4 @@ b5 :> 1
MCUser  == b1 :> Nobody @@ b2 :> Nobody @@ b3 :> Nobody @@ b4 :> Nobody @@ b5 :> ann
MCAll   == [all |-> {[path |-> "deal", in |-> {TRUE}]}, any |-> {}]
MCSome  == [all |-> {}, any |-> {[path |-> "owner", in |-> {bob}]}]
MCCard  == [trigger |-> "card", conditions |-> MCAll, letter |-> NoLetter, active |-> TRUE]
MCDue   == [trigger |-> "due", conditions |-> MCSome, letter |-> l1, active |-> TRUE]
MCDrafts == {MCCard, [MCCard EXCEPT !.active = FALSE], MCDue}
MCNeeds == x1 :> {"deal"} @@ x2 :> {}

Symmetric == Permutations(Runners)

VARIABLE part

Parts == {"engine", "rules", "deadlines", "work", "letters"}

mcVars == <<automationVars, rulesVars, part>>

\* A rule whose actions are on their way to a second one; a rule of deadlines; one
\* execution of every action; a template and notifications of it.
MCWritten(r, d, S) ==
  /\ automation = [q \in Automations |-> IF q = r THEN d ELSE NoDraft]
  /\ steps = [q \in Automations |-> IF q = r THEN S ELSE {}]
  /\ past = [q \in Automations |-> IF q = r THEN {S} ELSE {}]
MCHandled(about) == [st |-> "handled", trigger |-> IF about = "due" THEN "due" ELSE "card", about |-> about,
                     key |-> IF about = "due" THEN <<g8, 0>> ELSE NoKey]
MCLetter(gone)   == [Blank EXCEPT !.status = "ACTIVE", !.gone = gone, !.body = x1, !.tokens = {"deal"}]
MCNotice(p) == [x |-> <<y2, z1>>, a |-> b2, to |-> p, st |-> "UNREAD", blanks |-> {}]

MCRulesInit ==
  /\ editor = [e \in Editors |-> NoEdit] /\ hearing = [w \in Hearers |-> Deaf]
  /\ worker = Resting /\ wrote = {} /\ pen = [e \in Editors |-> NoPen]
  /\ notice = IF part = "work" THEN {MCNotice(ann)} ELSE {}
  /\ owns = [k \in {"deal", "contact"} |-> IF part = "deadlines" THEN bob ELSE Author] /\ live = TRUE /\ staff = People
  /\ deadline = [d \in Deadlines |-> [open |-> TRUE, at |-> "ahead", date |-> 0]]
  /\ scan = [h \in Scans |-> {}]
  /\ CASE part = "work" ->
            /\ \E S \in {Actions \ {b1}, Actions \ {b5}} :
                 /\ MCWritten(y2, MCDue, S)
                 /\ runs = [x \in RuleRuns |-> IF x = <<y2, z1>> THEN [NoRun EXCEPT !.st = "queued", !.actions = S]
                                                                 ELSE NoRun]
            /\ \E about \in {"card", "due", "echo"} :
                 signal = [s \in Signals |-> IF s = z1 THEN MCHandled(about) ELSE Unheard]
            /\ \E gone \in BOOLEAN : letter = [l \in Letters |-> MCLetter(gone)]
       [] OTHER ->
            /\ IF part = "deadlines" THEN MCWritten(y2, MCDue, {b1})
                                     ELSE MCWritten(y2, MCCard, {b4, b5})
            /\ runs = [x \in RuleRuns |-> NoRun]
            /\ signal = [s \in Signals |-> IF s = z2 /\ part = "rules" THEN MCHandled("card") ELSE Unheard]
            /\ letter = [l \in Letters |-> IF part = "deadlines" THEN MCLetter(FALSE) ELSE Blank]

MCEngineInit ==
  /\ part \in Parts
  /\ AutomationInit /\ MCRulesInit

MCEngineNext ==
  /\ \/ part = "engine" /\ AutomationNext /\ UNCHANGED rulesVars
     \/ /\ \/ part = "rules" /\ (EditingStep \/ PublishMove \/ HearStep)
           \/ part = "deadlines" /\ (DeadlineStep \/ HearStep)
           \/ part = "work" /\ (WorkingStep \/ CrmStep \/ NoticeStep)
           \/ part = "letters" /\ LetterStep
        /\ UNCHANGED automationVars
  /\ UNCHANGED part

MCEngineSpec == MCEngineInit /\ [][MCEngineNext]_mcVars

EngineTypeOK == AutomationTypeOK /\ RulesTypeOK

----------------------------------------------------------------------------
(* A claim of the documents the code does not meet; no configuration of    *)
(* this directory checks it, AutomationRuns.cfg refutes it.                *)

\* docs/automation-engine.md: an action that succeeded is not repeated by a
\* retry.
NotRepeated == \A x \in Executions, k \in Order : effects[x][k] <= 1
============================================================================
