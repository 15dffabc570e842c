----------------------------- MODULE MCServices -----------------------------
(***************************************************************************)
(* Instances of the services through which a guest shows and asks for      *)
(* things, for TLC: its panel, messages, tutorials and action rules.  They *)
(* share no state: a behaviour is one of one part, and the others stay as  *)
(* they began.                                                             *)
(***************************************************************************)
EXTENDS ModPanel, ActionRules, Notices

CONSTANTS m1, m2

VARIABLE part

\* In the panel, the settings without a list, and the lists beside a setting that stays.
\* Of the tutorials, one guest asks for every kind; two guests compete for panels, in one world.
Alone  == tutorial = [o \in Askers |-> IF o = m1 THEN Unasked ELSE Absent] /\ presenters = Kinds
Rivals == tutorial = [o \in Askers |-> Unasked] /\ presenters = {"panel"}

ServicesInit ==
  /\ part \in {"settings", "lists", "feedback", "alone", "rivals", "rules"}
  /\ PanelInit /\ FeedbackInit /\ RulesInit
  /\ TutorialsInit /\ IF part = "rivals" THEN Rivals ELSE Alone
  /\ part # "rules" => player = 1

ServicesNext ==
  \/ part = "settings" /\ PanelNext /\ UNCHANGED <<list, listRevision>>
     /\ UNCHANGED <<part, messageVars, tutorialVars, rulesVars>>
  \/ part = "lists" /\ PanelNext /\ UNCHANGED setting /\ doc'.edit = None
     /\ UNCHANGED <<part, messageVars, tutorialVars, rulesVars>>
  \/ part = "feedback" /\ FeedbackNext /\ UNCHANGED <<part, panelVars, tutorialVars, rulesVars>>
  \/ part = "alone" /\ TutorialsNext /\ UNCHANGED <<part, panelVars, messageVars, rulesVars>>
  \/ part = "rivals" /\ TutorialsNext /\ context' = context
     /\ UNCHANGED <<part, panelVars, messageVars, rulesVars>>
  \/ part = "rules" /\ RulesNext /\ UNCHANGED <<part, panelVars, messageVars, tutorialVars>>

ServicesSpec == ServicesInit /\ [][ServicesNext]_<<part, panelVars, messageVars, tutorialVars, rulesVars>>
=============================================================================
