------------------------------- MODULE Notices -------------------------------
(***************************************************************************)
(* What a guest shows to the player: its messages and its tutorials.  The  *)
(* two services share no state and no thread; what is promised of one is   *)
(* promised beside the other, whatever that does.                          *)
(***************************************************************************)
EXTENDS Feedback, Tutorials

\* A message is only called presented if it was drawn while it ran, and no late answer
\* brings one back or prolongs it; the presenters of tutorials and their service agree on
\* what is given out, and nothing that was taken back is on the screen; and the end of
\* either is final.
NoticesAreTrue ==
  /\ [][FeedbackIsTrue']_messageVars /\ EndedStaysEnded
  /\ [][TutorialsAgree']_tutorialVars /\ NoResurrection
=============================================================================
