------------------------------- MODULE MCHost -------------------------------
(***************************************************************************)
(* Instances of the loader and its guests, for TLC: the guests of two      *)
(* Runtimes, and the installer.  They share no state: a behaviour is one   *)
(* of one part.                                                            *)
(***************************************************************************)
EXTENDS GuestRuntime, Installer

VARIABLE part

\* Two guests of the worker, where the fault of the first comes before the tick of
\* the second, and one of a tool, without crml_tick.
TwoHosts == [worker |-> <<"dog", "cat">>, tool |-> <<"eel">>]
Asks == [cat |-> {"player.motion", "lists", "tutorials"},
         dog |-> {"input.actions"},
         eel |-> {"lists"}]
OneEach == [b \in {"command", "tutorial"} |-> 1]

Option(on, lua) == [on |-> on, off |-> "none", lua |-> lua, experiment |-> FALSE]
Build(names, version) == [n \in {"xinput1_4.dll"} \union names |-> version]

TwoBuilds == {Build({"runtime"}, 1), Build({"runtime", "page"}, 2)}

\* Two builds, one of which has a page, with or without a mode.
Copies == GoesOn \/ \E build \in Builds, o \in {Option("none", "none"), Option("movement", "on")} : RunsWith(build, o)

\* One build, twice, with every option after every other, and nobody adds a page.
Switches ==
  /\ GoesOn \/ \E o \in Commands : RunsWith(Build({"runtime"}, 1), o)
  /\ runs' < MaxRuns /\ disk'["page"] = Missing

HostInit == part \in {"guests", "copies", "switches"} /\ Init /\ InstallerInit

HostNext ==
  \/ part = "guests" /\ Next /\ UNCHANGED <<part, installerVars>>
  \/ part = "copies" /\ Copies /\ UNCHANGED <<part, vars>>
  \/ part = "switches" /\ Switches /\ UNCHANGED <<part, vars>>

\* Files are installed when somebody cares to.
HostSpec ==
  /\ HostInit /\ [][HostNext]_<<part, vars, installerVars>>
  /\ part # "guests" \/ Fairness
=============================================================================
