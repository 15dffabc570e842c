------------------------------ MODULE Installer ------------------------------
(***************************************************************************)
(* tools/install.py: installing, updating and removing the files of the    *)
(* loader in the folder of the game.                                       *)
(*                                                                         *)
(* Every operation on a file is an action.  Any of them may fail, which    *)
(* runs the handlers of the program, and the process may end between any   *)
(* two.  The receipt is a file like the others; what it lists is what      *)
(* marks a file as owned.  Modes are switched on and off by marker files,  *)
(* which the loader reads when the game starts (runtime/entry.cpp).        *)
(* The game may be replaced between two runs, so that an update may have   *)
(* nothing but the receipt to write.                                       *)
(* The user changes files while no installer runs, and one runs at a time  *)
(* with the game closed.  Hashes tell contents apart; a copy that does not *)
(* verify is one of the failures.  Directories other than crml and what    *)
(* a preview prints are left out.                                          *)
(*                                                                         *)
(* kept is history: what the last update found, and what it was to leave.  *)
(* An operator named Slip... is a plausible mistake in the definition that *)
(* follows it and is used nowhere; it shows that a property can fail.      *)
(***************************************************************************)
EXTENDS Naturals, Sequences, FiniteSets, SequencesExt

CONSTANTS
  Required, Extras,    \* FILES but the proxy; files a build may have or not
  Builds,              \* from the files of a build to their contents
  Commands,            \* the options the installer is run with
  MaxRuns, MaxEdits    \* bounds: runs of the installer, changes by the user

Proxy == "xinput1_4.dll"
Receipt == "install-receipt.json"
\* The observer, the physics trial, physics and movement for guests; engine Lua; and the
\* older experiments (noclip, visibility, the inspector), which go together here.
Modes == {"observer", "trial", "physics", "movement"}
Markers == Modes \union {"lua", "experiment"}
Names == {Proxy} \union Required \union Extras \union Markers
Targets == Names \union {Receipt}

VARIABLES
  disk,           \* the content of each target
  staged, backup, \* beside each target: .new and .backup of this run
  folder,         \* the directory crml exists
  job,            \* the run in progress
  kept, torn,     \* torn: an update was cut short, or the user changed something
  runs, edits

onDisk == <<disk, staged, backup, folder>>
installerVars == <<onDisk, job, kept, torn, runs, edits>>

Missing == [is |-> "absent"]
Part == [is |-> "part"]
Users == [is |-> "user"]
File(version) == [is |-> "file", version |-> version]
Listing(owned) == [is |-> "receipt", owned |-> owned]

Empty == [n \in Targets |-> Missing]
NoJob == [at |-> "idle"]
NotKept == [before |-> Empty, wanted |-> Empty]

\* The options main lets through: at most one mode is switched on or off.
Options ==
  {o \in [on : Modes \union {"none"}, off : Modes \union {"none"}, lua : {"on", "off", "none"}, experiment : BOOLEAN] :
     /\ "none" \in {o.on, o.off}
     /\ o.lua = "on" => o.on = "movement"
     /\ o.experiment => o.on = "none"}
Fresh(o) == o.off = "none" /\ o.lua # "off"

\* A build has the proxy and what is required, and marks no mode itself.
InstallerAssumption ==
  /\ IsFiniteSet(Required) /\ IsFiniteSet(Extras)
  /\ (Required \union Extras) \intersect (Markers \union {Receipt}) = {}
  /\ Commands \subseteq Options
  /\ \A build \in Builds :
       {Proxy} \union Required \subseteq DOMAIN build /\ DOMAIN build \subseteq {Proxy} \union Required \union Extras
ASSUME InstallerAssumed == InstallerAssumption

\* sources_for: what a build has for these options.
Added(o) ==
  {m \in Markers : o.on = m \/ (m = "lua" /\ o.lua = "on") \/ (m = "experiment" /\ o.experiment)}
Sources(build, o) == [n \in DOMAIN build \union Added(o) |-> IF n \in Markers THEN "on" ELSE build[n]]

InstallerInit ==
  /\ disk = Empty /\ staged = Empty /\ backup = Empty /\ folder = FALSE
  /\ job = NoJob /\ kept = NotKept /\ torn = FALSE /\ runs = 0 /\ edits = 0
-----------------------------------------------------------------------------
Owned == disk[Receipt].owned
\* read_receipt
Intact ==
  /\ disk[Receipt].is = "receipt"
  /\ \A n \in DOMAIN Owned : disk[n] = File(Owned[n])

Installed(release) == [n \in Targets |-> IF n = Receipt THEN Listing(release) ELSE
                                         IF n \in DOMAIN release THEN File(release[n]) ELSE disk[n]]

\* The names beside a target carry a token of the run: what an earlier run left stays
\* on the disk and is of no further account.
Begin(step) ==
  /\ job.at = "idle" /\ runs < MaxRuns /\ runs' = runs + 1 /\ job' = step
  /\ staged' = Empty /\ backup' = Empty /\ UNCHANGED <<disk, folder, edits>>
Goes(step) == job' = step /\ UNCHANGED <<runs, edits, kept, torn>>
\* The files of a release are listed with the proxy first.
Listed(names) == SetToSeq(names \intersect {Proxy}) \o SetToSeq(names \ {Proxy})
FirstTodo == Head(job.todo)
Onward == [job EXCEPT !.at = "next", !.todo = Tail(@)]
-----------------------------------------------------------------------------
(* install                                                                 *)

\* The proxy is published last, after the runtime and the receipt are complete.
InOrder(release) == SetToSeq(DOMAIN release \ {Proxy}) \o <<Receipt, Proxy>>

Install(build, o) ==
  /\ Fresh(o) /\ disk[Proxy] = Missing /\ ~folder
  /\ LET release == Sources(build, o) IN
     Begin([at |-> "next", kind |-> "install", todo |-> InOrder(release), done |-> <<>>, wanted |-> Installed(release)])
  /\ kept' = NotKept /\ torn' = FALSE

\* Creation is exclusive.
Create ==
  /\ job.at = "next" /\ job.kind = "install" /\ job.todo # <<>> /\ disk[FirstTodo] = Missing
  /\ disk' = [disk EXCEPT ![FirstTodo] = Part] /\ folder' = TRUE
  /\ Goes([job EXCEPT !.at = "copy", !.done = <<FirstTodo>> \o @]) /\ UNCHANGED <<staged, backup>>
Copy ==
  /\ job.at = "copy"
  /\ disk' = [disk EXCEPT ![FirstTodo] = job.wanted[FirstTodo]] /\ Goes(Onward) /\ UNCHANGED <<staged, backup, folder>>

\* Only what this run created is removed; a removal that fails ends it.
Undo ==
  /\ job.at = "undo" /\ job.done # <<>>
  /\ \/ disk' = [disk EXCEPT ![Head(job.done)] = Missing] /\ Goes([job EXCEPT !.done = Tail(@)])
     \/ UNCHANGED disk /\ Goes(NoJob)
  /\ UNCHANGED <<staged, backup, folder>>
-----------------------------------------------------------------------------
(* uninstall                                                               *)

\* The loading route is disabled first.
Uninstall ==
  /\ Intact
  /\ Begin([at |-> "next", kind |-> "uninstall", todo |-> Listed(DOMAIN Owned) \o <<Receipt>>])
  /\ kept' = NotKept /\ UNCHANGED torn
RemoveFile ==
  /\ job.at = "next" /\ job.kind = "uninstall" /\ job.todo # <<>>
  /\ \/ disk' = [disk EXCEPT ![FirstTodo] = Missing] /\ Goes(Onward)
     \/ UNCHANGED disk /\ Goes(NoJob)
  /\ UNCHANGED <<staged, backup, folder>>
-----------------------------------------------------------------------------
(* update                                                                  *)

\* The modes that do not go with the one chosen; what marks them has to be owned.
SlipKeepsTrial(o) == IF o.on \in {"physics", "movement"} THEN {"observer"} ELSE {}
DiagnosticsOff(o) == IF o.on \in {"physics", "movement"} THEN {"observer", "trial"} ELSE {}
SwitchedOff(o) ==
  DiagnosticsOff(o) \union
  {m \in Markers :
     \/ m = "physics" /\ (o.on \in {"movement", "trial", "observer"} \/ o.off = "physics")
     \/ m \in {"movement", "lua"} /\ (o.on \in {"physics", "trial", "observer"} \/ o.off = "movement" \/ o.experiment)
     \/ m = "lua" /\ o.lua = "off"}
\* The two diagnostic modes.
Rivals(o) ==
  {m \in Markers : \/ m = "observer" /\ (o.on = "trial" \/ o.off = "observer")
                   \/ m = "trial" /\ (o.on = "observer" \/ o.off = "trial")}
Removals(o) == (SwitchedOff(o) \union Rivals(o)) \intersect DOMAIN Owned
Conflicting(o) == SwitchedOff(o) \union {m \in Rivals(o) : o.on # "none"}

Changes(release) == {n \in DOMAIN release : n \notin DOMAIN Owned \/ Owned[n] # release[n]}
\* What an update would overwrite is owned.
Admitted(release) == \A n \in Changes(release) : n \in DOMAIN Owned \/ disk[n] = Missing

\* The files of the release, and those it does not have, but for the removed ones.
Merged(release, removals) ==
  [n \in (DOMAIN Owned \union DOMAIN release) \ removals |-> IF n \in DOMAIN release THEN release[n] ELSE Owned[n]]

Update(build, o) ==
  LET release == Sources(build, o)
      removals == Removals(o)
      names == Listed(Changes(release))
      wanted == [n \in Targets |-> IF n \in removals THEN Missing
                                  ELSE IF n = Receipt THEN Listing(Merged(release, removals))
                                  ELSE IF n \in DOMAIN release THEN File(release[n]) ELSE disk[n]] IN
  /\ Intact /\ Admitted(release)
  /\ \A m \in Conflicting(o) : disk[m] # Missing => m \in DOMAIN Owned
  /\ Begin([at |-> "stage", kind |-> "update", todo |-> names \o <<Receipt>>,
            plan |-> names \o SetToSeq(removals) \o <<Receipt>>,
            wanted |-> wanted, published |-> {}, result |-> "failed"])
  /\ kept' = [before |-> disk, wanted |-> wanted] /\ UNCHANGED torn

Stage ==
  /\ job.at = "stage" /\ job.todo # <<>>
  /\ staged' = [staged EXCEPT ![FirstTodo] = IF @ = Missing THEN Part ELSE job.wanted[FirstTodo]]
  /\ Goes(IF staged[FirstTodo] = Missing THEN job ELSE [job EXCEPT !.todo = Tail(@)]) /\ UNCHANGED <<disk, backup, folder>>
Staged ==
  /\ job.at = "stage" /\ job.todo = <<>>
  /\ Goes([job EXCEPT !.at = "backup", !.todo = job.plan]) /\ UNCHANGED onDisk

\* The old file makes way, then the new one takes its place.
Backup ==
  /\ job.at = "backup" /\ job.todo # <<>>
  /\ disk' = [disk EXCEPT ![FirstTodo] = Missing] /\ backup' = [backup EXCEPT ![FirstTodo] = disk[FirstTodo]]
  /\ Goes([job EXCEPT !.at = "publish"]) /\ UNCHANGED <<staged, folder>>
PublishNew ==
  /\ job.at = "publish"
  /\ disk' = [disk EXCEPT ![FirstTodo] = staged[FirstTodo]] /\ staged' = [staged EXCEPT ![FirstTodo] = Missing]
  /\ Goes([job EXCEPT !.at = "backup", !.todo = Tail(@), !.published = @ \union {FirstTodo}])
  /\ UNCHANGED <<backup, folder>>
Succeed ==
  /\ job.at = "backup" /\ job.todo = <<>>
  /\ Goes([job EXCEPT !.at = "clean", !.result = "succeeded"]) /\ UNCHANGED onDisk

\* After a failure, in reverse: what was replaced comes back, what was new goes.  A
\* restoration that fails leaves the others where they are.
SlipPublishedOnly(n) == n \in job.published /\ backup[n] # Missing
ComesBack(n) == backup[n] # Missing
Restore ==
  /\ job.at = "restore" /\ job.todo # <<>>
  /\ LET n == FirstTodo IN
     \/ /\ ComesBack(n)
        /\ disk' = [disk EXCEPT ![n] = backup[n]] /\ backup' = [backup EXCEPT ![n] = Missing]
        /\ Goes([job EXCEPT !.todo = Tail(@)])
     \/ /\ ~ComesBack(n)
        /\ disk' = (IF n \in job.published THEN [disk EXCEPT ![n] = Missing] ELSE disk)
        /\ Goes([job EXCEPT !.todo = Tail(@)]) /\ UNCHANGED backup
     \/ /\ ComesBack(n) \/ n \in job.published
        /\ job' = [job EXCEPT !.at = "clean", !.result = "stuck"] /\ torn' = TRUE
        /\ UNCHANGED <<disk, backup, runs, edits, kept>>
  /\ UNCHANGED <<staged, folder>>
Restored ==
  /\ job.at = "restore" /\ job.todo = <<>> /\ Goes([job EXCEPT !.at = "clean"]) /\ UNCHANGED onDisk

\* finally: the stages go, and the backups of an update that succeeded.
Leftover(where) == {n \in Targets : where[n] # Missing}
DropsBackups == job.result = "succeeded"
Clean ==
  /\ job.at = "clean"
  /\ \/ \E n \in Leftover(staged) : staged' = [staged EXCEPT ![n] = Missing] /\ UNCHANGED backup
     \/ /\ Leftover(staged) = {} /\ DropsBackups
        /\ \E n \in Leftover(backup) : backup' = [backup EXCEPT ![n] = Missing] /\ UNCHANGED staged
  /\ Goes(job) /\ UNCHANGED <<disk, folder>>
Ended == Leftover(staged) = {} /\ (DropsBackups => Leftover(backup) = {})
-----------------------------------------------------------------------------
\* An operation fails: the handler of its run takes over.
Fail ==
  \/ job.at \in {"next", "copy"} /\ job.kind = "install" /\ job.todo # <<>> /\ Goes([job EXCEPT !.at = "undo"]) /\ UNCHANGED onDisk
  \/ /\ job.at \in {"stage", "backup", "publish"} /\ job.todo # <<>>
     /\ Goes([job EXCEPT !.at = "restore", !.todo = Reverse(job.plan)]) /\ UNCHANGED onDisk
  \/ job.at = "clean" /\ ~Ended /\ Goes(NoJob) /\ UNCHANGED onDisk

FinishRun ==
  /\ \/ job.at = "next" /\ job.todo = <<>>
     \/ job.at = "undo" /\ job.done = <<>>
     \/ job.at = "clean" /\ Ended
  /\ Goes(NoJob) /\ UNCHANGED onDisk

\* The process ends where it is.
ProcessEnds ==
  /\ job.at # "idle" /\ job' = NoJob /\ torn' = (torn \/ job.kind = "update")
  /\ UNCHANGED <<onDisk, kept, runs, edits>>

\* The user removes or changes a file, adds one, or tidies up the folder.
Edit(n) ==
  /\ job.at = "idle" /\ edits < MaxEdits /\ edits' = edits + 1
  /\ \E content \in {Missing, Users} \ {disk[n]} : disk' = [disk EXCEPT ![n] = content]
  /\ folder' = (folder \/ n # Proxy) /\ torn' = TRUE /\ kept' = NotKept
  /\ UNCHANGED <<staged, backup, job, runs>>
Tidy ==
  /\ job.at = "idle" /\ folder /\ \A n \in Targets \ {Proxy} : disk[n] = Missing
  /\ folder' = FALSE /\ staged' = Empty /\ backup' = Empty /\ kept' = NotKept
  /\ UNCHANGED <<disk, job, torn, runs, edits>>

RunsWith(build, o) == Install(build, o) \/ Update(build, o)
GoesOn ==
  \/ Uninstall \/ Create \/ Copy \/ Undo \/ RemoveFile
  \/ Stage \/ Staged \/ Backup \/ PublishNew \/ Succeed \/ Restore \/ Restored \/ Clean
  \/ Fail \/ FinishRun \/ ProcessEnds \/ Tidy
  \/ \E n \in Targets : Edit(n)

InstallerNext == GoesOn \/ \E build \in Builds, o \in Commands : RunsWith(build, o)
InstallerSpec == InstallerInit /\ [][InstallerNext]_installerVars
-----------------------------------------------------------------------------
(* What the markers make of the start of the game.                         *)
Marked(shown, m) == shown[m] # Missing
Diagnostics(shown) == Marked(shown, "observer") \/ Marked(shown, "trial")
Conflict(shown) ==
  \/ Marked(shown, "observer") /\ Marked(shown, "trial")
  \/ Diagnostics(shown) /\ (Marked(shown, "physics") \/ Marked(shown, "movement"))
LuaRefused(shown) == Marked(shown, "lua") /\ ~Marked(shown, "movement")
-----------------------------------------------------------------------------
(* Properties.                                                             *)

\* As long as no update was cut short, the game only finds a proxy to load beside a
\* runtime and a receipt that are complete, at every step of an installation and of a
\* removal, also when it fails or the process ends.
ProxyLast ==
  ~torn /\ disk[Proxy] # Missing /\ ~(job.at # "idle" /\ job.kind = "update") =>
    /\ disk[Receipt].is = "receipt" /\ Required \subseteq DOMAIN Owned
    /\ \A n \in DOMAIN Owned \ {Proxy} : disk[n] = File(Owned[n])

\* Whatever happens to an update, what was there before is still there, in its place
\* or as a backup, until all of the new is in place; and what the user made is never
\* touched.
NothingIsLost ==
  /\ \/ \A n \in Targets : kept.before[n] # Missing => kept.before[n] \in {disk[n], backup[n]}
     \/ disk = kept.wanted
  /\ \A n \in Targets : kept.before[n] = Users => disk[n] = Users

\* An update that fails leaves what it found, unless its restoration failed too, and
\* one that succeeds leaves what it was to leave.
AllOrNothing ==
  job.at = "clean" => /\ job.result = "failed" => disk = kept.before
                      /\ job.result = "succeeded" => disk = job.wanted /\ Intact

\* An update that succeeds leaves modes that start together, and engine Lua only with
\* the mode it needs, if it found them so, whoever put the markers there; and so does
\* every installation.
ModesAgree ==
  /\ job.at = "clean" /\ job.result = "succeeded" =>
       /\ Conflict(disk) => Conflict(kept.before)
       /\ LuaRefused(disk) => LuaRefused(kept.before)
  /\ ~torn /\ job.at = "idle" /\ disk[Proxy] # Missing => ~Conflict(disk) /\ ~LuaRefused(disk)

InstallationIsSafe == ProxyLast /\ NothingIsLost /\ AllOrNothing
=============================================================================
