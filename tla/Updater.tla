------------------------------ MODULE Updater ------------------------------
(***************************************************************************)
(* The llama.cpp updater: _check_for_llama_update (app.py), the check      *)
(* (adapters/llamacpp_updater.py) and the installation                     *)
(* (adapters/llamacpp_downloader.py).                                      *)
(*                                                                         *)
(* The archive is extracted into the parent of llama_server_executable.    *)
(* A bare name, the default, is looked up on PATH when it is run, but its  *)
(* parent is the working directory.                                        *)
(*                                                                         *)
(* Every on_ready starts a task that checks for an update before it warms  *)
(* the model up, so after a reconnect two checks may overlap, and one may  *)
(* find a llama-server running.  The install directory outlives the        *)
(* process; releases are published at any time.  Extraction writes file by *)
(* file without an await: the loop sees one step, a dying process or a     *)
(* failing write leaves part of it.                                        *)
(***************************************************************************)
EXTENDS Naturals, Sequences

CONSTANTS
  Tasks,           \* the on_ready events of a process
  Files,
  Exe,             \* the file name of llama_server_executable
  MaxBuild,        \* bound on the builds released
  PathBuild,       \* the build that PATH leads to, or NoBuild
  Archive,         \* per build: the file names of its archive, in order
  Settings,        \* what .env may say: whether to check, and to ask
  MaxStarts        \* bound on starts of the process

NoBuild  == 0      \* no build number; for a file: missing or cut short
Builds   == 1..MaxBuild
AnyBuild == 0..MaxBuild

ASSUME UpdaterAssumption ==
  /\ Exe \in Files
  /\ MaxBuild \in Nat \ {0} /\ MaxStarts \in Nat
  /\ PathBuild \in AnyBuild
  /\ Archive \in [Builds -> Seq(Files)]
  /\ Settings \subseteq [check : BOOLEAN, auto : BOOLEAN]

VARIABLES
  bare,            \* llama_server_executable is a bare name
  check,           \* per task: its _check_for_llama_update
  dir,             \* the install directory: the build each file is of
  published,       \* the build of the latest release
  installed,       \* the build last installed there, or NoBuild (history)
  torn,            \* an extraction since has stopped half-way (history)
  running,         \* a llama-server runs
  settings, up, starts

vars == <<bare, check, dir, published, installed, torn, running, settings, up, starts>>

(***************************************************************************)
(* A check: where it is, the answers it still waits for while "checking",  *)
(* the UpdateInfo, whether it is the second round, and the download: the   *)
(* release's build, whether a digest was declared, whether it is intact.   *)
(***************************************************************************)
Ats == {"idle", "checking", "asking", "resolving", "downloading", "verified", "warming", "done"}

Checks ==
  [at : Ats, awaits : SUBSET {"version", "release"}, again : BOOLEAN,
   current : AnyBuild, latest : AnyBuild,
   tag : AnyBuild, digest : BOOLEAN, intact : BOOLEAN]

IdleCheck ==
  [at |-> "idle", awaits |-> {}, again |-> FALSE, current |-> NoBuild, latest |-> NoBuild,
   tag |-> NoBuild, digest |-> FALSE, intact |-> FALSE]

ArchiveFiles(b) == {Archive[b][i] : i \in DOMAIN Archive[b]}

\* The build of the program that llama_server_executable runs.
Executed == IF bare THEN PathBuild ELSE dir[Exe]

Init ==
  /\ check = [t \in Tasks |-> IdleCheck]
  /\ published \in Builds
  /\ bare \in BOOLEAN
  /\ installed \in IF bare THEN {NoBuild} ELSE 1..published
  /\ dir = [f \in Files |-> IF ~bare /\ f \in ArchiveFiles(installed) THEN installed ELSE NoBuild]
  /\ torn = FALSE /\ running = FALSE
  /\ settings \in Settings
  /\ up = TRUE /\ starts = 1

Becomes(t, c) == check' = [check EXCEPT ![t] = c]

\* _check_for_llama_update goes on; what it knew is gone once it has returned.
Goes(t, at) ==
  Becomes(t, IF at \in {"warming", "done"} THEN [IdleCheck EXCEPT !.at = at, !.again = check[t].again]
                                           ELSE [check[t] EXCEPT !.at = at])

\* _check_for_llama_update is called: both halves of check_for_update begin.
Checking(again) ==
  [IdleCheck EXCEPT !.at = "checking", !.awaits = {"version", "release"}, !.again = again]

Begin(t) ==
  /\ up /\ check[t].at = "idle"
  /\ Becomes(t, IF settings.check THEN Checking(FALSE) ELSE [IdleCheck EXCEPT !.at = "warming"])
  /\ UNCHANGED <<bare, dir, published, installed, torn, running, settings, up, starts>>

\* `llama-server --version`: its build, or None if it is missing, hangs or prints
\* something else.
Detected(t) ==
  /\ up /\ check[t].at = "checking" /\ "version" \in check[t].awaits
  /\ \E found \in {Executed, NoBuild} :
       Becomes(t, [check[t] EXCEPT !.awaits = @ \ {"version"}, !.current = found])
  /\ UNCHANGED <<bare, dir, published, installed, torn, running, settings, up, starts>>

\* The releases API: the latest build, or None on any error.
FetchedRelease(t) ==
  /\ up /\ check[t].at = "checking" /\ "release" \in check[t].awaits
  /\ \E found \in {published, NoBuild} :
       Becomes(t, [check[t] EXCEPT !.awaits = @ \ {"release"}, !.latest = found])
  /\ UNCHANGED <<bare, dir, published, installed, torn, running, settings, up, starts>>

Available(c) == c.latest # NoBuild /\ c.current # NoBuild /\ c.latest > c.current

\* Mutant of Decide: the second round installs again.
DecideAgain(t) ==
  /\ up /\ check[t].at = "checking" /\ check[t].awaits = {}
  /\ Goes(t, IF ~Available(check[t]) THEN "warming"
             ELSE IF settings.auto THEN "resolving" ELSE "asking")
  /\ UNCHANGED <<bare, dir, published, installed, torn, running, settings, up, starts>>

\* Mutant of Decide: an unknown build counts as an old one.
DecideUnknown(t) ==
  /\ up /\ check[t].at = "checking" /\ check[t].awaits = {}
  /\ Goes(t, IF ~(check[t].latest > check[t].current) \/ check[t].again THEN "warming"
             ELSE IF settings.auto THEN "resolving" ELSE "asking")
  /\ UNCHANGED <<bare, dir, published, installed, torn, running, settings, up, starts>>

\* Mutant of Decide: the latest build itself is offered once more.
DecideAtLeast(t) ==
  /\ up /\ check[t].at = "checking" /\ check[t].awaits = {}
  /\ LET c == check[t]
         available == c.current # NoBuild /\ c.latest >= c.current IN
     Goes(t, IF ~available \/ c.again THEN "warming"
             ELSE IF settings.auto THEN "resolving" ELSE "asking")
  /\ UNCHANGED <<bare, dir, published, installed, torn, running, settings, up, starts>>

\* Both answers are in.  The round after an installation only reports.
Decide(t) ==
  /\ up /\ check[t].at = "checking" /\ check[t].awaits = {}
  /\ Goes(t, IF ~Available(check[t]) \/ check[t].again THEN "warming"
             ELSE IF settings.auto THEN "resolving" ELSE "asking")
  /\ UNCHANGED <<bare, dir, published, installed, torn, running, settings, up, starts>>

\* The prompt: yes, or no, the timeout or the end of stdin.
Answered(t) ==
  /\ up /\ check[t].at = "asking"
  /\ \E yes \in BOOLEAN : Goes(t, IF yes THEN "resolving" ELSE "warming")
  /\ UNCHANGED <<bare, dir, published, installed, torn, running, settings, up, starts>>

\* Mutant of Resolved: takes some release that has an asset for this platform.
ResolvedAny(t) ==
  /\ up /\ check[t].at = "resolving"
  /\ \/ \E release \in 1..published, digest \in BOOLEAN :
          Becomes(t, [check[t] EXCEPT !.at = "downloading", !.tag = release, !.digest = digest])
     \/ Goes(t, "warming")
  /\ UNCHANGED <<bare, dir, published, installed, torn, running, settings, up, starts>>

\* download_and_install asks for the latest release once more.
Resolved(t) ==
  /\ up /\ check[t].at = "resolving"
  /\ \/ \E digest \in BOOLEAN :
          Becomes(t, [check[t] EXCEPT !.at = "downloading", !.tag = published, !.digest = digest])
     \/ Goes(t, "warming")   \* an error, or no asset for this platform
  /\ UNCHANGED <<bare, dir, published, installed, torn, running, settings, up, starts>>

\* The archive is there, unless the download fails, times out, or is not what the
\* digest declares, if one was declared.
Downloaded(t) ==
  /\ up /\ check[t].at = "downloading"
  /\ \/ \E intact \in BOOLEAN :
          /\ check[t].digest => intact
          /\ Becomes(t, [check[t] EXCEPT !.at = "verified", !.intact = intact])
     \/ Goes(t, "warming")
  /\ UNCHANGED <<bare, dir, published, installed, torn, running, settings, up, starts>>

(***************************************************************************)
(* The first n files of the archive are in place.  If those are not all,   *)
(* the next one may have been cut short.  A damaged archive fails at some  *)
(* file, or when it is opened: each file has a CRC, checked before the     *)
(* file in the directory is touched.  The executable of a running server,  *)
(* if it is the one in the directory, cannot be opened for writing.        *)
(***************************************************************************)
Wrote(t, n, cut) ==
  LET files == Archive[check[t].tag]
      first == {files[i] : i \in 1..n} IN
  /\ n = Len(files) => check[t].intact /\ cut = {}
  /\ cut # {} => cut = {files[n + 1]}
  /\ running /\ ~bare => Exe \notin first \union cut
  /\ dir' = [f \in Files |-> IF f \in cut THEN NoBuild
                             ELSE IF f \in first THEN check[t].tag ELSE dir[f]]

FilesLeft(t) == 0..(Len(Archive[check[t].tag]) - 1)
Cuts         == {{}} \union {{f} : f \in Files}

\* Mutant of ExtractDone: a file that cannot be written is passed over.
ExtractDoneSkips(t) ==
  /\ up /\ check[t].at = "verified" /\ check[t].intact
  /\ \E missed \in SUBSET ArchiveFiles(check[t].tag) :
       dir' = [f \in Files |-> IF f \in ArchiveFiles(check[t].tag) \ missed
                               THEN check[t].tag ELSE dir[f]]
  /\ installed' = check[t].tag /\ torn' = FALSE
  /\ Becomes(t, Checking(TRUE))
  /\ UNCHANGED <<bare, published, running, settings, up, starts>>

\* Everything is extracted: a second round of the check follows.
ExtractDone(t) ==
  /\ up /\ check[t].at = "verified"
  /\ Wrote(t, Len(Archive[check[t].tag]), {})
  /\ installed' = check[t].tag /\ torn' = FALSE
  /\ Becomes(t, Checking(TRUE))
  /\ UNCHANGED <<bare, published, running, settings, up, starts>>

\* The extraction raises, or the process dies in it.
ExtractStops(t) ==
  /\ up /\ check[t].at = "verified"
  /\ \E n \in FilesLeft(t), cut \in Cuts : Wrote(t, n, cut)
  /\ torn' = TRUE
  /\ \/ Goes(t, "warming") /\ UNCHANGED <<up, running>>
     \/ Goes(t, "done") /\ up' = FALSE /\ running' \in {running, FALSE}
  /\ UNCHANGED <<bare, published, installed, settings, starts>>

\* warm_general, if the executable is there and starts.
WarmUp(t) ==
  /\ up /\ check[t].at = "warming"
  /\ running' \in {running, TRUE} /\ (running' => running \/ Executed # NoBuild)
  /\ Goes(t, "done")
  /\ UNCHANGED <<bare, dir, published, installed, torn, settings, up, starts>>

Step(t) ==
  \/ Detected(t) \/ FetchedRelease(t) \/ Decide(t) \/ Answered(t)
  \/ Resolved(t) \/ Downloaded(t) \/ ExtractDone(t) \/ ExtractStops(t) \/ WarmUp(t)

\* A new release.
Publish ==
  /\ published < MaxBuild
  /\ published' = published + 1
  /\ UNCHANGED <<bare, check, dir, installed, torn, running, settings, up, starts>>

\* Requests, swaps and crashes stop and start servers once the bot has one.
ServerComesOrGoes ==
  /\ up
  /\ \/ running /\ running' = FALSE
     \/ ~running /\ (\E t \in Tasks : check[t].at = "done") /\ Executed # NoBuild /\ running' = TRUE
  /\ UNCHANGED <<bare, check, dir, published, installed, torn, settings, up, starts>>

\* The process ends.  A server it had started is stopped, or outlives a kill.
Exit ==
  /\ up /\ up' = FALSE /\ running' \in {running, FALSE}
  /\ UNCHANGED <<bare, check, dir, published, installed, torn, settings, starts>>

Restart ==
  /\ ~up /\ starts < MaxStarts
  /\ up' = TRUE /\ starts' = starts + 1
  /\ settings' \in Settings
  /\ check' = [t \in Tasks |-> IdleCheck]
  /\ UNCHANGED <<bare, dir, published, installed, torn, running>>

Next ==
  \/ \E t \in Tasks : Begin(t) \/ Step(t)
  \/ Publish \/ ServerComesOrGoes \/ Exit \/ Restart

Spec == Init /\ [][Next]_vars

\* Every await of a check has a timeout, the prompt too.  Nothing else must happen.
FairSpec == Spec /\ \A t \in Tasks : WF_vars(Step(t))

-----------------------------------------------------------------------------
(* Properties *)

\* A check that asks or installs has found a build older than the release.
TypeOK ==
  /\ check \in [Tasks -> Checks]
  /\ dir \in [Files -> AnyBuild]
  /\ published \in Builds /\ installed \in 0..published
  /\ bare \in BOOLEAN /\ (installed = NoBuild => bare)
  /\ torn \in BOOLEAN /\ running \in BOOLEAN /\ up \in BOOLEAN
  /\ settings \in Settings /\ starts \in Nat
  /\ \A t \in Tasks :
       /\ check[t].latest <= published /\ check[t].tag <= published
       /\ check[t].at \in {"asking", "resolving", "downloading", "verified"} =>
            check[t].latest > check[t].current
       /\ check[t].at \in {"downloading", "verified"} => check[t].tag # NoBuild

\* Whatever is published or restarted in between: files are written only by a check
\* to which the executable told its build when it began, and they are of a build
\* newer than that and not older than the one offered (app.py:222-243,
\* llamacpp_updater.py:163, llamacpp_downloader.py:99-122).
InstallsOffered ==
  [][\A t \in Tasks :
       check[t].at = "verified" /\ check'[t] # check[t] /\ dir' # dir =>
         /\ NoBuild < check[t].current
         /\ check[t].current < check[t].latest
         /\ check[t].latest <= check[t].tag
         /\ \A f \in Files : dir'[f] \in {dir[f], check[t].tag, NoBuild}]_vars

\* An older build replaces a newer one only where one process has two checks and the
\* other of them has installed something too: never by one check alone, whatever is
\* published, and never across restarts (app.py:201-249, llamacpp_downloader.py:99-194).
DowngradesOnlyByOverlap ==
  [][installed' < installed =>
       \E s, t \in Tasks :
         s # t /\ check[s].again /\ check[t].at = "verified" /\ check'[t].again]_vars

\* Unless an extraction has stopped half-way since, the directory holds every file of
\* the build last installed, through overlapping checks, failures and restarts
\* (llamacpp_downloader.py:179-196).
InstalledWhole == ~torn /\ installed # NoBuild => \A f \in ArchiveFiles(installed) : dir[f] = installed

\* Every check ends, or the process does: it never installs for ever, though the
\* archive may hold no file that changes what `--version` says (app.py:225-226, 246).
EveryCheckEnds == \A t \in Tasks : check[t].at # "idle" ~> (check[t].at = "done" \/ ~up)
=============================================================================
