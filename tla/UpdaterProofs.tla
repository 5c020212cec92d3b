---------------------------- MODULE UpdaterProofs ----------------------------
(***************************************************************************)
(* Proofs about Updater, for any number of overlapping checks, builds,     *)
(* files and starts, and any contents of the archives.                     *)
(***************************************************************************)
EXTENDS Updater, TLAPS

Offering    == {"asking", "resolving", "downloading", "verified"}
HasArchive  == {"downloading", "verified"}

\* What a check knows: an old build and a newer release once it offers one, an
\* archive no older than that release.
CheckOK(c, latest) ==
  /\ c \in Checks
  /\ c.latest <= latest /\ c.tag <= latest
  /\ c.at \in Offering => NoBuild < c.current /\ c.current < c.latest
  /\ c.at \in HasArchive => NoBuild < c.tag /\ c.latest <= c.tag
  /\ c.at = "idle" => ~c.again

ChecksOK == check \in [Tasks -> Checks] /\ \A t \in Tasks : CheckOK(check[t], published)

RestOK ==
  /\ dir \in [Files -> AnyBuild]
  /\ published \in Builds /\ installed \in 0..published
  /\ bare \in BOOLEAN /\ (installed = NoBuild => bare)
  /\ torn \in BOOLEAN /\ running \in BOOLEAN /\ up \in BOOLEAN
  /\ settings \in Settings /\ starts \in Nat

\* What is about to be extracted is not older than what is installed, unless another
\* check has installed something.
NoneOlder ==
  \A t \in Tasks : check[t].at \in HasArchive =>
    installed <= check[t].tag \/ \E s \in Tasks \ {t} : check[s].again

UpdaterInv == ChecksOK /\ RestOK /\ InstalledWhole /\ NoneOlder

-----------------------------------------------------------------------------
LEMMA IdleOK == \A p \in Builds : CheckOK(IdleCheck, p)
  BY UpdaterAssumption DEF CheckOK, IdleCheck, Checks, Ats, AnyBuild, Builds, NoBuild,
     Offering, HasArchive

LEMMA CheckingOK ==
  ASSUME NEW p \in Builds, NEW again \in BOOLEAN
  PROVE  CheckOK(Checking(again), p)
<1>1. CheckOK(IdleCheck, p)
  BY IdleOK
<1>2. Checking(again) \in Checks
  BY <1>1 DEF CheckOK, Checking, Checks, Ats
<1>3. /\ Checking(again).at = "checking" /\ Checking(again).again = again
      /\ Checking(again).latest = IdleCheck.latest /\ Checking(again).tag = IdleCheck.tag
  BY <1>1 DEF CheckOK, Checking, Checks
<1>4. QED
  BY <1>1, <1>2, <1>3 DEF CheckOK, Offering, HasArchive

\* A step that changes one check leaves the others as they were.
LEMMA OneCheckChanges ==
  ASSUME ChecksOK, NoneOlder, NEW t \in Tasks, NEW c, CheckOK(c, published), Becomes(t, c),
         published' = published, installed' = installed,
         check[t].again => c.again,
         c.at \in HasArchive =>
           (installed <= c.tag \/ (check[t].at \in HasArchive /\ c.tag = check[t].tag))
  PROVE  ChecksOK' /\ NoneOlder'
<1>1. /\ check'[t] = c /\ \A s \in Tasks \ {t} : check'[s] = check[s]
      /\ check' \in [Tasks -> Checks]
  BY DEF ChecksOK, Becomes, CheckOK
<1>2. ChecksOK'
  BY <1>1 DEF ChecksOK
<1>3. \A s \in Tasks : check[s].again => check'[s].again
  BY <1>1
<1>4. ASSUME NEW s \in Tasks, check'[s].at \in HasArchive
      PROVE  installed' <= check'[s].tag \/ \E r \in Tasks \ {s} : check'[r].again
  <2>1. CASE s = t
    BY <1>1, <1>3, <1>4, <2>1 DEF NoneOlder
  <2>2. CASE s # t
    BY <1>1, <1>3, <1>4, <2>2 DEF NoneOlder
  <2>3. QED
    BY <2>1, <2>2
<1>5. QED
  BY <1>2, <1>4 DEF NoneOlder

\* Going to "warming" or "done" asks nothing of a check.
LEMMA GoesOn ==
  ASSUME ChecksOK, NoneOlder, published \in Builds, NEW t \in Tasks, NEW at \in {"warming", "done"},
         Goes(t, at), published' = published, installed' = installed
  PROVE  ChecksOK' /\ NoneOlder'
<1> DEFINE c == [IdleCheck EXCEPT !.at = at, !.again = check[t].again]
<1>1. CheckOK(IdleCheck, published) /\ check[t] \in Checks
  BY IdleOK DEF ChecksOK
<1>2. c \in Checks /\ c.at = at /\ c.again = check[t].again
      /\ c.latest = IdleCheck.latest /\ c.tag = IdleCheck.tag
  BY <1>1 DEF CheckOK, Checks, Ats
<1>3. Becomes(t, c)
  BY DEF Goes
<1> HIDE DEF c
<1>4. CheckOK(c, published) /\ c.at \notin HasArchive
  BY <1>1, <1>2 DEF CheckOK, Offering, HasArchive
<1>5. QED
  BY <1>2, <1>3, <1>4, OneCheckChanges

\* Going on to ask or to resolve a release needs an offer.
LEMMA GoesOffering ==
  ASSUME ChecksOK, NoneOlder, published \in Builds, NEW t \in Tasks, NEW at \in {"asking", "resolving"},
         check[t].at # "idle", NoBuild < check[t].current, check[t].current < check[t].latest,
         Goes(t, at), published' = published, installed' = installed
  PROVE  ChecksOK' /\ NoneOlder'
<1> DEFINE c == [check[t] EXCEPT !.at = at]
<1>1. CheckOK(check[t], published)
  BY DEF ChecksOK
<1>2. /\ c \in Checks /\ c.at = at /\ c.again = check[t].again /\ c.latest = check[t].latest
      /\ c.tag = check[t].tag /\ c.current = check[t].current
  BY <1>1 DEF CheckOK, Checks, Ats
<1>3. Becomes(t, c)
  BY DEF Goes
<1> HIDE DEF c
<1>4. CheckOK(c, published) /\ c.at \notin HasArchive
  BY <1>1, <1>2 DEF CheckOK, Offering, HasArchive
<1>5. QED
  BY <1>2, <1>3, <1>4, OneCheckChanges

LEMMA InitInv == Init => UpdaterInv
<1> SUFFICES ASSUME Init PROVE UpdaterInv
  OBVIOUS
<1>1. published \in Builds /\ installed \in 0..published /\ bare \in BOOLEAN
      /\ (installed = NoBuild <=> bare)
  BY UpdaterAssumption DEF Init, Builds, NoBuild
<1>2. ChecksOK
  BY <1>1, IdleOK DEF Init, ChecksOK, CheckOK
<1>3. RestOK
  <2>1. installed \in AnyBuild /\ NoBuild \in AnyBuild /\ 1 \in Nat
    BY <1>1, UpdaterAssumption DEF Builds, AnyBuild, NoBuild
  <2>2. dir \in [Files -> AnyBuild]
    BY <2>1 DEF Init
  <2>3. QED
    BY <1>1, <2>1, <2>2 DEF Init, RestOK
<1>4. InstalledWhole
  <2> SUFFICES ASSUME installed # NoBuild, NEW f \in ArchiveFiles(installed)
               PROVE  dir[f] = installed
    BY DEF InstalledWhole
  <2>1. installed \in Builds
    BY <1>1, UpdaterAssumption DEF Builds, NoBuild
  <2>2. Archive[installed] \in Seq(Files)
    BY <2>1, UpdaterAssumption
  <2>3. f \in Files
    BY <2>2 DEF ArchiveFiles
  <2>4. QED
    BY <1>1, <2>3 DEF Init
<1>5. NoneOlder
  BY DEF Init, NoneOlder, IdleCheck, HasArchive
<1>6. QED
  BY <1>2, <1>3, <1>4, <1>5 DEF UpdaterInv

\* An extraction writes builds, whatever it leaves out.
LEMMA WroteBuilds ==
  ASSUME UpdaterInv, NEW t \in Tasks, check[t].at = "verified",
         NEW n, NEW cut, Wrote(t, n, cut)
  PROVE  /\ dir' \in [Files -> AnyBuild]
         /\ \A f \in Files : dir'[f] \in {dir[f], check[t].tag, NoBuild}
<1>1. check[t].tag \in AnyBuild /\ NoBuild \in AnyBuild
  BY UpdaterAssumption DEF UpdaterInv, ChecksOK, Checks, AnyBuild, NoBuild
<1>2. QED
  BY <1>1 DEF UpdaterInv, RestOK, Wrote

LEMMA StepInv ==
  ASSUME UpdaterInv, [Next]_vars
  PROVE  UpdaterInv'
<1> USE DEF UpdaterInv
<1>1. CASE UNCHANGED vars
  BY <1>1 DEF vars, ChecksOK, RestOK, InstalledWhole, CheckOK, NoneOlder
<1>2. ASSUME NEW t \in Tasks, Begin(t) PROVE UpdaterInv'
  <2>1. CheckOK(IF settings.check THEN Checking(FALSE) ELSE [IdleCheck EXCEPT !.at = "warming"],
                published)
    <3>1. CheckOK([IdleCheck EXCEPT !.at = "warming"], published)
      BY IdleOK DEF CheckOK, Checks, Ats, Offering, HasArchive, RestOK
    <3>2. QED
      BY <3>1, CheckingOK DEF RestOK
  <2>a. (IF settings.check THEN Checking(FALSE) ELSE [IdleCheck EXCEPT !.at = "warming"]).at
          \notin HasArchive
    BY DEF Checking, IdleCheck, HasArchive
  <2>b. ~check[t].again
    BY <1>2 DEF Begin, ChecksOK, CheckOK
  <2>2. ChecksOK' /\ NoneOlder'
    BY <1>2, <2>1, <2>a, <2>b, OneCheckChanges DEF Begin
  <2>3. QED
    BY <1>2, <2>2 DEF Begin, RestOK, InstalledWhole
<1>3. ASSUME NEW t \in Tasks, Detected(t) PROVE UpdaterInv'
  <2>1. PICK found \in {Executed, NoBuild} :
          Becomes(t, [check[t] EXCEPT !.awaits = @ \ {"version"}, !.current = found])
    BY <1>3 DEF Detected
  <2>2. found \in AnyBuild
    BY UpdaterAssumption DEF RestOK, AnyBuild, NoBuild, Executed
  <2>3. CheckOK([check[t] EXCEPT !.awaits = @ \ {"version"}, !.current = found], published)
    BY <1>3, <2>2 DEF Detected, ChecksOK, CheckOK, Checks, Offering, HasArchive
  <2>a. LET c == [check[t] EXCEPT !.awaits = @ \ {"version"}, !.current = found] IN
        c.again = check[t].again /\ c.at \notin HasArchive
    BY <1>3, <2>2 DEF Detected, ChecksOK, CheckOK, Checks, HasArchive
  <2>4. ChecksOK' /\ NoneOlder'
    BY <1>3, <2>1, <2>3, <2>a, OneCheckChanges DEF Detected
  <2>5. QED
    BY <1>3, <2>4 DEF Detected, RestOK, InstalledWhole
<1>4. ASSUME NEW t \in Tasks, FetchedRelease(t) PROVE UpdaterInv'
  <2>1. PICK found \in {published, NoBuild} :
          Becomes(t, [check[t] EXCEPT !.awaits = @ \ {"release"}, !.latest = found])
    BY <1>4 DEF FetchedRelease
  <2>2. found \in AnyBuild /\ found <= published
    BY UpdaterAssumption DEF RestOK, AnyBuild, Builds, NoBuild
  <2>3. CheckOK([check[t] EXCEPT !.awaits = @ \ {"release"}, !.latest = found], published)
    BY <1>4, <2>2 DEF FetchedRelease, ChecksOK, CheckOK, Checks, Offering, HasArchive
  <2>a. LET c == [check[t] EXCEPT !.awaits = @ \ {"release"}, !.latest = found] IN
        c.again = check[t].again /\ c.at \notin HasArchive
    BY <1>4, <2>2 DEF FetchedRelease, ChecksOK, CheckOK, Checks, HasArchive
  <2>4. ChecksOK' /\ NoneOlder'
    BY <1>4, <2>1, <2>3, <2>a, OneCheckChanges DEF FetchedRelease
  <2>5. QED
    BY <1>4, <2>4 DEF FetchedRelease, RestOK, InstalledWhole
<1>5. ASSUME NEW t \in Tasks, Decide(t) PROVE UpdaterInv'
  <2> DEFINE at == IF ~Available(check[t]) \/ check[t].again THEN "warming"
                   ELSE IF settings.auto THEN "resolving" ELSE "asking"
  <2>1. check[t] \in Checks /\ check[t].at = "checking" /\ Goes(t, at)
        /\ UNCHANGED <<published, installed>>
    BY <1>5 DEF ChecksOK, Decide
  <2>2. at # "warming" => NoBuild < check[t].current /\ check[t].current < check[t].latest
    BY <2>1 DEF Available, Checks, AnyBuild, NoBuild
  <2>3. at \in {"warming", "asking", "resolving"}
    OBVIOUS
  <2> HIDE DEF at
  <2>4. CASE at = "warming"
    BY <1>5, <2>1, <2>4, GoesOn DEF Decide, RestOK, InstalledWhole
  <2>5. CASE at # "warming"
    BY <1>5, <2>1, <2>2, <2>3, <2>5, GoesOffering DEF Decide, RestOK, InstalledWhole
  <2>6. QED
    BY <2>4, <2>5
<1>6. ASSUME NEW t \in Tasks, Answered(t) PROVE UpdaterInv'
  <2>1. PICK yes \in BOOLEAN : Goes(t, IF yes THEN "resolving" ELSE "warming")
    BY <1>6 DEF Answered
  <2>2. NoBuild < check[t].current /\ check[t].current < check[t].latest /\ check[t].at = "asking"
    BY <1>6 DEF Answered, ChecksOK, CheckOK, Offering
  <2>3. CASE yes
    BY <1>6, <2>1, <2>2, <2>3, GoesOffering DEF Answered, RestOK, InstalledWhole
  <2>4. CASE ~yes
    BY <1>6, <2>1, <2>4, GoesOn DEF Answered, RestOK, InstalledWhole
  <2>5. QED
    BY <2>3, <2>4
<1>7. ASSUME NEW t \in Tasks, Resolved(t) PROVE UpdaterInv'
  <2>1. CASE Goes(t, "warming")
    BY <1>7, <2>1, GoesOn DEF Resolved, RestOK, InstalledWhole
  <2>2. ASSUME NEW digest \in BOOLEAN,
               Becomes(t, [check[t] EXCEPT !.at = "downloading", !.tag = published, !.digest = digest])
        PROVE UpdaterInv'
    <3> DEFINE c == [check[t] EXCEPT !.at = "downloading", !.tag = published, !.digest = digest]
    <3>1. published \in AnyBuild /\ NoBuild < published /\ published <= published
      BY UpdaterAssumption DEF RestOK, AnyBuild, Builds, NoBuild
    <3>2. CheckOK(c, published)
      <4>1. check[t] \in Checks /\ check[t].latest <= published /\ check[t].at = "resolving"
            /\ NoBuild < check[t].current /\ check[t].current < check[t].latest
        BY <1>7 DEF Resolved, ChecksOK, CheckOK, Offering
      <4>2. c \in Checks
        BY <3>1, <4>1 DEF Checks, Ats
      <4>3. /\ c.at = "downloading" /\ c.tag = published
            /\ c.latest = check[t].latest /\ c.current = check[t].current
        BY <4>1 DEF Checks
      <4> HIDE DEF c
      <4>4. QED
        BY <3>1, <4>1, <4>2, <4>3 DEF CheckOK
    <3>a. check[t] \in Checks /\ installed <= published
      BY DEF ChecksOK, RestOK, Builds
    <3>b. c.tag = published /\ c.again = check[t].again
      BY <3>a DEF Checks
    <3> HIDE DEF c
    <3>3. ChecksOK' /\ NoneOlder'
      BY <1>7, <2>2, <3>2, <3>a, <3>b, OneCheckChanges DEF Resolved, c
    <3>4. QED
      BY <1>7, <3>3 DEF Resolved, RestOK, InstalledWhole
  <2>3. QED
    BY <1>7, <2>1, <2>2 DEF Resolved
<1>8. ASSUME NEW t \in Tasks, Downloaded(t) PROVE UpdaterInv'
  <2>1. CASE Goes(t, "warming")
    BY <1>8, <2>1, GoesOn DEF Downloaded, RestOK, InstalledWhole
  <2>2. ASSUME NEW intact \in BOOLEAN, check[t].digest => intact,
               Becomes(t, [check[t] EXCEPT !.at = "verified", !.intact = intact])
        PROVE UpdaterInv'
    <3>1. CheckOK([check[t] EXCEPT !.at = "verified", !.intact = intact], published)
      BY <1>8, <2>2 DEF Downloaded, ChecksOK, CheckOK, Checks, Ats, Offering, HasArchive
    <3>a. LET c == [check[t] EXCEPT !.at = "verified", !.intact = intact] IN
          /\ c.again = check[t].again /\ c.tag = check[t].tag
          /\ check[t].at \in HasArchive
      BY <1>8 DEF Downloaded, ChecksOK, Checks, HasArchive
    <3>2. ChecksOK' /\ NoneOlder'
      BY <1>8, <2>2, <3>1, <3>a, OneCheckChanges DEF Downloaded
    <3>3. QED
      BY <1>8, <3>2 DEF Downloaded, RestOK, InstalledWhole
  <2>3. QED
    BY <1>8, <2>1, <2>2 DEF Downloaded
<1>9. ASSUME NEW t \in Tasks, ExtractDone(t) PROVE UpdaterInv'
  <2>1. check[t].tag \in 1..published /\ check[t].tag \in Builds
    BY <1>9, UpdaterAssumption DEF RestOK, ExtractDone, ChecksOK, CheckOK, Checks, AnyBuild, Builds, NoBuild, HasArchive
  <2>2. dir' \in [Files -> AnyBuild]
    BY <1>9, WroteBuilds DEF ExtractDone
  <2>a. /\ check'[t] = Checking(TRUE) /\ \A s \in Tasks \ {t} : check'[s] = check[s]
        /\ CheckOK(Checking(TRUE), published)
        /\ check' \in [Tasks -> Checks] /\ published' = published
    BY <1>9, CheckingOK DEF ExtractDone, Becomes, ChecksOK, CheckOK, RestOK
  <2>3. ChecksOK'
    BY <2>a DEF ChecksOK
  <2>b. check'[t].again /\ check'[t].at \notin HasArchive
    BY <2>a DEF Checking, IdleCheck, HasArchive
  <2>c. NoneOlder'
    BY <2>b DEF NoneOlder
  <2>d. installed' \in 0..published' /\ installed' # NoBuild
    <3>1. installed' = check[t].tag /\ published' = published
      BY <1>9 DEF ExtractDone
    <3>2. published \in Nat
      BY UpdaterAssumption DEF RestOK, Builds
    <3>3. QED
      BY <2>1, <3>1, <3>2 DEF NoBuild
  <2>4. RestOK'
    BY <1>9, <2>2, <2>d DEF ExtractDone, RestOK
  <2>5. Archive[check[t].tag] \in Seq(Files)
    BY <2>1, UpdaterAssumption
  <2>6. \A f \in ArchiveFiles(check[t].tag) : f \in Files /\ dir'[f] = check[t].tag
    BY <1>9, <2>5 DEF ExtractDone, Wrote, ArchiveFiles
  <2>7. InstalledWhole'
    BY <1>9, <2>6 DEF ExtractDone, InstalledWhole, ArchiveFiles
  <2>8. QED
    BY <2>3, <2>4, <2>7, <2>c
<1>10. ASSUME NEW t \in Tasks, ExtractStops(t) PROVE UpdaterInv'
  <2>1. dir' \in [Files -> AnyBuild]
    BY <1>10, WroteBuilds DEF ExtractStops
  <2>2. ChecksOK' /\ NoneOlder'
    BY <1>10, GoesOn DEF ExtractStops, RestOK
  <2>3. RestOK'
    BY <1>10, <2>1 DEF ExtractStops, RestOK
  <2>4. InstalledWhole'
    BY <1>10 DEF ExtractStops, InstalledWhole
  <2>5. QED
    BY <2>2, <2>3, <2>4
<1>11. ASSUME NEW t \in Tasks, WarmUp(t) PROVE UpdaterInv'
  BY <1>11, GoesOn DEF WarmUp, RestOK, InstalledWhole
<1>12. CASE Publish
  <2>1. published' \in Builds /\ published < published' /\ installed' \in 0..published'
    BY <1>12, UpdaterAssumption DEF Publish, Builds, RestOK
  <2>2. ChecksOK'
    BY <1>12, <2>1 DEF Publish, ChecksOK, CheckOK, Checks, AnyBuild, Builds, RestOK
  <2>3. QED
    BY <1>12, <2>1, <2>2 DEF Publish, RestOK, InstalledWhole, NoneOlder
<1>13. CASE ServerComesOrGoes
  BY <1>13 DEF ServerComesOrGoes, ChecksOK, CheckOK, RestOK, InstalledWhole, NoneOlder
<1>14. CASE Exit
  BY <1>14 DEF Exit, ChecksOK, CheckOK, RestOK, InstalledWhole, NoneOlder
<1>15. CASE Restart
  <2>1. ChecksOK'
    BY <1>15, IdleOK DEF Restart, ChecksOK, CheckOK, RestOK
  <2>2. QED
    BY <1>15, <2>1 DEF Restart, RestOK, InstalledWhole, NoneOlder, IdleCheck, HasArchive
<1>16. QED
  BY <1>1, <1>2, <1>3, <1>4, <1>5, <1>6, <1>7, <1>8, <1>9, <1>10, <1>11, <1>12, <1>13, <1>14,
     <1>15 DEF Next, Step

LEMMA Inductive == Spec => []UpdaterInv
<1>1. UpdaterInv /\ [Next]_vars => UpdaterInv'
  BY StepInv
<1>2. QED
  BY InitInv, <1>1, PTL DEF Spec

-----------------------------------------------------------------------------
\* Every variable keeps its type, and a check that offers or installs a release has
\* found an older build (llamacpp_updater.py:163).
THEOREM TypeCorrect == Spec => []TypeOK
<1>1. UpdaterInv => TypeOK
  BY DEF UpdaterInv, ChecksOK, CheckOK, RestOK, TypeOK, Offering, HasArchive, NoBuild
<1>2. QED
  BY Inductive, <1>1, PTL

\* Unless an extraction has stopped half-way since, every file of the build last
\* installed is there (llamacpp_downloader.py:179-196).
THEOREM WholeInstallation == Spec => []InstalledWhole
<1>1. UpdaterInv => InstalledWhole
  BY DEF UpdaterInv
<1>2. QED
  BY Inductive, <1>1, PTL

\* Only an extraction changes the directory, and only as Wrote says.
LEMMA OnlyExtractionWrites ==
  ASSUME UpdaterInv, Next, NEW t \in Tasks, check[t].at = "verified", check'[t] # check[t],
         dir' # dir
  PROVE  \E n, cut : Wrote(t, n, cut)
<1>1. PICK s \in Tasks : ExtractDone(s) \/ ExtractStops(s)
  <2>1. CASE Restart
    BY <2>1 DEF Restart
  <2>2. QED
    BY <2>1 DEF Next, Step, Begin, Detected, FetchedRelease, Decide, Answered, Resolved,
       Downloaded, WarmUp, Publish, ServerComesOrGoes, Exit
<1>2. s = t
  BY <1>1 DEF ExtractDone, ExtractStops, Becomes, Goes, UpdaterInv, ChecksOK
<1>3. QED
  BY <1>1, <1>2 DEF ExtractDone, ExtractStops

\* Files are replaced by newer builds than the check found, none older than the one it
\* offered (app.py:222-243, llamacpp_downloader.py:99-122).
THEOREM InstallsNewer == Spec => InstallsOffered
<1>1. ASSUME UpdaterInv, [Next]_vars, NEW t \in Tasks, check[t].at = "verified",
             check'[t] # check[t], dir' # dir
      PROVE  /\ NoBuild < check[t].current
             /\ check[t].current < check[t].latest
             /\ check[t].latest <= check[t].tag
             /\ \A f \in Files : dir'[f] \in {dir[f], check[t].tag, NoBuild}
  <2>1. Next
    BY <1>1 DEF vars
  <2>2. PICK n, cut : Wrote(t, n, cut)
    BY <1>1, <2>1, OnlyExtractionWrites
  <2>3. CheckOK(check[t], published)
    BY <1>1 DEF UpdaterInv, ChecksOK
  <2>4. QED
    BY <1>1, <2>2, <2>3, WroteBuilds DEF CheckOK, Offering, HasArchive
<1>2. UpdaterInv /\ [Next]_vars => [\A t \in Tasks :
       check[t].at = "verified" /\ check'[t] # check[t] /\ dir' # dir =>
         /\ NoBuild < check[t].current
         /\ check[t].current < check[t].latest
         /\ check[t].latest <= check[t].tag
         /\ \A f \in Files : dir'[f] \in {dir[f], check[t].tag, NoBuild}]_vars
  BY <1>1
<1>3. QED
  BY Inductive, <1>2, PTL DEF Spec, InstallsOffered

\* An older build replaces a newer one only if the process has two checks, the other of
\* which has installed something too (app.py:201-249, llamacpp_downloader.py:99-194).
THEOREM NoLoneDowngrade == Spec => DowngradesOnlyByOverlap
<1> DEFINE Overlapped == \E s, t \in Tasks :
               s # t /\ check[s].again /\ check[t].at = "verified" /\ check'[t].again
<1>1. ASSUME UpdaterInv, [Next]_vars, installed' < installed
      PROVE  Overlapped
  <2>1. installed' # installed
    BY <1>1 DEF UpdaterInv, RestOK
  <2>2. PICK t \in Tasks : ExtractDone(t)
    <3>1. Next
      BY <1>1, <2>1 DEF vars
    <3>2. QED
      BY <2>1, <3>1 DEF Next, Step, Begin, Detected, FetchedRelease, Decide, Answered, Resolved,
         Downloaded, ExtractStops, WarmUp, Publish, ServerComesOrGoes, Exit, Restart
  <2>3. check[t].at = "verified" /\ installed' = check[t].tag /\ check'[t] = Checking(TRUE)
    BY <1>1, <2>2 DEF ExtractDone, Becomes, UpdaterInv, ChecksOK
  <2>4. check'[t].again
    BY <2>3 DEF Checking, IdleCheck
  <2>5. ~(installed <= check[t].tag)
    BY <1>1, <2>3 DEF UpdaterInv, RestOK, ChecksOK, Checks, AnyBuild
  <2>6. PICK s \in Tasks \ {t} : check[s].again
    BY <1>1, <2>3, <2>5 DEF UpdaterInv, NoneOlder, HasArchive
  <2>7. QED
    BY <2>3, <2>4, <2>6
<1> HIDE DEF Overlapped
<1>2. UpdaterInv /\ [Next]_vars => [installed' < installed => Overlapped]_vars
  BY <1>1
<1>3. Spec => [][installed' < installed => Overlapped]_vars
  BY Inductive, <1>2, PTL DEF Spec
<1>4. QED
  BY <1>3 DEF DowngradesOnlyByOverlap, Overlapped
=============================================================================
