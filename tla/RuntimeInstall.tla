--------------------------- MODULE RuntimeInstall ---------------------------
(***************************************************************************)
(* The installer of the pinned runtime (nivelle_runtime.py): an artifact   *)
(* is downloaded in resumable parts; a model is used as it is, the archive *)
(* of llama.cpp is extracted.  Connections break, servers answer a range   *)
(* as they like and may send something else, disks are altered, and the    *)
(* installer dies anywhere.                                                *)
(***************************************************************************)
EXTENDS Naturals

CONSTANTS
  ArtifactSize,                 \* of the artifact, in chunks
  DownloadAttempts,             \* _DOWNLOAD_ATTEMPTS
  MaxInstalls, MaxAlterations   \* bounds

ASSUME InstallAssumption ==
  /\ ArtifactSize \in Nat \ {0} /\ DownloadAttempts \in Nat \ {0}
  /\ MaxInstalls \in Nat /\ MaxAlterations \in Nat

VARIABLES
  kind,       \* what the artifact is: a model or the archive
  target,     \* the artifact in its place
  part,       \* what was downloaded so far
  stamped,    \* the verification stamp matches the target's size and time
  installer,  \* where the installer stands
  attempt,
  folder,     \* the install directory of llama.cpp
  extracted,  \* the temporary directory of the extraction
  setAside,   \* an earlier install directory was moved away
  installs, alterations

installVars == <<kind, target, part, stamped, installer, attempt, folder, extracted, setAside,
                 installs, alterations>>
downloadVars == <<kind, target, part, stamped, attempt>>
extractVars == <<folder, extracted, setAside>>

NoFile == [size |-> 0, genuine |-> FALSE, there |-> FALSE]
Content(size, genuine) == [size |-> size, genuine |-> genuine, there |-> TRUE]
FileStates == [size : 0 .. ArtifactSize + 1, genuine : BOOLEAN, there : BOOLEAN]
NoFolder == [server |-> FALSE, complete |-> FALSE, there |-> FALSE]
FolderStates == [server : BOOLEAN, complete : BOOLEAN, there : BOOLEAN]

InstallTypeOK ==
  /\ kind \in {"model", "archive"}
  /\ target \in FileStates /\ part \in FileStates
  /\ stamped \in BOOLEAN
  /\ installer \in {"out", "requesting", "receiving", "fetched", "extracting", "installed"}
  /\ attempt \in 0 .. DownloadAttempts
  /\ folder \in FolderStates /\ extracted \in FolderStates
  /\ setAside \in BOOLEAN
  /\ installs \in 0 .. MaxInstalls /\ alterations \in 0 .. MaxAlterations

\* Nothing is installed, or a directory without the server is left from before.
InstallInit ==
  /\ kind \in {"model", "archive"}
  /\ target = NoFile /\ part = NoFile /\ stamped = FALSE
  /\ installer = "out" /\ attempt = 0
  /\ folder \in {NoFolder, [NoFolder EXCEPT !.there = TRUE]}
  /\ extracted = NoFolder /\ setAside = FALSE
  /\ installs = 0 /\ alterations = 0

\* _verified_file: the size, then the stamp or the digest.
Verified(file, trusted) ==
  file.there /\ file.size = ArtifactSize /\ (trusted \/ file.genuine)

\* _finish_download of a part: a genuine one is put in place and stamped,
\* unless the installer fails in between; any other complete one is removed.
Finish(file) ==
  IF Verified(file, FALSE)
  THEN /\ target' = file /\ part' = NoFile
       /\ \/ stamped' = TRUE /\ installer' = "fetched"
          \/ stamped' = FALSE /\ installer' = "out"
       /\ UNCHANGED attempt
  ELSE /\ part' = IF file.size = ArtifactSize THEN NoFile ELSE file
       /\ UNCHANGED target
       /\ stamped' = FALSE
       /\ \/ attempt < DownloadAttempts /\ installer' = "requesting"
          \/ attempt >= DownloadAttempts /\ installer' = "out"
       /\ UNCHANGED attempt

\* _prepare_download_target: a short target becomes the part if there is none,
\* any other is removed; so is a part that is too long.
Prepared ==
  LET resumed == IF target.there /\ target.size < ArtifactSize /\ ~part.there
                 THEN target ELSE part
  IN IF resumed.size > ArtifactSize THEN NoFile ELSE resumed

\* A directory that has the server is taken as it is; _ensure_download then
\* does the same with a verified target.
BeginInstall ==
  /\ installer = "out" /\ installs < MaxInstalls
  /\ installs' = installs + 1
  /\ IF kind = "archive" /\ folder.server
     THEN /\ installer' = "installed"
          /\ UNCHANGED <<target, part, stamped, attempt>>
     ELSE IF Verified(target, stamped)
     THEN /\ installer' = "fetched" /\ stamped' = TRUE
          /\ UNCHANGED <<target, part, attempt>>
     ELSE IF Verified(Prepared, FALSE)
     THEN /\ target' = Prepared /\ part' = NoFile /\ stamped' = TRUE
          /\ installer' = "fetched" /\ attempt' = 0
     ELSE /\ target' = NoFile /\ stamped' = FALSE
          /\ part' = IF Prepared.size = ArtifactSize THEN NoFile ELSE Prepared
          /\ installer' = "requesting" /\ attempt' = 0
  /\ UNCHANGED <<kind, extractVars, alterations>>

\* _download_once asks for the rest.  The server resumes, starts over, or
\* refuses: a range it cannot serve drops the part, an error of the network or
\* of the server spends an attempt, and any other 4xx, an answer with the wrong
\* range or a full disk ends it all.
Request ==
  /\ installer = "requesting" /\ attempt < DownloadAttempts
  /\ attempt' = attempt + 1
  /\ \/ part.there /\ installer' = "receiving" /\ UNCHANGED part
     \/ installer' = "receiving" /\ part' = Content(0, TRUE)
     \/ /\ part' = NoFile
        /\ installer' = IF attempt' < DownloadAttempts THEN "requesting" ELSE "out"
     \/ /\ installer' = IF attempt' < DownloadAttempts THEN "requesting" ELSE "out"
        /\ UNCHANGED part
     \/ installer' = "out" /\ UNCHANGED part
  /\ UNCHANGED <<kind, target, stamped, extractVars, installs, alterations>>

\* One chunk more than the artifact has raises an error that nothing retries;
\* the long part stays for the next start to remove.
Receive ==
  /\ installer = "receiving"
  /\ \E genuine \in BOOLEAN :
       part' = Content(part.size + 1, part.genuine /\ genuine /\ part.size < ArtifactSize)
  /\ installer' = IF part'.size > ArtifactSize THEN "out" ELSE "receiving"
  /\ UNCHANGED <<kind, target, stamped, attempt, extractVars, installs, alterations>>

\* The body ends or the connection breaks.
BodyEnds ==
  /\ installer = "receiving"
  /\ Finish(part)
  /\ UNCHANGED <<kind, extractVars, installs, alterations>>

\* A verified model is ready; a verified archive is extracted to a temporary
\* directory beside the install directory.
UseArtifact ==
  /\ installer = "fetched"
  /\ \/ kind = "model" /\ installer' = "installed" /\ UNCHANGED extracted
     \/ /\ kind = "archive"
        /\ installer' = "extracting"
        /\ extracted' = [NoFolder EXCEPT !.there = TRUE]
  /\ UNCHANGED <<downloadVars, folder, setAside, installs, alterations>>

\* The members come one after the other, the server before the last of them.
ExtractServer ==
  /\ installer = "extracting" /\ extracted.there /\ ~extracted.server
  /\ extracted' = [extracted EXCEPT !.server = TRUE]
  /\ UNCHANGED <<downloadVars, installer, folder, setAside, installs, alterations>>

ExtractRest ==
  /\ installer = "extracting" /\ extracted.server /\ ~extracted.complete
  /\ extracted' = [extracted EXCEPT !.complete = TRUE]
  /\ UNCHANGED <<downloadVars, installer, folder, setAside, installs, alterations>>

SetAside ==
  /\ installer = "extracting" /\ extracted.complete /\ folder.there
  /\ folder' = NoFolder /\ setAside' = TRUE
  /\ UNCHANGED <<downloadVars, installer, extracted, installs, alterations>>

PutInPlace ==
  /\ installer = "extracting" /\ extracted.complete /\ ~folder.there
  /\ folder' = extracted /\ extracted' = NoFolder /\ setAside' = FALSE
  /\ installer' = "installed"
  /\ UNCHANGED <<downloadVars, installs, alterations>>

\* The extraction or a rename fails: the directory set aside comes back.
ExtractFails ==
  /\ installer = "extracting"
  /\ folder' = IF setAside THEN [NoFolder EXCEPT !.there = TRUE] ELSE folder
  /\ extracted' = NoFolder /\ setAside' = FALSE
  /\ installer' = "out"
  /\ UNCHANGED <<downloadVars, installs, alterations>>

\* The installer is done with or dies: temporary and old directories stay, but
\* nothing looks at them again.
InstallerEnds ==
  /\ installer # "out"
  /\ installer' = "out"
  /\ extracted' = NoFolder /\ setAside' = FALSE
  /\ UNCHANGED <<downloadVars, folder, installs, alterations>>

\* Between two starts a file is altered, which changes its time.
AlterTarget ==
  /\ installer = "out" /\ target.there
  /\ alterations < MaxAlterations /\ alterations' = alterations + 1
  /\ \E n \in 0 .. ArtifactSize : target' = Content(n, FALSE)
  /\ stamped' = FALSE
  /\ UNCHANGED <<kind, part, installer, attempt, extractVars, installs>>

InstallNext ==
  \/ BeginInstall \/ Request \/ Receive \/ BodyEnds
  \/ UseArtifact \/ ExtractServer \/ ExtractRest \/ SetAside \/ PutInPlace \/ ExtractFails
  \/ InstallerEnds \/ AlterTarget

InstallSpec == InstallInit /\ [][InstallNext]_installVars

\* nivelle_runtime.py:482-509: whatever was resumed, altered or cut off, the
\* installer only uses the genuine artifact, and a directory in which the
\* server is found holds all of it.
InstallIsSound ==
  /\ installer \in {"fetched", "extracting"} \/ (installer = "installed" /\ kind = "model") =>
       target.size = ArtifactSize /\ target.genuine
  /\ folder.server => folder.complete
=============================================================================
