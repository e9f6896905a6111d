---------------------------- MODULE HelperInstall ----------------------------
(***************************************************************************)
(* Getting the faragent-helper binary onto a remote host (faragent-service *)
(* helper.rs): probe, plan, upload, verify, and a script fallback at every *)
(* dead end. An installer is one open of the host, by this app or by       *)
(* another instance of it; opens follow one another or overlap. The upload *)
(* script runs on the remote on its own: when its ssh is killed it goes    *)
(* on, and its `cat` sees the end of a truncated stream.                   *)
(***************************************************************************)
EXTENDS Naturals, Absent

CONSTANTS
    Installers,   \* opens of the host
    Builds,       \* helper binaries, each named by its SHA-256
    Unames       \* the <<uname -s, uname -m>> pairs hosts report

ASSUME InstallAssumption == /\ None \notin Builds /\ "torn" \notin Builds
                            /\ None # "native" /\ None # "torn"
                            /\ None \notin [digest : Builds \cup {"torn"}, x : BOOLEAN]

VARIABLES
    host,     \* the remote: its os, uname, checksum tool, noexec home
    ships,    \* ships[i]: the build installer i carries for the host's platform
    file,     \* what is at REMOTE_HELPER_PATH: its digest, and whether it is +x
    script,   \* script[i]: where the upload script of installer i stands
    tmp,      \* tmp[i]: its temporary file
    sent,     \* sent[i]: "part", "all", or "cut" when its ssh is gone
    code,     \* code[i]: its exit code
    stage,   \* stage[i]: where install_helper stands
    saw,      \* saw[i]: the probe's report
    mode      \* mode[i]: the HelperMode it ended with

remoteVars == <<file, script, tmp, sent, code>>
localVars == <<stage, saw, mode>>
installVars == <<host, ships, remoteVars, localVars>>

Contents == Builds \cup {"torn"}
Binary == [digest : Contents, x : BOOLEAN]
Reasons == {"unsupported_platform", "no_local_artifact", "no_checksum_tool", "probe_failed",
            "windows_remote", "upload_failed", "verify_failed", "not_executable"}
Unseen == [present |-> FALSE, digest |-> None]

InstallTypeOK ==
    /\ host \in [os : {"posix", "windows"}, uname : Unames, tool : BOOLEAN, noexec : BOOLEAN]
    /\ ships \in [Installers -> Builds \cup {None}]
    /\ file \in Binary \cup {None}
    /\ script \in [Installers -> {"none", "mkdir", "cat", "hash", "chmod", "mv", "exited"}]
    /\ tmp \in [Installers -> Binary \cup {None}]
    /\ sent \in [Installers -> {"part", "all", "cut"}]
    /\ code \in [Installers -> {None} \cup 0..8]
    /\ stage \in [Installers -> {"idle", "probe", "digest", "plan", "sending", "waiting",
                                  "verify", "execute", "done"}]
    /\ saw \in [Installers -> [present : BOOLEAN, digest : Contents \cup {None}]]
    /\ mode \in [Installers -> {None, "native"} \cup Reasons]

InstallInit ==
    /\ host \in [os : {"posix", "windows"}, uname : Unames, tool : BOOLEAN, noexec : BOOLEAN]
    /\ ships \in [Installers -> Builds \cup {None}]
    /\ file \in {None, [digest |-> "torn", x |-> TRUE]}
    /\ script = [i \in Installers |-> "none"]
    /\ tmp = [i \in Installers |-> None]
    /\ sent = [i \in Installers |-> "part"]
    /\ code = [i \in Installers |-> None]
    /\ stage = [i \in Installers |-> "idle"]
    /\ saw = [i \in Installers |-> Unseen]
    /\ mode = [i \in Installers |-> None]

-----------------------------------------------------------------------------
\* platform_dir: the artifact table, from what `uname` prints
UnameOs == [linux |-> "linux", darwin |-> "darwin", macos |-> "darwin",
            mingw |-> "windows", msys |-> "windows", cygwin |-> "windows"]
UnameArch == [x86_64 |-> "x86_64", amd64 |-> "x86_64", x64 |-> "x86_64",
              aarch64 |-> "aarch64", arm64 |-> "aarch64"]
Artifacts == {<<"linux", "x86_64">>, <<"linux", "aarch64">>, <<"darwin", "x86_64">>,
              <<"darwin", "aarch64">>, <<"windows", "x86_64">>}
PlatformDir(uname) ==
    IF /\ uname[1] \in DOMAIN UnameOs
       /\ uname[2] \in DOMAIN UnameArch
       /\ <<UnameOs[uname[1]], UnameArch[uname[2]]>> \in Artifacts
    THEN <<UnameOs[uname[1]], UnameArch[uname[2]]>> ELSE None

\* plan: what to do about a probed remote. `babble` is a probe whose ssh
\* exited without a report: its output parses to an empty RemoteProbe.
Mutant_PlanReusesAnyFile(i, babble) ==
    IF babble \/ PlatformDir(host.uname) = None THEN "unsupported_platform"
    ELSE IF ships[i] = None THEN "no_local_artifact"
    ELSE IF ~host.tool THEN "no_checksum_tool"
    ELSE IF saw[i].present THEN "reuse" ELSE "upload"
Plan(i, babble) ==
    IF babble \/ PlatformDir(host.uname) = None THEN "unsupported_platform"
    ELSE IF ships[i] = None THEN "no_local_artifact"
    ELSE IF ~host.tool THEN "no_checksum_tool"
    ELSE IF saw[i].present /\ saw[i].digest = ships[i] THEN "reuse" ELSE "upload"

\* The open of installer i ends with HelperMode m
Concludes(i, m) ==
    /\ mode' = [mode EXCEPT ![i] = m]
    /\ stage' = [stage EXCEPT ![i] = "done"]
    /\ saw' = [saw EXCEPT ![i] = Unseen]

\* ensure_helper: a Windows remote is refused before any round trip
EnsureHelper(i) ==
    /\ stage[i] = "idle"
    /\ IF host.os = "windows"
       THEN Concludes(i, "windows_remote")
       ELSE stage' = [stage EXCEPT ![i] = "probe"] /\ UNCHANGED <<saw, mode>>
    /\ UNCHANGED <<host, ships, remoteVars>>

\* The probe script: presence first, then the digest, if there is a tool
ProbePresence(i) ==
    /\ stage[i] = "probe"
    /\ stage' = [stage EXCEPT ![i] = "digest"]
    /\ saw' = [saw EXCEPT ![i].present = file # None]
    /\ UNCHANGED <<host, ships, mode, remoteVars>>

Digest == IF host.tool /\ file # None THEN file.digest ELSE None

ProbeDigest(i) ==
    /\ stage[i] = "digest"
    /\ stage' = [stage EXCEPT ![i] = "plan"]
    /\ saw' = [saw EXCEPT ![i].digest = Digest]
    /\ UNCHANGED <<host, ships, mode, remoteVars>>

\* The probe's run times out or cannot be spawned
ProbeFails(i) ==
    /\ stage[i] \in {"probe", "digest"}
    /\ Concludes(i, "probe_failed")
    /\ UNCHANGED <<host, ships, remoteVars>>

Follow(i, plan) ==
    CASE plan = "reuse"  -> Concludes(i, "native") /\ UNCHANGED remoteVars
      [] plan = "upload" -> /\ stage' = [stage EXCEPT ![i] = "sending"]
                            /\ script' = [script EXCEPT ![i] = "mkdir"]
                            /\ UNCHANGED <<saw, mode, file, tmp, sent, code>>
      [] OTHER           -> Concludes(i, plan) /\ UNCHANGED remoteVars

\* install_helper after the probe; its ssh may also have died without a report
InstallPlan(i) ==
    /\ stage[i] = "plan"
    /\ Follow(i, Plan(i, FALSE))
    /\ UNCHANGED <<host, ships>>

ProbeBabbles(i) ==
    /\ stage[i] \in {"probe", "digest"}
    /\ Follow(i, Plan(i, TRUE))
    /\ UNCHANGED <<host, ships>>

-----------------------------------------------------------------------------
(* The upload script, on the remote. A failing step removes the temporary  *)
(* file; a killed script leaves it.                                        *)
ScriptGoes(i, step) ==
    /\ script' = [script EXCEPT ![i] = step]
    /\ UNCHANGED code

ScriptExits(i, status) ==
    /\ script' = [script EXCEPT ![i] = "exited"]
    /\ code' = [code EXCEPT ![i] = status]

Discards(i, status) ==
    /\ ScriptExits(i, status)
    /\ tmp' = [tmp EXCEPT ![i] = None]
    /\ UNCHANGED <<host, ships, file, sent, localVars>>

ScriptMkdir(i) ==
    /\ script[i] = "mkdir"
    /\ \/ /\ ScriptGoes(i, "cat")
          /\ tmp' = [tmp EXCEPT ![i] = [digest |-> "torn", x |-> FALSE]]
          /\ UNCHANGED <<host, ships, file, sent, localVars>>
       \/ Discards(i, 3)

\* `cat` ends with the stream: all of it, or what came before ssh was killed
ScriptCat(i) ==
    /\ script[i] = "cat" /\ sent[i] # "part"
    /\ \/ /\ ScriptGoes(i, "hash")
          /\ tmp' = [tmp EXCEPT ![i].digest = IF sent[i] = "all" THEN ships[i] ELSE "torn"]
          /\ UNCHANGED <<host, ships, file, sent, localVars>>
       \/ Discards(i, 4)

Mutant_ScriptTrustsTheStream(i) ==
    /\ script[i] = "hash"
    /\ ScriptGoes(i, "chmod")
    /\ UNCHANGED <<host, ships, file, tmp, sent, localVars>>
ScriptHash(i) ==
    /\ script[i] = "hash"
    /\ IF ~host.tool THEN Discards(i, 7)
       ELSE IF tmp[i].digest # ships[i] THEN Discards(i, 8)
       ELSE /\ ScriptGoes(i, "chmod")
            /\ UNCHANGED <<host, ships, file, tmp, sent, localVars>>

ScriptChmod(i) ==
    /\ script[i] = "chmod"
    /\ \/ /\ ScriptGoes(i, "mv")
          /\ tmp' = [tmp EXCEPT ![i].x = TRUE]
          /\ UNCHANGED <<host, ships, file, sent, localVars>>
       \/ Discards(i, 5)

ScriptMv(i) ==
    /\ script[i] = "mv"
    /\ \/ /\ ScriptExits(i, 0)
          /\ file' = tmp[i]
          /\ tmp' = [tmp EXCEPT ![i] = None]
          /\ UNCHANGED <<host, ships, sent, localVars>>
       \/ Discards(i, 6)

ScriptKilled(i) ==
    /\ script[i] \notin {"none", "exited"}
    /\ ScriptExits(i, None)
    /\ UNCHANGED <<host, ships, file, tmp, sent, localVars>>

-----------------------------------------------------------------------------
\* exec_stdio_timeout writes all of stdin before it looks at the clock. The
\* binary does not fit in the pipes, so that needs a `cat` that reads, or an
\* ssh that is gone (a failed write is ignored).
UploadSent(i) ==
    /\ stage[i] = "sending" /\ script[i] \in {"cat", "exited"}
    /\ stage' = [stage EXCEPT ![i] = "waiting"]
    /\ sent' = [sent EXCEPT ![i] = "all"]
    /\ UNCHANGED <<host, ships, saw, mode, file, script, tmp, code>>

UploadReturns(i) ==
    /\ stage[i] = "waiting" /\ script[i] = "exited"
    /\ IF code[i] = 0
       THEN stage' = [stage EXCEPT ![i] = "verify"] /\ UNCHANGED <<saw, mode>>
       ELSE Concludes(i, "upload_failed")
    /\ UNCHANGED <<host, ships, remoteVars>>

\* The deadline (only once everything is written), or a connection that drops
UploadGivesUp(i) ==
    /\ Concludes(i, "upload_failed")
    /\ sent' = [sent EXCEPT ![i] = IF @ = "part" THEN "cut" ELSE @]
    /\ UNCHANGED <<host, ships, file, script, tmp, code>>
UploadTimesOut(i) == stage[i] = "waiting" /\ UploadGivesUp(i)
UploadDrops(i) == stage[i] = "sending" /\ UploadGivesUp(i)

\* The verify script: the digest, then a run with stdin at its end
VerifyDigest(i) ==
    /\ stage[i] = "verify"
    /\ stage' = [stage EXCEPT ![i] = "execute"]
    /\ saw' = [saw EXCEPT ![i].digest = Digest]
    /\ UNCHANGED <<host, ships, mode, remoteVars>>

VerifyExecutes(i) ==
    /\ stage[i] = "execute"
    /\ LET runs == file # None /\ file.x /\ ~host.noexec /\ file.digest # "torn"
       IN Concludes(i, IF saw[i].digest # ships[i] THEN "verify_failed"
                       ELSE IF runs THEN "native" ELSE "not_executable")
    /\ UNCHANGED <<host, ships, remoteVars>>

\* It times out (upload_failed), or its ssh exits without a report (verify_failed)
VerifyFails(i) ==
    /\ stage[i] \in {"verify", "execute"}
    /\ \E reason \in {"upload_failed", "verify_failed"} : Concludes(i, reason)
    /\ UNCHANGED <<host, ships, remoteVars>>

-----------------------------------------------------------------------------
ScriptNext(i) == \/ ScriptMkdir(i) \/ ScriptCat(i) \/ ScriptHash(i) \/ ScriptChmod(i)
                 \/ ScriptMv(i) \/ ScriptKilled(i)
OpenNext(i) == \/ ProbePresence(i) \/ ProbeDigest(i) \/ ProbeFails(i) \/ ProbeBabbles(i)
               \/ InstallPlan(i) \/ UploadSent(i) \/ UploadReturns(i) \/ UploadTimesOut(i)
               \/ UploadDrops(i) \/ VerifyDigest(i) \/ VerifyExecutes(i) \/ VerifyFails(i)
InstallNext == \E i \in Installers : EnsureHelper(i) \/ OpenNext(i) \/ ScriptNext(i)
InstallSpec == InstallInit /\ [][InstallNext]_installVars

-----------------------------------------------------------------------------
\* Whatever is cut, timed out, killed or running beside it, an upload only ever
\* replaces the installed file by a whole, executable build of an installer:
\* a truncated transfer never reaches the path (upload_script).
OnlyWholeBinaries ==
    [][file' # file => \E i \in Installers : file' = [digest |-> ships[i], x |-> TRUE]]_file

\* As long as every installer carries the same build, one that was told
\* "native" has its own bytes in place, whichever way it came to that and
\* whatever late scripts still do; and one that uploaded them can execute them.
NativeIsVerified ==
    \A i \in Installers : mode[i] = "native" =>
        /\ (\A j \in Installers : ships[j] \in {ships[i], None}) =>
               file # None /\ file.digest = ships[i]
        /\ script[i] # "none" => ~host.noexec
=============================================================================
