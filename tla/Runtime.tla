------------------------------- MODULE Runtime --------------------------------
(***************************************************************************)
(* The bundled Pi runtime of pi_agent_bridge/runtime.py: how the vendor    *)
(* archive is downloaded, extracted and dropped when the plugin loads      *)
(* (install_bundled_runtime), and how the command of a worker is resolved  *)
(* (resolve).                                                              *)
(*                                                                         *)
(* All of it is synchronous code on the event loop: nothing of the plugin  *)
(* runs in between (module Plugin), so what can happen between two steps   *)
(* is an error of the disk or the network, or the death of the host.       *)
(*                                                                         *)
(* On disk are the archive, the Node binary and the Pi package.  A part of *)
(* the tree is "absent", "partial" (a file that was opened and not         *)
(* finished, a package with files missing) or "whole".                     *)
(*                                                                         *)
(* A definition introduced by "Mutant:" is not part of the model, but a    *)
(* plausible bug in the definition that follows it.                        *)
(***************************************************************************)
EXTENDS Naturals

CONSTANTS
  Urls,         \* how many URLs release_archive_urls gives (five in the code)
  LinuxTag,     \* whether the platform tag starts with "linux"
  PathPi,       \* whether a pi is found on PATH or under the home directory
  Downloads,    \* the archives a server may deliver
  DiskFaults    \* whether a write or an unlink may fail

(***************************************************************************)
(* An archive of the fixed versions; one that a server cut off (its size   *)
(* is only compared with 32 bytes); one of another Pi version, which       *)
(* "releases/latest" may hold and whose package no candidate path names.   *)
(***************************************************************************)
Archives == {"whole", "cut", "other"}

ASSUME RuntimeAssumption ==
  Urls \in Nat /\ Downloads \subseteq Archives /\ {LinuxTag, PathPi, DiskFaults} \subseteq BOOLEAN

VARIABLES
  archive,      \* the file runtime/vendor/pi-runtime-<tag>.tar.xz, or "none"
  partial,      \* whether its .partial file exists
  tree,         \* the extracted parts
  executable,   \* whether the Node binary has its x bits
  left,         \* the parts the extraction under way has not begun yet
  job,          \* what the runtime code is doing
  url,          \* the URL being tried
  answer,       \* what the last resolve() gave
  interrupted   \* history: an extraction of a Pi package began and never ended

runtimeVars ==
  <<archive, partial, tree, executable, left, job, url, answer, interrupted>>

Parts == {"node", "pi"}

\* The parts an archive holds where the code looks for them.
Content(a) == IF a = "other" THEN {"node"} ELSE Parts

Idle == "idle"

\* install_bundled_runtime up to its discarding, and the same code from resolve().
InstallSteps == {"fetching", "unpacking", "marking", "discarding"}
ResolveSteps == {"extracting", "chmodding", "deciding"}

RuntimeTypeOK ==
  /\ archive \in Archives \cup {"none"}
  /\ partial \in BOOLEAN
  /\ tree \in [Parts -> {"absent", "partial", "whole"}]
  /\ executable \in BOOLEAN
  /\ left \in SUBSET Parts
  /\ job \in {Idle} \cup InstallSteps \cup ResolveSteps
  /\ url \in 0..Urls
  /\ answer \in {"none", "bundled", "path", "error"}
  /\ interrupted \in BOOLEAN

\* A fresh installation, with or without an archive shipped with the plugin.
RuntimeInit ==
  /\ archive \in {"none"} \cup Downloads
  /\ partial = FALSE
  /\ tree = [p \in Parts |-> "absent"]
  /\ executable = FALSE
  /\ left = {}
  /\ job = Idle
  /\ url = 0
  /\ answer = "none"
  /\ interrupted = FALSE

-----------------------------------------------------------------------------

Whole == \A p \in Parts : tree[p] = "whole"

\* bundled_runtime_ready: both files exist, however much of them is there.
Ready == \A p \in Parts : tree[p] # "absent"

\* The extraction that begins now; one of a Pi package counts as interrupted
\* until its last file is closed.
Unpack(a, step) ==
  /\ job' = step
  /\ left' = Content(a)
  /\ interrupted' = (interrupted \/ a # "other")

CanFetch == LinuxTag /\ Urls > 0

\* Mutant: a runtime that is ready is not made executable again.
FirstStepTrustsReady ==
  IF Ready THEN "discarding" ELSE IF CanFetch THEN "fetching" ELSE "marking"

\* What an installation that has nothing to extract does first.
FirstStep == IF ~Ready /\ CanFetch THEN "fetching" ELSE "marking"

\* install_bundled_runtime looks at what there is.
InstallBegins ==
  /\ job = Idle
  /\ IF ~Ready /\ archive # "none"
     THEN Unpack(archive, "unpacking") /\ UNCHANGED url
     ELSE /\ job' = FirstStep
          /\ url' = IF job' = "fetching" THEN 1 ELSE url
          /\ UNCHANGED <<left, interrupted>>
  /\ UNCHANGED <<archive, partial, tree, executable, answer>>

\* The response is written to the .partial file.
FetchWrites ==
  /\ job = "fetching" /\ ~partial
  /\ partial' = TRUE
  /\ UNCHANGED <<archive, tree, executable, left, job, url, answer, interrupted>>

\* Mutant: the first URL is tried again.
FetchRepeats ==
  /\ job = "fetching"
  /\ partial' = FALSE
  /\ UNCHANGED <<archive, tree, executable, left, job, url, answer, interrupted>>

\* No connection, an error while it is written, or fewer than 32 bytes: the
\* .partial file is removed, an old one too, and the next URL is tried.
FetchFails ==
  /\ job = "fetching"
  /\ partial' = FALSE
  /\ IF url < Urls THEN url' = url + 1 /\ UNCHANGED job
                   ELSE url' = 0 /\ job' = "marking"
  /\ UNCHANGED <<archive, tree, executable, left, answer, interrupted>>

\* An HTTP protocol error is none of the exceptions _download_url_to expects:
\* the installation ends with it and initialize logs it.
FetchRaises ==
  /\ job = "fetching"
  /\ job' = Idle /\ url' = 0
  /\ UNCHANGED <<archive, partial, tree, executable, left, answer, interrupted>>

\* The .partial file is complete as far as its reader knows, and renamed.
FetchReplaces(a) ==
  /\ job = "fetching" /\ partial
  /\ partial' = FALSE /\ url' = 0
  /\ archive' = a
  /\ Unpack(a, "unpacking")
  /\ UNCHANGED <<tree, executable, answer>>

Extracting == job \in {"unpacking", "extracting"}

\* tarfile opens the next file: what stood there is truncated.
ExtractOpens(p) ==
  /\ Extracting /\ p \in left
  /\ \A q \in Content(archive) \ left : tree[q] = "whole"   \* one at a time
  /\ tree' = [tree EXCEPT ![p] = "partial"]
  /\ executable' = (executable /\ p # "node")
  /\ left' = left \ {p}
  /\ UNCHANGED <<archive, partial, job, url, answer, interrupted>>

\* A part is complete; an archive that was cut ends before its last part does.
ExtractCloses(p) ==
  /\ Extracting /\ p \in Content(archive) \ left /\ tree[p] = "partial"
  /\ archive = "cut" => left # {}
  /\ tree' = [tree EXCEPT ![p] = "whole"]
  /\ UNCHANGED <<archive, partial, executable, left, job, url, answer, interrupted>>

\* extractall returns.
ExtractEnds ==
  /\ Extracting /\ left = {}
  /\ \A p \in Content(archive) : tree[p] = "whole"
  /\ job' = IF job = "unpacking" THEN "marking" ELSE "chmodding"
  /\ interrupted' = (interrupted /\ archive = "other")
  /\ UNCHANGED <<archive, partial, tree, executable, left, url, answer>>

\* extractall raises: the archive was cut, or the disk failed.  initialize logs
\* it, a launch fails with it; the archive and the tree stay as they are.
ExtractRaises ==
  /\ Extracting
  /\ DiskFaults \/ archive = "cut"
  /\ answer' = IF job = "extracting" THEN "error" ELSE answer
  /\ job' = Idle /\ left' = {}
  /\ UNCHANGED <<archive, partial, tree, executable, url, interrupted>>

\* Mutant: the archive is dropped even if it gave no runtime.
MarksAlways ==
  /\ job \in {"marking", "chmodding"}
  /\ executable' = (executable \/ tree["node"] # "absent")
  /\ job' = IF job = "chmodding" THEN "deciding" ELSE "discarding"
  /\ UNCHANGED <<archive, partial, tree, left, url, answer, interrupted>>

\* _chmod_extracted_node; then install_bundled_runtime drops the archive if the
\* runtime is ready, and resolve() decides.
Marks ==
  /\ job \in {"marking", "chmodding"}
  /\ executable' = (executable \/ tree["node"] # "absent")
  /\ job' = IF job = "chmodding" THEN "deciding" ELSE IF Ready THEN "discarding" ELSE Idle
  /\ UNCHANGED <<archive, partial, tree, left, url, answer, interrupted>>

\* _discard_vendor_archives; a failing unlink is ignored.
Discards ==
  /\ job = "discarding"
  /\ archive' = "none" \/ (DiskFaults /\ archive' = archive)
  /\ job' = Idle
  /\ UNCHANGED <<partial, tree, executable, left, url, answer, interrupted>>

\* resolve() extracts an archive that lies there if no runtime is ready.
ResolveBegins ==
  /\ job = Idle
  /\ IF ~Ready /\ archive # "none"
     THEN Unpack(archive, "extracting")
     ELSE job' = "deciding" /\ UNCHANGED <<left, interrupted>>
  /\ UNCHANGED <<archive, partial, tree, executable, url, answer>>

\* _validate_pi_version: the manifest of a package that is not whole may be
\* missing, which is accepted, or torn, which is not.
ManifestErrors == IF tree["pi"] = "partial" THEN {"error"} ELSE {}

\* _resolve_bundled: two files make a bundle, one alone is an error.
BundledAnswers ==
  IF \A p \in Parts : tree[p] = "absent" THEN {"none"}
  ELSE IF Ready THEN {"bundled"} \cup ManifestErrors ELSE {"error"}

\* _resolve_path_fallback, which is only for no bundle at all.
FallbackAnswer == IF PathPi THEN "path" ELSE "error"

\* resolve() returns a command or raises.
Decides ==
  /\ job = "deciding"
  /\ \E a \in BundledAnswers : answer' = IF a = "none" THEN FallbackAnswer ELSE a
  /\ job' = Idle
  /\ UNCHANGED <<archive, partial, tree, executable, left, url, interrupted>>

\* The user puts an archive into runtime/vendor, as the documentation offers.
ArchivePlaced(a) ==
  /\ job = Idle /\ archive = "none"
  /\ archive' = a
  /\ UNCHANGED <<partial, tree, executable, left, job, url, answer, interrupted>>

\* The host dies: the disk stays as it is.
RuntimeCrash ==
  /\ job' = Idle /\ url' = 0 /\ left' = {} /\ answer' = "none"
  /\ UNCHANGED <<archive, partial, tree, executable, interrupted>>

RuntimeStep ==
  \/ FetchWrites \/ FetchFails \/ FetchRaises
  \/ \E a \in Downloads : FetchReplaces(a)
  \/ \E p \in Parts : ExtractOpens(p) \/ ExtractCloses(p)
  \/ ExtractEnds \/ ExtractRaises
  \/ Marks \/ Discards \/ Decides

-----------------------------------------------------------------------------

(***************************************************************************)
(* resolve() answers with the bundled runtime only if all of it is there   *)
(* and executable.  The exception is what its test of two files cannot     *)
(* see: an extraction that was interrupted earlier (README, section 6).    *)
(***************************************************************************)
BundledIsWhole ==
  answer = "bundled" /\ ~interrupted => Whole /\ executable

\* The archive is removed only when what it held is on the disk: otherwise the
\* plugin would be left with neither.
ArchiveKept ==
  [][archive # "none" /\ archive' = "none" /\ ~interrupted => Whole]_runtimeVars
===============================================================================
