--------------------------- MODULE ProjectImages ---------------------------
(***************************************************************************)
(* Project images: immutable disk images captured from a clean builder VM. *)
(*                                                                         *)
(* Three parties share an image.  The daemon keeps the builder and image   *)
(* rows, the retention references and the pins of the VMs made from the    *)
(* image (ahvm-daemon and ahvm-store project_images.rs).  The volume       *)
(* supervisor keeps a candidate record per image, exports the stopped      *)
(* builder's volume into a file, publishes the file and uploads it as an   *)
(* immutable base (ahvm-volume service/project_images.rs).  The engine's   *)
(* socket joins them: an answer may be lost and a request may still be     *)
(* waiting, or be half done, when the daemon has given up on it.           *)
(*                                                                         *)
(* One build is its builder, its image row and its candidate: the three    *)
(* share the build's identity.  A disk's content is a version number; the  *)
(* digest of an image is present or absent, since the trailer makes it     *)
(* unique to the build.  Quota and headroom refusals change nothing and    *)
(* are left out; that the bytes are charged at all is ImageCharged.        *)
(***************************************************************************)
EXTENDS Naturals, FiniteSets

CONSTANTS
    Builds,         \* build identities
    Clones,         \* VMs created from an image, one life each
    ImageScopes,    \* the scopes explored, see MCHostServices
    MaxGeneration   \* bound on retention generations

VARIABLES
    iscope,     \* [builds, clones, faults, replace, writes]: the instance of this run
    baseFile,   \* content of the named Ubuntu base file: 1 is the declared one
    proof,      \* base_proof's cache: contents verified, and the one in work
    builder,    \* builder row's phase
    source,     \* builder VM: [vm, disk, base, volume, installed]
    image,      \* image row's phase
    froze,      \* history: the source's content when the row turned capturing
    refs,       \* retention references <<kind, build>>
    generation, \* retention generation of the project
    clone,      \* per VM: [op, pin, image, volume]
    holder,     \* what holds the daemon's lifecycle lock "project-image:<id>"
    mail,       \* requests the supervisor has not started: <<operation, live>>
    svc,        \* the supervisor's record, files and work for the image
    imageFaults \* faults left

imageVars == <<iscope, baseFile, proof, builder, source, image, froze, refs,
               generation, clone, holder, mail, svc, imageFaults>>

\* Frames: what the base proof, the image's rows and its two workers own.
baseState == <<baseFile, proof>>
rows == <<image, froze, refs, generation, clone>>
lane == <<holder, mail, svc>>

None == "none"
Declared == 1
NoDisk == [vm |-> None, disk |-> 0, base |-> 0, volume |-> None,
           installed |-> FALSE]
Content(b) == [disk |-> source[b].disk, base |-> source[b].base]
NoContent == [disk |-> 0, base |-> 0]
NoClone == [op |-> None, pin |-> None, image |-> None, volume |-> None]

\* The supervisor knows nothing of the image: no record, no seal, no bytes.
Unknown == [phase |-> None, content |-> NoContent, digest |-> FALSE,
            verified |-> FALSE, seal |-> None, staged |-> FALSE,
            leaf |-> FALSE, remote |-> None, work |-> "idle", live |-> FALSE,
            late |-> FALSE]     \* history: an abandoned capture failed it when Ready

ImageInit ==
    /\ iscope \in ImageScopes
    /\ baseFile = Declared
    /\ proof = [seen |-> {}, running |-> 0]
    /\ builder = [b \in Builds |-> None]
    /\ source = [b \in Builds |-> NoDisk]
    /\ image = [b \in Builds |-> None]
    /\ froze = [b \in Builds |-> NoContent]
    /\ refs = {}
    /\ generation = 0
    /\ clone = [c \in Clones |-> NoClone]
    /\ holder = [b \in Builds |-> None]
    /\ mail = [b \in Builds |-> {}]
    /\ svc = [b \in Builds |-> Unknown]
    /\ imageFaults = iscope.faults

ImageFault == imageFaults > 0 /\ imageFaults' = imageFaults - 1

----------------------------------------------------------------------------
(***************************************************************************)
(* The clean builder                                                       *)
(***************************************************************************)

\* The builder VM's lifecycle lock: held by prepare_capture's worker from the
\* guest's sanitization to the sync, and by capture_step.
VmHeld(b) == holder[b] \in {"stop", "send", "wait", "answered", "mark"}

\* create_builder, first half: the builder row is durable before anything runs.
AdmitBuilder(b) ==
    /\ builder[b] = None
    /\ builder' = [builder EXCEPT ![b] = "creating"]
    /\ UNCHANGED <<iscope, source, baseState, rows, lane, imageFaults>>

\* base_proof::status_with starts at most one background checksum.
ProveBase ==
    /\ proof.running = 0
    /\ baseFile \notin proof.seen
    /\ \E b \in iscope.builds : builder[b] = "creating"
    /\ proof' = [proof EXCEPT !.running = baseFile]
    /\ UNCHANGED <<iscope, baseFile, builder, source, rows, lane, imageFaults>>

\* The checksum ends; a file replaced meanwhile leaves no proof.
BaseProved ==
    /\ proof.running # 0
    /\ proof' = [seen |-> IF proof.running = baseFile
                          THEN proof.seen \union {baseFile} ELSE proof.seen,
                 running |-> 0]
    /\ UNCHANGED <<iscope, baseFile, builder, source, rows, lane, imageFaults>>

\* The operator installs another file under the same name.
ReplaceBase ==
    /\ iscope.replace
    /\ baseFile = Declared
    /\ \E b \in iscope.builds : builder[b] = "creating"
    /\ baseFile' = Declared + 1
    /\ UNCHANGED <<iscope, proof, builder, source, rows, lane, imageFaults>>

\* create_builder, second half, with a proof of another content: the frozen
\* create is rejected for good (reject_project_builder).
RejectBuilder(b) ==
    /\ builder[b] = "creating" /\ source[b].vm = None
    /\ baseFile \in proof.seen /\ baseFile # Declared
    /\ builder' = [builder EXCEPT ![b] = "failed"]
    /\ UNCHANGED <<iscope, source, baseState, rows, lane, imageFaults>>

\* create_builder, second half, with the declared content proved: the create
\* is submitted as a lifecycle operation, which runs on its own.
SubmitBuilder(b) ==
    /\ builder[b] = "creating" /\ source[b].vm = None
    /\ baseFile \in proof.seen /\ baseFile = Declared
    /\ source' = [source EXCEPT ![b].vm = "queued"]
    /\ UNCHANGED <<iscope, builder, baseState, rows, lane, imageFaults>>

\* check_builder_create: a retired or rejected builder's create is refused.
BuilderCreatable(b) == builder[b] = "creating"

\* The create runs: the volume is imported from the file as it is now.
BootBuilder(b) ==
    /\ source[b].vm = "queued"
    /\ source' = [source EXCEPT ![b] =
          IF BuilderCreatable(b)
          THEN [NoDisk EXCEPT !.vm = "running", !.volume = "live",
                              !.base = baseFile]
          ELSE [@ EXCEPT !.vm = "gone"]]
    /\ UNCHANGED <<iscope, builder, baseState, rows, lane, imageFaults>>

\* The install-only managed run ends with success.
InstallDone(b) ==
    /\ source[b].vm = "running" /\ ~source[b].installed
    /\ source' = [source EXCEPT ![b].installed = TRUE]
    /\ UNCHANGED <<iscope, builder, baseState, rows, lane, imageFaults>>

\* The guest writes to its disk whenever it runs, sealed or not.
GuestWrites(b) ==
    /\ source[b].vm = "running"
    /\ source[b].disk < iscope.writes
    /\ source' = [source EXCEPT ![b].disk = @ + 1]
    /\ UNCHANGED <<iscope, builder, baseState, rows, lane, imageFaults>>

\* check_builder_mutable: a sealed source takes no start and no guest work.
BuilderMutable(b) == builder[b] \notin {"sealed", "captured", "retired"}

\* The admin stops or starts the builder through the ordinary routes.
StopBuilder(b) ==
    /\ source[b].vm = "running" /\ ~VmHeld(b)
    /\ source' = [source EXCEPT ![b].vm = "stopped"]
    /\ UNCHANGED <<iscope, builder, baseState, rows, lane, imageFaults>>

StartBuilder(b) ==
    /\ source[b].vm = "stopped" /\ ~VmHeld(b)
    /\ BuilderMutable(b)
    /\ source' = [source EXCEPT ![b].vm = "running"]
    /\ UNCHANGED <<iscope, builder, baseState, rows, lane, imageFaults>>

\* destroy_operation of the builder's sandbox: the builder is retired before
\* its VM goes; allowed in every phase, even before the VM exists.
DeleteBuilder(b) ==
    /\ builder[b] \notin {None, "retired"} /\ ~VmHeld(b)
    /\ builder' = [builder EXCEPT ![b] = "retired"]
    /\ source' = [source EXCEPT ![b].vm = IF @ = "queued" THEN @ ELSE "gone"]
    /\ UNCHANGED <<iscope, baseState, rows, lane, imageFaults>>

Exporting == {"admit", "stage", "digest", "link", "unlink", "upload", "import",
              "ready"}
Capturing == Exporting \union {"info", "failing", "seal"}

\* The deleted builder's volume is retired and then reclaimed at the supervisor.
\* An export holds both off: it keeps the volume's slot.
ReleaseSource(b) ==
    /\ source[b].vm = "gone" /\ source[b].volume \in {"live", "released"}
    /\ svc[b].work \notin Exporting
    /\ source' = [source EXCEPT ![b].volume =
                     IF @ = "live" THEN "released" ELSE "reclaimed"]
    /\ UNCHANGED <<iscope, builder, baseState, rows, lane, imageFaults>>

----------------------------------------------------------------------------
(***************************************************************************)
(* The daemon's capture: one job per image, retried until the row is final *)
(***************************************************************************)

SetImage(b, phase) == image' = [image EXCEPT ![b] = phase]
SetHolder(b, h) == holder' = [holder EXCEPT ![b] = h]

\* capture: the row and its build reference are durable, and the job starts
\* with the image lock already taken.
AdmitCapture(b) ==
    /\ holder[b] = None /\ image[b] = None
    /\ builder[b] # None /\ source[b].volume = "live"
    /\ SetImage(b, "preparing")
    /\ refs' = refs \union {<<"build", b>>}
    /\ SetHolder(b, "prepare")
    /\ UNCHANGED <<iscope, baseState, builder, source, froze, generation,
                   clone, mail, svc, imageFaults>>

\* spawn_capture, a later attempt: after the pause, a GET or a restart.
RetryCapture(b) ==
    /\ holder[b] = None
    /\ image[b] \in {"preparing", "capturing"}
    /\ SetHolder(b, "prepare")
    /\ UNCHANGED <<iscope, baseState, builder, source, rows, mail, svc,
                   imageFaults>>

\* prepare_capture up to the seal.  The guest is sanitized at most once: a
\* builder already sealed goes straight on to the stop.
Prepare(b) ==
    /\ holder[b] = "prepare"
    /\ \/ /\ image[b] = "capturing"
          /\ SetHolder(b, "ask")
          /\ UNCHANGED <<builder, image, imageFaults>>
       \/ /\ image[b] = "preparing" /\ builder[b] = "sealed"
          /\ SetHolder(b, "stop")
          /\ UNCHANGED <<builder, image, imageFaults>>
       \/ /\ image[b] = "preparing" /\ builder[b] # "sealed"
          /\ source[b].installed /\ source[b].vm = "running"
          /\ builder' = [builder EXCEPT ![b] = "sealed"]
          /\ SetHolder(b, "stop")
          /\ UNCHANGED <<image, imageFaults>>
       \* The preflight fails before the seal, which ends the capture.
       \/ /\ image[b] = "preparing" /\ builder[b] # "sealed"
          /\ IF source[b].installed /\ source[b].vm = "running"
             THEN ImageFault ELSE UNCHANGED imageFaults
          /\ SetImage(b, "failed")
          /\ SetHolder(b, None)
          /\ UNCHANGED builder
    /\ UNCHANGED <<iscope, baseState, source, froze, refs, generation, clone,
                   mail, svc>>

\* prepare_capture from the seal on: stop, sync, and only then capturing.
StopSync(b) ==
    /\ holder[b] = "stop"
    /\ \/ /\ source[b].vm \in {"running", "stopped"}
          /\ source' = [source EXCEPT ![b].vm = "stopped"]
          /\ SetImage(b, "capturing")
          /\ froze' = [froze EXCEPT ![b] = Content(b)]
          /\ SetHolder(b, "ask")
          /\ UNCHANGED imageFaults
       \* The stop or the sync fails; the sealed row waits for another attempt.
       \/ /\ ImageFault
          /\ \E vm \in {source[b].vm, "stopped"} :
                source' = [source EXCEPT ![b].vm = vm]
          /\ SetHolder(b, None)
          /\ UNCHANGED <<image, froze>>
    /\ UNCHANGED <<iscope, baseState, builder, refs, generation, clone, mail,
                   svc>>

\* project_image_status, given whether the intent lock was free.  If it was, no
\* writer survives and an unfinished capture is sealed as failed.
Status(b, free) ==
    LET s == svc[b] IN
    [quiescent |-> free,
     record |-> IF free /\ s.seal = None
                   /\ s.phase \in {"Exporting", "Importing"}
                THEN [s EXCEPT !.phase = "Failed"] ELSE s]

\* A bug to catch: a status that does not try the lock.
StatusAnswerHasty(b) == Status(b, TRUE)

StatusAnswer(b) == Status(b, svc[b].work = "idle")

\* capture_step: observe before asking again.  A quiescent failure is final, a
\* ready image is recorded; a verdict whose worker still runs is an error of the
\* engine's and tried again later; everything else sends the capture.
Ask(b) ==
    /\ holder[b] = "ask"
    /\ \E a \in {StatusAnswer(b)} :
          LET failed == a.record.seal = "failed" \/ a.record.phase = "Failed"
              retired == a.record.seal = "retired" \/ a.record.phase = "Retired"
              ready == a.record.phase = "Ready"
          IN
          /\ svc' = [svc EXCEPT ![b] = a.record]
          /\ IF a.quiescent /\ (failed \/ retired)
             THEN SetImage(b, "failed") /\ SetHolder(b, None)
             ELSE /\ SetHolder(b, CASE a.quiescent /\ ready -> "answered"
                                    [] ~a.quiescent /\ (ready \/ failed) -> None
                                    [] OTHER -> "send")
                  /\ UNCHANGED image
    /\ UNCHANGED <<iscope, baseState, builder, source, froze, refs, generation,
                   clone, mail, imageFaults>>

\* capture_project_image at the engine: refused unless the stopped builder is
\* still there.
SendCapture(b) ==
    /\ holder[b] = "send"
    /\ IF source[b].vm = "stopped"
       THEN /\ mail' = [mail EXCEPT ![b] = @ \union {<<"capture", TRUE>>}]
            /\ SetHolder(b, "wait")
       ELSE SetHolder(b, None) /\ UNCHANGED mail
    /\ UNCHANGED <<iscope, baseState, builder, source, rows, svc, imageFaults>>

\* finish_project_image, then set_project_builder_phase: two transactions.
FinishImage(b) ==
    /\ holder[b] = "answered"
    /\ image[b] = "capturing"
    /\ SetImage(b, "ready")
    /\ SetHolder(b, "mark")
    /\ UNCHANGED <<iscope, baseState, builder, source, froze, refs, generation,
                   clone, mail, svc, imageFaults>>

MarkCaptured(b) ==
    /\ holder[b] = "mark"
    /\ builder' = [builder EXCEPT ![b] = "captured"]
    /\ SetHolder(b, None)
    /\ UNCHANGED <<iscope, baseState, source, rows, mail, svc, imageFaults>>

----------------------------------------------------------------------------
(***************************************************************************)
(* The supervisor's requests.  A capture or a retirement holds the image's *)
(* intent lock and the one project_images mutex while svc.work names its   *)
(* next step.                                                              *)
(***************************************************************************)

supervisorOnly == <<iscope, baseState, builder, source, rows>>

\* The answer reaches the daemon only if it still waits for this request.
Answered(b, live, ok) ==
    IF ~live THEN holder[b]
    ELSE IF ~ok THEN None
    ELSE IF holder[b] = "wait" THEN "answered" ELSE "retired"

Reply(b, ok) ==
    /\ svc' = [svc EXCEPT ![b].work = "idle", ![b].live = FALSE]
    /\ SetHolder(b, Answered(b, svc[b].live, ok))

\* One private operation at a time, over all images.
MutexFree(b) == \A o \in iscope.builds \ {b} : svc[o].work = "idle"

\* project_image_request: what is answered before any work starts.
Refused(b, op) ==
    \/ svc[b].work # "idle"
    \/ op = "capture" /\ (\/ svc[b].seal # None
                          \/ svc[b].phase \in {"Failed", "Retiring", "Retired"})
    \/ ~MutexFree(b) /\ ~(op = "retire" /\ svc[b].phase = None)
Settled(b, op) == ~Refused(b, op) /\ op = "retire" /\ svc[b].phase = "Retired"

\* Retiring an image no capture registered seals its intent for good.
Unstarted(b, op) == ~Refused(b, op) /\ op = "retire" /\ svc[b].phase = None

Receive(b) ==
    \E m \in mail[b] :
       LET op == m[1]  live == m[2] IN
       /\ mail' = [mail EXCEPT ![b] = @ \ {m}]
       /\ \/ /\ Refused(b, op)
             /\ SetHolder(b, Answered(b, live, FALSE))
             /\ UNCHANGED svc
          \/ /\ Settled(b, op) \/ Unstarted(b, op)
             /\ svc' = [svc EXCEPT ![b].seal =
                  IF op = "retire" /\ (@ # None \/ Unstarted(b, op))
                  THEN "retired" ELSE @]
             /\ SetHolder(b, Answered(b, live, TRUE))
          \/ /\ ~Refused(b, op) /\ ~Settled(b, op) /\ ~Unstarted(b, op)
             /\ svc' = [svc EXCEPT ![b].live = live, ![b].work =
                          CASE op = "retire" -> "bar"
                            [] svc[b].phase = "Ready" -> "info"
                            [] OTHER -> "admit"]
             /\ UNCHANGED holder
       /\ UNCHANGED <<supervisorOnly, imageFaults>>

\* One durable step of the work on an image.
Work(b, from, to, update) ==
    /\ svc[b].work = from
    /\ svc' = [svc EXCEPT ![b] = [update EXCEPT !.work = to]]
    /\ UNCHANGED <<supervisorOnly, holder, mail, imageFaults>>

\* validate_builder_record and the checks around it.
StoppedBuilder(b) ==
    /\ source[b].vm # "running" /\ source[b].volume = "live"
    /\ source[b].base = Declared

\* A bug to catch: an export before its candidate is durable.
AdmitUnrecorded(b) ==
    Work(b, "admit", IF StoppedBuilder(b) THEN "stage" ELSE "failing",
         [svc[b] EXCEPT !.content = Content(b)])

\* A bug to catch: a new capture that goes on as if its files were in place.
AdmitResumed(b) ==
    Work(b, "admit", IF StoppedBuilder(b) THEN "upload" ELSE "failing",
         IF StoppedBuilder(b) /\ svc[b].phase = None
         THEN [svc[b] EXCEPT !.phase = "Exporting", !.content = Content(b)]
         ELSE svc[b])

\* The candidate, with the source's generation, is durable before any export.
Admit(b) ==
    Work(b, "admit", IF StoppedBuilder(b) THEN "stage" ELSE "failing",
         IF StoppedBuilder(b) /\ svc[b].phase = None
         THEN [svc[b] EXCEPT !.phase = "Exporting", !.content = Content(b)]
         ELSE svc[b])

\* capture_bytes, resuming at whichever of its files already exists.
Stage(b) ==
    LET s == svc[b] IN
    Work(b, "stage",
         CASE s.content # Content(b) -> "failing"
           [] s.digest /\ s.leaf -> "upload"
           [] s.digest /\ ~s.leaf -> "link"
           [] OTHER -> "digest",
         CASE s.content # Content(b) -> s
           [] s.digest /\ s.leaf -> [s EXCEPT !.staged = FALSE]
           [] OTHER -> [s EXCEPT !.staged = TRUE])

\* The source's generation is checked again, then the digest made durable.
Digest(b) ==
    IF svc[b].content = Content(b)
    THEN Work(b, "digest", "link",
              [svc[b] EXCEPT !.digest = TRUE, !.phase = "Importing"])
    ELSE Work(b, "digest", "failing", svc[b])

\* publish_file: link the final name, then remove the temporary one.
Link(b) == Work(b, "link", "unlink", [svc[b] EXCEPT !.leaf = TRUE])
Unlink(b) == Work(b, "unlink", "upload", [svc[b] EXCEPT !.staged = FALSE])

\* import_base_file: the base is created, filled and only then made ready.
Upload(b) ==
    IF svc[b].remote \in {None, "partial", "whole"}
    THEN Work(b, "upload", "import",
              [svc[b] EXCEPT !.remote = IF @ = None THEN "partial" ELSE @])
    ELSE Work(b, "upload", "failing", svc[b])
Import(b) == Work(b, "import", "ready", [svc[b] EXCEPT !.remote = "whole"])

Ready(b) == Work(b, "ready", "info", [svc[b] EXCEPT !.phase = "Ready"])

\* info: the published file is locked and looked at once more, by the capture
\* that made it and by every later one that finds it Ready.
Inform(b) ==
    /\ svc[b].work = "info"
    /\ Reply(b, TRUE)
    /\ UNCHANGED <<supervisorOnly, mail, imageFaults>>

\* Any step of a capture may fail, info too: a status or an admission that has
\* the file locked is enough.  Then the candidate is failed, whatever its phase,
\* and the intent sealed, in two writes.
CaptureFails(b) ==
    /\ svc[b].work \in Capturing \ {"failing", "seal"}
    /\ ImageFault
    /\ svc' = [svc EXCEPT ![b].work = "failing"]
    /\ UNCHANGED <<supervisorOnly, holder, mail>>

FailCandidate(b) ==
    Work(b, "failing", "seal",
         [svc[b] EXCEPT !.phase = IF @ = None THEN @ ELSE "Failed",
                        !.late = @ \/ (svc[b].phase = "Ready" /\ ~svc[b].live)])

SealFailure(b) ==
    /\ svc[b].work = "seal"
    /\ svc' = [svc EXCEPT ![b].seal = IF @ = None THEN "failed" ELSE @,
                          ![b].work = "idle", ![b].live = FALSE]
    /\ SetHolder(b, Answered(b, svc[b].live, FALSE))
    /\ UNCHANGED <<supervisorOnly, mail, imageFaults>>

\* ensure_unreferenced: every volume record not yet reclaimed counts.
Unreferenced(b) ==
    \A c \in iscope.clones :
       clone[c].image = b => clone[c].volume \notin {"live", "released"}

\* retire_project_image: the references are checked and the Retiring barrier
\* made durable under the import and admission locks.
Bar(b) ==
    /\ svc[b].work = "bar"
    /\ IF Unreferenced(b)
       THEN Work(b, "bar", "verify", [svc[b] EXCEPT !.phase = "Retiring"])
       ELSE Reply(b, FALSE) /\ UNCHANGED <<supervisorOnly, mail, imageFaults>>

\* The files prove ownership once, before anything is removed.
Verify(b) ==
    /\ svc[b].work = "verify"
    /\ IF svc[b].verified \/ ~svc[b].digest \/ svc[b].leaf \/ svc[b].staged
       THEN Work(b, "verify", "fence", [svc[b] EXCEPT !.verified = TRUE])
       ELSE Reply(b, FALSE) /\ UNCHANGED <<supervisorOnly, mail, imageFaults>>

\* retire_remote: a tombstone root first, then bounded sweeps of the objects.
Fence(b) ==
    Work(b, "fence", IF svc[b].digest THEN "sweep" ELSE "erase",
         [svc[b] EXCEPT !.remote = IF svc[b].digest /\ @ # "swept"
                                   THEN "fenced" ELSE @])

\* A pass that leaves objects behind answers "not yet".
SweepSome(b) ==
    /\ svc[b].work = "sweep" /\ svc[b].remote = "fenced"
    /\ Reply(b, FALSE)
    /\ UNCHANGED <<supervisorOnly, mail, imageFaults>>
SweepRest(b) == Work(b, "sweep", "erase", [svc[b] EXCEPT !.remote = "swept"])

\* The local files go last; only then is the charge released.
Erase(b) ==
    Work(b, "erase", "release", [svc[b] EXCEPT !.staged = FALSE, !.leaf = FALSE])

Release(b) ==
    /\ svc[b].work = "release"
    /\ svc' = [svc EXCEPT ![b].phase = "Retired", ![b].work = "idle",
                          ![b].live = FALSE,
                          ![b].seal = IF @ = None THEN @ ELSE "retired"]
    /\ SetHolder(b, Answered(b, svc[b].live, TRUE))
    /\ UNCHANGED <<supervisorOnly, mail, imageFaults>>

----------------------------------------------------------------------------
(***************************************************************************)
(* Retention, deletion and the VMs made from an image                      *)
(***************************************************************************)

\* retain_project_images: a newer generation replaces the current and previous
\* references and releases the builds it names, in one transaction.
Retain(cur, prev, released) ==
    /\ generation < MaxGeneration
    /\ generation' = generation + 1
    /\ cur # prev \/ cur = None
    /\ \A b \in {cur, prev} \ {None} : image[b] = "ready"
    /\ \A b \in released : image[b] \in {"ready", "failed"}
    /\ refs' = {r \in refs : r[1] = "build" /\ r[2] \notin released}
               \union {r \in {<<"current", cur>>, <<"previous", prev>>} :
                         r[2] # None}
    /\ UNCHANGED <<iscope, baseState, builder, source, image, froze, clone,
                   lane, imageFaults>>

Pinned(b) ==
    \/ \E r \in refs : r[2] = b
    \/ \E c \in iscope.clones : clone[c].pin = b

\* delete: an image with no row gets a retired one at once; a final and
\* unreferenced image starts, or repeats, its retirement.
DeleteImage(b) ==
    /\ holder[b] = None
    /\ \/ /\ image[b] = None /\ builder[b] # None
          /\ SetImage(b, "retired")
          /\ UNCHANGED <<holder, mail>>
       \/ /\ image[b] \in {"ready", "failed", "deleting"}
          /\ image[b] # "deleting" => ~Pinned(b)
          /\ SetImage(b, "deleting")
          /\ SetHolder(b, "retire")
          /\ mail' = [mail EXCEPT ![b] = @ \union {<<"retire", TRUE>>}]
    /\ UNCHANGED <<iscope, baseState, builder, source, froze, refs, generation,
                   clone, svc, imageFaults>>

\* finish_project_image_retirement, on a complete answer only.
FinishRetirement(b) ==
    /\ holder[b] = "retired"
    /\ SetHolder(b, None)
    /\ IF Pinned(b) THEN UNCHANGED image ELSE SetImage(b, "retired")
    /\ UNCHANGED <<iscope, baseState, builder, source, froze, refs, generation,
                   clone, mail, svc, imageFaults>>

cloneOnly == <<iscope, baseState, builder, source, image, froze, refs,
               generation, mail, svc, imageFaults>>

\* select_image: with the image lock held, the supervisor confirms the image
\* and the pin is durable before the VM's volume exists.
SelectImage(c, b) ==
    /\ clone[c].op = None
    /\ holder[b] = None /\ image[b] = "ready"
    /\ svc[b].phase = "Ready" /\ svc[b].work = "idle"
    /\ clone' = [clone EXCEPT ![c] = [op |-> "pending", pin |-> b, image |-> b,
                                      volume |-> "reserved"]]
    /\ SetHolder(b, "clone")
    /\ UNCHANGED cloneOnly

\* check_image_admission and the new volume record, under one lock.  The
\* request may be late: the daemon that sent it may have restarted.
AdmitClone(c) ==
    /\ clone[c].volume = "reserved"
    /\ svc[clone[c].image].phase = "Ready"
    /\ clone' = [clone EXCEPT ![c].volume = "live"]
    /\ UNCHANGED <<cloneOnly, holder>>

\* The create ends, with or without a disk, and its receipt is final.
CloneCreated(c) ==
    /\ clone[c].op = "pending"
    /\ clone' = [clone EXCEPT ![c].op = "done"]
    /\ holder' = [holder EXCEPT ![clone[c].image] = None]
    /\ UNCHANGED cloneOnly

\* The VM or the unborn volume is deleted; its record is reclaimed later.
RetireClone(c) ==
    /\ clone[c].op = "done" /\ clone[c].volume \in {"reserved", "live"}
    /\ clone' = [clone EXCEPT ![c].volume =
                    IF @ = "live" THEN "released" ELSE "reclaimed"]
    /\ UNCHANGED <<cloneOnly, holder>>

ReclaimClone(c) ==
    /\ clone[c].volume = "released"
    /\ clone' = [clone EXCEPT ![c].volume = "reclaimed"]
    /\ UNCHANGED <<cloneOnly, holder>>

\* release_vm_pin and release_project_image_vm: a final receipt, no VM and no
\* reservation still charged.
ReleasePin(c) ==
    /\ clone[c].op = "done" /\ clone[c].pin # None
    /\ clone[c].volume \in {"released", "reclaimed"}
    /\ clone' = [clone EXCEPT ![c].pin = None]
    /\ UNCHANGED <<cloneOnly, holder>>

----------------------------------------------------------------------------
(***************************************************************************)
(* Faults                                                                  *)
(***************************************************************************)

Abandoned(q) == {<<m[1], FALSE>> : m \in q}

\* The daemon gives up waiting; the request stays where it is.
GiveUpWaiting(b) ==
    /\ holder[b] \in {"wait", "retire"}
    /\ ImageFault
    /\ SetHolder(b, None)
    /\ mail' = [mail EXCEPT ![b] = Abandoned(@)]
    /\ svc' = [svc EXCEPT ![b].live = FALSE]
    /\ UNCHANGED supervisorOnly

\* The daemon restarts.  recover fails a preflight that was not journaled as
\* sealed, and pending lifecycle operations end as interrupted.
DaemonRestarts ==
    /\ ImageFault
    /\ \E b \in iscope.builds : builder[b] # None
    /\ holder' = [b \in Builds |-> None]
    /\ mail' = [b \in Builds |-> Abandoned(mail[b])]
    /\ svc' = [b \in Builds |-> [svc[b] EXCEPT !.live = FALSE]]
    /\ image' = [b \in Builds |->
                   IF image[b] = "preparing" /\ builder[b] # "sealed"
                   THEN "failed" ELSE image[b]]
    /\ clone' = [c \in Clones |->
                   [clone[c] EXCEPT !.op = IF @ = "pending" THEN "done" ELSE @]]
    /\ UNCHANGED <<iscope, baseState, builder, source, froze, refs, generation>>

\* The supervisor restarts: its threads, locks and connections are gone.
SupervisorRestarts ==
    /\ ImageFault
    /\ \E b \in iscope.builds : svc[b].work # "idle" \/ mail[b] # {}
    /\ holder' = [b \in Builds |->
                    IF holder[b] \in {"wait", "retire"} THEN None ELSE holder[b]]
    /\ mail' = [b \in Builds |-> {}]
    /\ svc' = [b \in Builds |-> [svc[b] EXCEPT !.work = "idle", !.live = FALSE]]
    /\ UNCHANGED supervisorOnly

BuilderStep(b) ==
    \/ AdmitBuilder(b) \/ RejectBuilder(b) \/ SubmitBuilder(b) \/ BootBuilder(b)
    \/ InstallDone(b) \/ GuestWrites(b) \/ StopBuilder(b) \/ StartBuilder(b)
    \/ DeleteBuilder(b) \/ ReleaseSource(b)

\* The capture job and the background loops of the daemon.
JobStep(b) ==
    \/ RetryCapture(b) \/ Prepare(b) \/ StopSync(b) \/ Ask(b) \/ SendCapture(b)
    \/ FinishImage(b) \/ MarkCaptured(b) \/ FinishRetirement(b)

\* The thread that works on the image, once Receive has started it.
ServiceStep(b) ==
    \/ Admit(b) \/ Stage(b) \/ Digest(b) \/ Link(b) \/ Unlink(b)
    \/ Upload(b) \/ Import(b) \/ Ready(b) \/ Inform(b)
    \/ FailCandidate(b) \/ SealFailure(b)
    \/ Bar(b) \/ Verify(b) \/ Fence(b) \/ SweepSome(b) \/ SweepRest(b)
    \/ Erase(b) \/ Release(b)

CloneStep(c) ==
    \/ AdmitClone(c) \/ CloneCreated(c) \/ RetireClone(c) \/ ReclaimClone(c)
    \/ ReleasePin(c)

ImageNext ==
    \/ \E b \in iscope.builds :
          \/ BuilderStep(b) \/ AdmitCapture(b) \/ JobStep(b) \/ Receive(b)
          \/ ServiceStep(b) \/ DeleteImage(b) \/ CaptureFails(b) \/ GiveUpWaiting(b)
    \/ \E c \in iscope.clones :
          CloneStep(c) \/ \E b \in iscope.builds : SelectImage(c, b)
    \/ \E cur, prev \in iscope.builds \union {None} :
          \E released \in SUBSET iscope.builds : Retain(cur, prev, released)
    \/ ProveBase \/ BaseProved \/ ReplaceBase
    \/ DaemonRestarts \/ SupervisorRestarts

----------------------------------------------------------------------------
Bytes(b) == svc[b].staged \/ svc[b].leaf
            \/ svc[b].remote \in {"partial", "whole", "fenced"}

(***************************************************************************)
(* The bytes of an image, in a file or in the object store, are charged on *)
(* both ledgers for as long as they exist: the supervisor's candidate and  *)
(* the tenant's image row.  In particular no capture that was abandoned    *)
(* writes anything once the image is retired.                              *)
(***************************************************************************)
ImageCharged ==
    \A b \in iscope.builds : Bytes(b) =>
       /\ svc[b].phase \notin {None, "Retired"}
       /\ image[b] \notin {None, "retired"}

(***************************************************************************)
(* The verdict of the image row is true.  A ready row has a published and  *)
(* complete image behind it, whose content is the builder's disk as it was *)
(* when the stopped, sealed builder was synced, on the base its provenance *)
(* declares.  Its candidate is Ready: only a capture request the daemon    *)
(* had given up on can withdraw it, by failing where it looks at the file  *)
(* again, and then the bytes stay as they are until the row is deleted.    *)
(* Behind a failed row no capture is in work and none ever completes.      *)
(***************************************************************************)
VerdictIsTrue ==
    \A b \in iscope.builds :
       /\ image[b] = "ready" =>
             /\ svc[b].phase = "Ready" \/ (svc[b].phase = "Failed" /\ svc[b].late)
             /\ svc[b].leaf /\ svc[b].remote = "whole"
             /\ svc[b].content = froze[b] /\ svc[b].content.base = Declared
       /\ image[b] = "failed" =>
             svc[b].phase # "Ready" /\ svc[b].work \notin Capturing

(***************************************************************************)
(* An image outlives every volume made from it: as long as a volume record *)
(* is not reclaimed, the base it inherits its blocks from is complete and  *)
(* its file is in place.                                                   *)
(***************************************************************************)
ImageOutlivesVolumes ==
    \A c \in iscope.clones : clone[c].volume \in {"live", "released"} =>
       svc[clone[c].image].leaf /\ svc[clone[c].image].remote = "whole"
=============================================================================
