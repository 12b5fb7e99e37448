----------------------------- MODULE Readiness -----------------------------
(***************************************************************************)
(* How a gare command waits for a workload, and what it may conclude.  One *)
(* application, whose commands run one at a time; systemd and podman go on *)
(* beside them.  A command has a deadline, which may pass at every wait,   *)
(* and leaves its systemd job behind when it does.  A workload may die and *)
(* is then started again by systemd (Restart=on-failure), from the image   *)
(* its tag names at that moment.                                           *)
(*                                                                         *)
(* A poll that finds nothing new changes nothing and is no step here; nor  *)
(* is a query that fails, which the polling loops take for "not yet".      *)
(* That systemd forgets a unit once a destroy has removed its file is left *)
(* out: here it may go on restarting what that destroy did not stop.       *)
(***************************************************************************)
CONSTANTS
  Images,   \* image identifiers: a pool, an identifier is used again once free
  NoImage,  \* no image
  Remote,   \* what a workload without an image of its own is started from
  Probes,   \* the health probes an application may declare
  Main      \* the probe of an application that declares none

ASSUME ReadinessAssumption == /\ NoImage \notin Images
                              /\ Remote \notin Images \cup {NoImage}
                              /\ Main \notin Probes

VARIABLES
  kind,   \* the workload type, which never changes here
  known,  \* config.json is there
  image,  \* the image localhost/<name>:latest names
  store,  \* the images of the application in podman's storage
  own,    \* the pod manifest names that image, and not one of the repository's choice
  unit,   \* the ActiveState systemd reports
  job,    \* systemd's job on the unit, or how the last one ended
  runs,   \* what the workload that runs was started from, or NoImage
  pc,     \* the next step of the command
  op,     \* the command
  left,   \* the probes a deploy has yet to see answered
  built,  \* the image the deploy built
  fresh,  \* the last workload was started after the command's own job
  good,   \* every answered probe was answered by such a workload, from built
  blind,  \* since the last build, a unit was started without looking for its
          \* image, or a destroy went on without having stopped it
  stray   \* the last stop of the stack left containers of it

podmanVars  == <<image, store, own>>
systemdVars == <<unit, job, runs>>
historyVars == <<fresh, good, blind, stray>>
commandVars == <<pc, op, left, built>>
vars == <<kind, known, podmanVars, systemdVars, commandVars, historyVars>>

Kinds == {"container", "static", "compose"}
Verbs == {"start", "stop", "restart"}

TypeOK ==
  /\ kind \in Kinds /\ known \in BOOLEAN
  /\ image \in Images \cup {NoImage} /\ store \in SUBSET Images /\ own \in BOOLEAN
  /\ unit \in {"inactive", "activating", "active", "deactivating", "failed"}
  /\ job \in Verbs \cup {"none", "done", "failed"}
  /\ runs \in Images \cup {NoImage, Remote}
  /\ pc \in {"idle", "build", "manifest", "reload", "image", "ingress", "post", "job", "wait", "gone",
             "settle", "probe", "prune", "rmi", "delete", "report"}
  /\ op \in Verbs \cup {"none", "deploy", "destroy"}
  /\ left \in SUBSET (Probes \cup {Main}) /\ built \in Images \cup {NoImage}
  /\ fresh \in BOOLEAN /\ good \in BOOLEAN /\ blind \in BOOLEAN /\ stray \in BOOLEAN

Init ==
  /\ kind \in Kinds /\ known = FALSE
  /\ image = NoImage /\ store = {} /\ own = TRUE
  /\ unit = "inactive" /\ job = "none" /\ runs = NoImage
  /\ pc = "idle" /\ op = "none" /\ left = {} /\ built = NoImage
  /\ fresh = FALSE /\ good = TRUE /\ blind = FALSE /\ stray = FALSE

-----------------------------------------------------------------------------
(* systemd and the workload.                                               *)

(* What the unit starts: podman kube play resolves the tag then, if it is  *)
(* the tag the manifest names.                                             *)
Target == IF kind = "container" /\ own THEN image ELSE Remote

(* The compose down of a stop may fail, which systemd is told to ignore,   *)
(* or know nothing of services the repository dropped.                     *)
Ends == /\ runs' \in {NoImage} \cup {r \in {runs} : kind = "compose"}
        /\ stray' = (runs' # NoImage)

(* The command's systemctl call is under way or over.                      *)
Posted == pc \in {"job", "wait", "gone", "settle", "probe", "prune", "rmi", "delete", "report"}

JobEnds == /\ \/ job = "stop" /\ unit \in {"inactive", "failed"}
              \/ job = "start" /\ unit = "active"
           /\ job' = "done"
           /\ UNCHANGED <<kind, known, podmanVars, unit, runs, commandVars, historyVars>>

(* A start leaves inactive behind, a stop or restart ends what runs.       *)
JobBegins == /\ \/ /\ job \in {"start", "restart"} /\ unit \in {"inactive", "failed"}
                   /\ unit' = "activating" /\ job' = "start"
                \/ /\ job \in {"stop", "restart"} /\ unit \in {"active", "activating"}
                   /\ unit' = "deactivating" /\ UNCHANGED job
             /\ UNCHANGED <<kind, known, podmanVars, runs, commandVars, historyVars>>

(* ExecStart, at once or after RestartSec.  Compose may leave the          *)
(* containers it finds as they are, or start them anew.                    *)
Launch == /\ unit = "activating" /\ (runs = NoImage \/ kind = "compose")
          /\ Target # NoImage
          /\ runs' = Target
          /\ fresh' = Posted
          /\ stray' = (stray /\ runs # NoImage)
          /\ UNCHANGED <<kind, known, podmanVars, unit, job, commandVars, good, blind>>

ComesUp == /\ unit = "activating" /\ runs # NoImage
           /\ unit' = "active"
           /\ UNCHANGED <<kind, known, podmanVars, job, runs, commandVars, historyVars>>

(* It does not come up, or dies, and systemd tries again or gives up; a    *)
(* stack is up once compose has started it, whatever becomes of it.        *)
Dies == /\ unit = "activating" \/ (unit = "active" /\ kind # "compose")
        /\ Ends
        /\ unit' \in {"activating", "failed"} \cup {u \in {"inactive"} : unit = "active"}
        /\ job' = IF job = "start" THEN "failed" ELSE job
        /\ UNCHANGED <<kind, known, podmanVars, commandVars, fresh, good, blind>>

UnitStopped == /\ unit = "deactivating"
               /\ Ends
               /\ IF job = "restart"
                  THEN unit' = "activating" /\ job' = "start"
                  ELSE /\ unit' \in {"inactive", "failed"}
                       /\ job' = IF job = "stop" THEN "done" ELSE job
               /\ UNCHANGED <<kind, known, podmanVars, commandVars, fresh, good, blind>>

-----------------------------------------------------------------------------
(* The command.                                                            *)

At(step) == pc = step
Goto(step) == pc' = step /\ UNCHANGED <<op, left, built>>

Begin(command, first, checks) ==
  /\ pc = "idle"
  /\ pc' = first /\ op' = command /\ left' = checks /\ built' = NoImage
  /\ fresh' = FALSE /\ good' = TRUE
  /\ UNCHANGED <<kind, podmanVars, systemdVars, blind, stray>>

End == /\ pc' = "idle" /\ op' = "none" /\ left' = {} /\ built' = NoImage

(* gare app create, whose steps are the subject of Registry.               *)
Create == /\ pc = "idle" /\ ~known
          /\ known' = TRUE /\ own' \in BOOLEAN
          /\ UNCHANGED <<kind, image, store, systemdVars, commandVars, historyVars>>

(* The declared probes, or the one of the port; only a stack may have none. *)
HealthProbes(declared, port) == IF declared # {} THEN declared
                                ELSE IF port THEN {Main} ELSE {}

BeginDeploy == \E declared \in SUBSET Probes, port \in BOOLEAN :
  /\ known /\ (port \/ kind = "compose")
  /\ Begin("deploy", "build", HealthProbes(declared, port))
  /\ UNCHANGED known

BeginStart   == known /\ Begin("start", "image", {}) /\ UNCHANGED known
BeginRestart == known /\ Begin("restart", "image", {}) /\ UNCHANGED known
BeginStop    == known /\ Begin("stop", "post", {}) /\ UNCHANGED known
BeginDestroy == Begin("destroy", "post", {}) /\ UNCHANGED known

(* podman build moves the tag to a new image, or finds nothing to change.  *)
Build == /\ At("build")
         /\ IF kind = "container"
            THEN \E i \in (Images \ (store \cup {runs})) \cup ({image} \cap store) :
                   /\ store' = store \cup {i}
                   /\ image' = i /\ built' = i
            ELSE UNCHANGED <<image, store, built>>
         /\ pc' = "manifest"
         /\ blind' = (blind /\ kind # "container")
         /\ UNCHANGED <<kind, known, own, systemdVars, op, left, fresh, good, stray>>

(* syncManifest: gare's manifest, or the repository's, whatever it names.  *)
SyncManifest == /\ At("manifest") /\ Goto("reload")
                /\ own' \in {own} \cup {b \in BOOLEAN : kind = "container"}
                /\ UNCHANGED <<kind, known, image, store, systemdVars, historyVars>>

(* daemon-reload and enable.                                               *)
ReloadUnits == /\ At("reload") /\ Goto("post")
               /\ UNCHANGED <<kind, known, podmanVars, systemdVars, historyVars>>

(* Mutant: the unit is started whether or not the image is there.          *)
EnsureNothing == /\ At("image") /\ Goto("ingress")
                 /\ UNCHANGED <<kind, known, podmanVars, systemdVars, historyVars>>

(* ensureContainerImage: a start is refused if the image is known not to   *)
(* be there; if podman cannot be asked, it is left for systemd to report.  *)
EnsureContainerImage ==
  /\ At("image")
  /\ \/ /\ kind = "container" /\ image = NoImage /\ End /\ UNCHANGED blind
     \/ /\ kind # "container" \/ image # NoImage
        /\ Goto("ingress") /\ UNCHANGED blind
     \/ /\ kind = "container"
        /\ Goto("ingress") /\ blind' = TRUE
  /\ UNCHANGED <<kind, known, podmanVars, systemdVars, fresh, good, stray>>

ActivateIngress == /\ At("ingress") /\ Goto("post")
                   /\ UNCHANGED <<kind, known, podmanVars, systemdVars, historyVars>>

Verb == IF op = "deploy" THEN "restart" ELSE IF op = "destroy" THEN "stop" ELSE op

(* Mutant: a deploy starts the unit instead of restarting it.              *)
PostStart == /\ At("post") /\ Goto("job")
             /\ job' = IF op = "deploy" THEN "start" ELSE Verb
             /\ UNCHANGED <<kind, known, podmanVars, unit, runs, historyVars>>

(* systemctl: a new job takes the place of one that is still there.        *)
Post == /\ At("post") /\ Goto("job")
        /\ job' = Verb
        /\ UNCHANGED <<kind, known, podmanVars, unit, runs, historyVars>>

(* Where a command goes on once systemctl returned without an error.       *)
AfterJob == CASE op = "deploy"  -> IF left = {} THEN "prune" ELSE "settle"
              [] op = "stop"    -> "gone"
              [] op = "destroy" -> "rmi"
              [] OTHER          -> "wait"

JobReturns == /\ At("job") /\ job \in {"done", "failed"}
              /\ IF job = "done" \/ op = "destroy" THEN Goto(AfterJob) ELSE End
              /\ UNCHANGED <<kind, known, podmanVars, systemdVars, historyVars>>

(* WaitForState(active): a unit that failed ends the wait early.           *)
WaitForState == /\ At("wait") /\ unit \in {"active", "failed"}
                /\ IF unit = "active" THEN Goto("report") ELSE End
                /\ UNCHANGED <<kind, known, podmanVars, systemdVars, historyVars>>

(* WaitForStop: any state that is not a running one will do.               *)
WaitForStop == /\ At("gone") /\ unit \in {"inactive", "failed"}
               /\ Goto("report")
               /\ UNCHANGED <<kind, known, podmanVars, systemdVars, historyVars>>

(* verifyServiceActive asks once, and lets a query that failed pass.       *)
VerifyServiceActive ==
  /\ At("settle")
  /\ \/ Goto("probe")
     \/ unit # "active" /\ End
  /\ UNCHANGED <<kind, known, podmanVars, systemdVars, historyVars>>

(* health.Verify: a probe is answered by whatever runs ...                 *)
ProbeAnswers ==
  /\ At("probe") /\ runs # NoImage
  /\ \E probe \in left : left' = left \ {probe}
  /\ good' = (good /\ (fresh \/ stray) /\ (kind = "container" /\ own => runs = built))
  /\ pc' = IF left' = {} THEN "prune" ELSE "probe"
  /\ UNCHANGED <<kind, known, podmanVars, systemdVars, op, built, fresh, blind, stray>>

(* ... or by any other program that listens on that port of 127.0.0.1.     *)
OtherAnswers ==
  /\ At("probe")
  /\ \E probe \in left : left' = left \ {probe}
  /\ pc' = IF left' = {} THEN "prune" ELSE "probe"
  /\ UNCHANGED <<kind, known, podmanVars, systemdVars, op, built, historyVars>>

(* Images podman image prune removes: neither tagged nor in use.           *)
Dangling == store \ {image, runs}

(* cleanupAppDeploy, whose errors are not the deploy's.                    *)
PruneImages == /\ At("prune") /\ Goto("report")
               /\ store' \in {store, store \ Dangling}
               /\ UNCHANGED <<kind, known, image, own, systemdVars, historyVars>>

(* Another application's deploy prunes the images of the whole host.       *)
OtherPrunes == /\ store' = store \ Dangling
               /\ UNCHANGED <<kind, known, image, own, systemdVars, commandVars, historyVars>>

(* teardownWorkload of a destroy, best effort: podman rmi -f removes the   *)
(* image and what runs from it, compose down what it finds of a stack.     *)
TeardownWorkload ==
  /\ At("rmi") /\ Goto("delete")
  /\ \/ /\ kind = "container" /\ known
        /\ image' = NoImage /\ store' = store \ {image}
        /\ runs' = IF runs = image THEN NoImage ELSE runs
     \/ /\ kind = "compose" /\ known
        /\ runs' = NoImage /\ UNCHANGED <<image, store>>
     \/ UNCHANGED <<image, store, runs>>
  /\ UNCHANGED <<kind, known, own, unit, job, historyVars>>

DeleteAppStorage == /\ At("delete") /\ Goto("report")
                    /\ known' = FALSE
                    /\ UNCHANGED <<kind, podmanVars, systemdVars, historyVars>>

Report == /\ At("report") /\ End
          /\ UNCHANGED <<kind, known, podmanVars, systemdVars, historyVars>>

(* The steps at which an error or the deadline ends a command.             *)
Interruptible == {"build", "manifest", "reload", "ingress", "post", "job", "wait", "gone", "probe"}

(* Mutant: the polling loop does not look at the deadline.                 *)
FailsUnlessWaiting == /\ pc \in Interruptible \ {"wait"} /\ op # "destroy"
                      /\ End
                      /\ UNCHANGED <<kind, known, podmanVars, systemdVars, historyVars>>

(* A step fails, or the deadline passes while it waits.                    *)
Fails == /\ pc \in Interruptible /\ op # "destroy"
         /\ End
         /\ UNCHANGED <<kind, known, podmanVars, systemdVars, historyVars>>

(* A destroy goes on when its systemctl stop failed, with the unit as it   *)
(* is.                                                                     *)
DestroyStopFails == /\ pc \in {"post", "job"} /\ op = "destroy"
                    /\ Goto("rmi") /\ blind' = TRUE
                    /\ UNCHANGED <<kind, known, podmanVars, systemdVars, fresh, good, stray>>

(* Once its deadline has passed, what needs the context fails at once.     *)
DestroyExpires == /\ pc \in {"post", "job"} /\ op = "destroy"
                  /\ Goto("delete")
                  /\ UNCHANGED <<kind, known, podmanVars, systemdVars, historyVars>>

(* The gare process is killed.                                             *)
Killed == /\ pc # "idle" /\ End
          /\ UNCHANGED <<kind, known, podmanVars, systemdVars, historyVars>>

-----------------------------------------------------------------------------
SystemdNext == JobEnds \/ JobBegins \/ Launch \/ ComesUp \/ Dies \/ UnitStopped

BeginNext == Create \/ BeginDeploy \/ BeginStart \/ BeginRestart \/ BeginStop \/ BeginDestroy

StepNext == \/ Build \/ SyncManifest \/ ReloadUnits \/ EnsureContainerImage \/ ActivateIngress \/ Post
            \/ JobReturns \/ WaitForState \/ WaitForStop \/ VerifyServiceActive
            \/ ProbeAnswers \/ PruneImages \/ TeardownWorkload \/ DeleteAppStorage \/ Report
            \/ Fails \/ DestroyStopFails \/ DestroyExpires

Next == SystemdNext \/ BeginNext \/ StepNext \/ OtherAnswers \/ OtherPrunes \/ Killed

Spec == Init /\ [][Next]_vars

(* A command takes every step it can take, and its context has a deadline. *)
FairSpec == Spec /\ WF_vars(StepNext)
-----------------------------------------------------------------------------
(* Properties.                                                             *)

(* A deploy that reports success saw every health probe answered, and no   *)
(* answer came from a workload of the application other than one systemd   *)
(* started for this deploy, from the image it had built unless the         *)
(* manifest names another, however often that workload died meanwhile and  *)
(* whatever earlier commands left systemd to do ("only reports success     *)
(* once [...] the health probes pass").  A stack whose compose down did    *)
(* not remove everything may answer for the old one.                       *)
DeployAnswers == At("report") /\ op = "deploy" => left = {} /\ good

(* A container workload is never left to a restart loop for want of its    *)
(* image: a start is refused until a deploy has built the image, and no    *)
(* prune takes it away.  Two things are excepted: podman could not be      *)
(* asked for the image, and a destroy that could not stop the unit has     *)
(* removed it under the unit.                                              *)
NoImageLoop ==
  kind = "container" /\ own /\ unit = "activating" /\ ~blind => image \in store

(* Every command ends, although the unit may flap and probes stay          *)
(* unanswered for ever: no wait outlasts its deadline.                     *)
CommandEnds == pc # "idle" ~> pc = "idle"
=============================================================================
