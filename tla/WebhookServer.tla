--------------------------- MODULE WebhookServer ---------------------------
(***************************************************************************)
(* The webhook daemon: `gare server` (cmd/gare/server.go) on top of        *)
(* internal/server.  One goroutine per HTTP request runs handleWebhook, it *)
(* spawns one goroutine per accepted delivery that holds the application's *)
(* mutex while RunDeploy works, one goroutine runs Server.Start, and the   *)
(* main goroutine waits for a signal and shuts the server down.            *)
(*                                                                         *)
(* A request that fails one of handleWebhook's three checks (body, secret, *)
(* application name) carries Refused; a request that passes them carries   *)
(* the application it names.  net/http is external: Shutdown closes the    *)
(* listener and waits for the handlers in flight.                          *)
(*                                                                         *)
(* RunDeploy is cut down to the revisions it moves: the pull updates the   *)
(* clone, the build reads the clone and later tags the image, the restart  *)
(* runs the tagged image.  A failure or the 15 minute deadline may end it  *)
(* after any of these steps.                                               *)
(***************************************************************************)
EXTENDS Naturals

CONSTANTS Requests,  \* HTTP deliveries, each also names its goroutines and, if
                     \* it is the first of its application, the mutex it made
          Apps,      \* application names
          Refused,   \* target of a request handleWebhook rejects
          NoLock,    \* an application with no entry in Server.locks
          MaxRev     \* bound on the pushes to a repository

ASSUME ServerAssumption == /\ Refused \notin Apps
                           /\ NoLock \notin Requests
                           /\ MaxRev \in Nat

VARIABLES
  handler,    \* handler[r]: where the goroutine of request r is
  target,     \* target[r]: the application request r names, or Refused
  sentRev,    \* sentRev[r]: head revision of the repository when r arrived
  locks,      \* Server.locks, the sync.Map from application to mutex
  mutex,      \* mutex[r]: the mutex dispatchDeploy handed to r's deploy
  held,       \* the mutexes that are locked
  stage,      \* stage[r]: where the deploy goroutine of r is
  built,      \* built[r]: the revision the build of r read
  wg,         \* Server.wg, as the set of goroutines it counts
  serve,      \* where the goroutine that runs Server.Start is
  httpServer, \* Server.httpServer is set
  inShutdown, \* http.Server.Shutdown was called
  serverErr,  \* content of the channel serverErr: "empty", "nil" or "err"
  stopCh,     \* a signal waits in stopCh
  main,       \* where the main goroutine is
  result,     \* what runWebhookDaemon returned
  head,       \* head[a]: revision at the remote of a's repository
  clone,      \* clone[a]: revision of the clone on disk
  image,      \* image[a]: revision the image tag stands for
  running     \* running[a]: revision of the workload systemd runs

handlerVars == <<handler, target, sentRev>>
lockVars    == <<locks, mutex>>
deployVars  == <<held, stage, built, wg>>
mainVars    == <<serve, httpServer, inShutdown, serverErr, stopCh, main, result>>
revVars     == <<clone, image, running>>
vars == <<handlerVars, lockVars, deployVars, mainVars, head, revVars>>

Idle    == {"new", "answered", "refused"}
Working == {"locked", "pulled", "building", "tagged", "restarted"}
Ended   == {"succeeded", "failed"}

TypeOK ==
  /\ handler \in [Requests -> Idle \cup {"active", "dispatching", "spawned"}]
  /\ target \in [Requests -> Apps \cup {Refused}]
  /\ sentRev \in [Requests -> 0..MaxRev]
  /\ locks \in [Apps -> Requests \cup {NoLock}]
  /\ mutex \in [Requests -> Requests \cup {NoLock}]
  /\ held \subseteq Requests
  /\ stage \in [Requests -> {"none", "queued"} \cup Working \cup Ended]
  /\ built \in [Requests -> 0..MaxRev]
  /\ wg \subseteq Requests
  /\ serve \in {"listening", "published", "serving", "returned"}
  /\ httpServer \in BOOLEAN /\ inShutdown \in BOOLEAN /\ stopCh \in BOOLEAN
  /\ serverErr \in {"empty", "nil", "err"}
  /\ main \in {"select", "shutdown", "draining", "waiting", "awaiting", "exited"}
  /\ result \in {"none", "nil", "err"}
  /\ head \in [Apps -> 0..MaxRev] /\ clone \in [Apps -> 0..MaxRev]
  /\ image \in [Apps -> 0..MaxRev] /\ running \in [Apps -> 0..MaxRev]

Init ==
  /\ handler = [r \in Requests |-> "new"]
  /\ target = [r \in Requests |-> Refused]
  /\ sentRev = [r \in Requests |-> 0]
  /\ locks = [a \in Apps |-> NoLock]
  /\ mutex = [r \in Requests |-> NoLock]
  /\ held = {} /\ wg = {}
  /\ stage = [r \in Requests |-> "none"]
  /\ built = [r \in Requests |-> 0]
  /\ serve = "listening" /\ main = "select" /\ result = "none"
  /\ httpServer = FALSE /\ inShutdown = FALSE /\ stopCh = FALSE
  /\ serverErr = "empty"
  /\ head = [a \in Apps |-> 0] /\ clone = [a \in Apps |-> 0]
  /\ image = [a \in Apps |-> 0] /\ running = [a \in Apps |-> 0]

Alive == main # "exited"

-----------------------------------------------------------------------------
(* The environment: pushes, deliveries and signals.                        *)

Push(a) == /\ head[a] < MaxRev
           /\ head' = [head EXCEPT ![a] = @ + 1]
           /\ UNCHANGED <<handlerVars, lockVars, deployVars, mainVars, revVars>>

(* A delivery reaches the listener while http.Server.Serve accepts.        *)
Arrive(r, a) == /\ Alive /\ serve = "serving" /\ ~inShutdown
                /\ handler[r] = "new"
                /\ handler' = [handler EXCEPT ![r] = "active"]
                /\ target' = [target EXCEPT ![r] = a]
                /\ sentRev' = [sentRev EXCEPT ![r] = IF a \in Apps THEN head[a] ELSE 0]
                /\ UNCHANGED <<lockVars, deployVars, mainVars, head, revVars>>

(* SIGINT or SIGTERM: signal.Notify puts it into stopCh, which holds one.  *)
Signal == /\ Alive
          /\ stopCh' = TRUE
          /\ UNCHANGED <<serve, httpServer, inShutdown, serverErr, main, result>>
          /\ UNCHANGED <<handlerVars, lockVars, deployVars, head, revVars>>

-----------------------------------------------------------------------------
(* handleWebhook.                                                          *)

(* One of the early returns: unreadable body, bad secret, no valid name.   *)
HandlerRefuse(r) == /\ Alive /\ handler[r] = "active" /\ target[r] = Refused
                    /\ handler' = [handler EXCEPT ![r] = "refused"]
                    /\ UNCHANGED <<target, sentRev, lockVars, deployVars>>
                    /\ UNCHANGED <<mainVars, head, revVars>>

(* Mutant of LoadOrStore: Store of a fresh mutex.                          *)
StoreAlways(a, fresh) == fresh

(* sync.Map.LoadOrStore: the entry of a, made with a fresh mutex if absent. *)
LoadOrStore(a, fresh) == IF locks[a] = NoLock THEN fresh ELSE locks[a]

GetAppLock(r) ==
  /\ Alive /\ handler[r] = "active" /\ target[r] \in Apps
  /\ mutex' = [mutex EXCEPT ![r] = LoadOrStore(target[r], r)]
  /\ locks' = [locks EXCEPT ![target[r]] = LoadOrStore(target[r], r)]
  /\ handler' = [handler EXCEPT ![r] = "dispatching"]
  /\ UNCHANGED <<target, sentRev, deployVars, mainVars, head, revVars>>

(* Mutant of DispatchDeploy: a plain go statement, outside the WaitGroup.  *)
DispatchUncounted(r) == /\ Alive /\ handler[r] = "dispatching"
                        /\ stage' = [stage EXCEPT ![r] = "queued"]
                        /\ handler' = [handler EXCEPT ![r] = "spawned"]
                        /\ UNCHANGED <<target, sentRev, lockVars, held, wg, built>>
                        /\ UNCHANGED <<mainVars, head, revVars>>

(* wg.Go: counts the goroutine before it starts it.                        *)
DispatchDeploy(r) == /\ Alive /\ handler[r] = "dispatching"
                     /\ wg' = wg \cup {r}
                     /\ stage' = [stage EXCEPT ![r] = "queued"]
                     /\ handler' = [handler EXCEPT ![r] = "spawned"]
                     /\ UNCHANGED <<target, sentRev, lockVars, held, built>>
                     /\ UNCHANGED <<mainVars, head, revVars>>

(* 200 "Deploy queued".                                                    *)
HandlerAnswer(r) == /\ Alive /\ handler[r] = "spawned"
                    /\ handler' = [handler EXCEPT ![r] = "answered"]
                    /\ UNCHANGED <<target, sentRev, lockVars, deployVars>>
                    /\ UNCHANGED <<mainVars, head, revVars>>

-----------------------------------------------------------------------------
(* The deploy goroutine.                                                   *)

AtStage(r, s) == Alive /\ stage[r] = s

(* Mutant of LockApp: TryLock with its result ignored.                     *)
LockAnyway(r) == /\ AtStage(r, "queued")
                 /\ held' = held \cup {mutex[r]}
                 /\ stage' = [stage EXCEPT ![r] = "locked"]
                 /\ UNCHANGED <<built, wg, handlerVars, lockVars, mainVars, head, revVars>>

(* lock.Lock(); the 15 minute context starts only now.                     *)
LockApp(r) == /\ AtStage(r, "queued") /\ mutex[r] \notin held
              /\ held' = held \cup {mutex[r]}
              /\ stage' = [stage EXCEPT ![r] = "locked"]
              /\ UNCHANGED <<built, wg, handlerVars, lockVars, mainVars, head, revVars>>

(* fetchAppRevision: git pull of the head.                                 *)
Pull(r) == /\ AtStage(r, "locked")
           /\ clone' = [clone EXCEPT ![target[r]] = head[target[r]]]
           /\ stage' = [stage EXCEPT ![r] = "pulled"]
           /\ UNCHANGED <<held, built, wg, handlerVars, lockVars, mainVars, head>>
           /\ UNCHANGED <<image, running>>

(* podman build sends the build context ...                                *)
BuildStart(r) == /\ AtStage(r, "pulled")
                 /\ built' = [built EXCEPT ![r] = clone[target[r]]]
                 /\ stage' = [stage EXCEPT ![r] = "building"]
                 /\ UNCHANGED <<held, wg, handlerVars, lockVars, mainVars, head, revVars>>

(* ... and tags the image when it ends.                                    *)
BuildEnd(r) == /\ AtStage(r, "building")
               /\ image' = [image EXCEPT ![target[r]] = built[r]]
               /\ stage' = [stage EXCEPT ![r] = "tagged"]
               /\ UNCHANGED <<held, built, wg, handlerVars, lockVars, mainVars, head>>
               /\ UNCHANGED <<clone, running>>

(* Mutant of Restart: systemctl start, which leaves a running unit alone.  *)
StartOnly(r) == /\ AtStage(r, "tagged")
                /\ stage' = [stage EXCEPT ![r] = "restarted"]
                /\ UNCHANGED <<held, built, wg, handlerVars, lockVars, mainVars, head, revVars>>

(* restartAppServices: the workload starts from the tagged image.          *)
Restart(r) == /\ AtStage(r, "tagged")
              /\ running' = [running EXCEPT ![target[r]] = image[target[r]]]
              /\ stage' = [stage EXCEPT ![r] = "restarted"]
              /\ UNCHANGED <<held, built, wg, handlerVars, lockVars, mainVars, head>>
              /\ UNCHANGED <<clone, image>>

(* Mutant of EndDeploy: the Unlock is missing.                             *)
EndLocked(r, outcome) == /\ wg' = wg \ {r}
                         /\ stage' = [stage EXCEPT ![r] = outcome]
                         /\ UNCHANGED <<held, built, handlerVars, lockVars, mainVars, head, revVars>>

(* Mutant of EndDeploy: an Unlock that is not deferred, after the handler. *)
UnlockOnSuccess(r, outcome) ==
  /\ held' = IF outcome = "succeeded" THEN held \ {mutex[r]} ELSE held
  /\ wg' = wg \ {r}
  /\ stage' = [stage EXCEPT ![r] = outcome]
  /\ UNCHANGED <<built, handlerVars, lockVars, mainVars, head, revVars>>

(* The deferred Unlock, then wg.Done: the handler returned nil ...         *)
EndDeploy(r, outcome) == /\ held' = held \ {mutex[r]}
                         /\ wg' = wg \ {r}
                         /\ stage' = [stage EXCEPT ![r] = outcome]
                         /\ UNCHANGED <<built, handlerVars, lockVars, mainVars, head, revVars>>

Succeed(r) == AtStage(r, "restarted") /\ EndDeploy(r, "succeeded")

(* ... or an error, which is only logged: a step failed, the health check  *)
(* failed, or the deadline passed.                                         *)
Fail(r) == Alive /\ stage[r] \in Working /\ EndDeploy(r, "failed")

-----------------------------------------------------------------------------
(* Server.Start.                                                           *)

ServerStep == UNCHANGED <<handlerVars, lockVars, deployVars, head, revVars>>

ListenFails == /\ Alive /\ serve = "listening"
               /\ serve' = "returned" /\ serverErr' = "err"
               /\ UNCHANGED <<httpServer, inShutdown, stopCh, main, result>>
               /\ ServerStep

PublishServer == /\ Alive /\ serve = "listening"
                 /\ serve' = "published" /\ httpServer' = TRUE
                 /\ UNCHANGED <<inShutdown, serverErr, stopCh, main, result>>
                 /\ ServerStep

Serve == /\ Alive /\ serve = "published" /\ ~inShutdown
         /\ serve' = "serving"
         /\ UNCHANGED <<httpServer, inShutdown, serverErr, stopCh, main, result>>
         /\ ServerStep

(* Mutant of ServerClosed: nothing is sent for ErrServerClosed.            *)
CloseSilently == /\ Alive /\ serve \in {"published", "serving"} /\ inShutdown
                 /\ serve' = "returned"
                 /\ UNCHANGED <<httpServer, inShutdown, serverErr, stopCh, main, result>>
                 /\ ServerStep

(* Serve returns ErrServerClosed, which Start turns into nil.              *)
ServerClosed == /\ Alive /\ serve \in {"published", "serving"} /\ inShutdown
                /\ serve' = "returned" /\ serverErr' = "nil"
                /\ UNCHANGED <<httpServer, inShutdown, stopCh, main, result>>
                /\ ServerStep

(* Accept fails for good.                                                  *)
ServeFails == /\ Alive /\ serve = "serving" /\ ~inShutdown
              /\ serve' = "returned" /\ serverErr' = "err"
              /\ UNCHANGED <<httpServer, inShutdown, stopCh, main, result>>
              /\ ServerStep

-----------------------------------------------------------------------------
(* runWebhookDaemon and shutdownServer.                                    *)

Exit(res) == main' = "exited" /\ result' = res

(* A receive from serverErr, in the select or as shutdownServer's last line. *)
ReceiveServerErr == /\ main \in {"select", "awaiting"} /\ serverErr # "empty"
                    /\ serverErr' = "empty"
                    /\ Exit(serverErr)
                    /\ UNCHANGED <<serve, httpServer, inShutdown, stopCh>>
                    /\ ServerStep

ReceiveSignal == /\ main = "select" /\ stopCh
                 /\ stopCh' = FALSE /\ main' = "shutdown"
                 /\ UNCHANGED <<serve, httpServer, inShutdown, serverErr, result>>
                 /\ ServerStep

(* Server.Shutdown reads httpServer under mu and returns nil if it is nil. *)
ShutdownUnpublished == /\ main = "shutdown" /\ ~httpServer
                       /\ main' = "awaiting"
                       /\ UNCHANGED <<serve, httpServer, inShutdown, serverErr>>
                       /\ UNCHANGED <<stopCh, result>>
                       /\ ServerStep

ShutdownPublished == /\ main = "shutdown" /\ httpServer
                     /\ main' = "draining" /\ inShutdown' = TRUE
                     /\ UNCHANGED <<serve, httpServer, serverErr, stopCh, result>>
                     /\ ServerStep

(* Mutant of HandlersDrained: http.Server.Close, which waits for no one.   *)
NoDrain == TRUE

HandlersDrained == \A r \in Requests : handler[r] \in Idle

(* http.Server.Shutdown returned nil; wg.Wait starts.                      *)
Drained == /\ main = "draining" /\ HandlersDrained
           /\ main' = "waiting"
           /\ UNCHANGED <<serve, httpServer, inShutdown, serverErr, stopCh, result>>
           /\ ServerStep

WaitReturns == /\ main = "waiting" /\ wg = {}
               /\ main' = "awaiting"
               /\ UNCHANGED <<serve, httpServer, inShutdown, serverErr, stopCh, result>>
               /\ ServerStep

(* The 10 second context of shutdownServer ends first.                     *)
ShutdownTimeout == /\ main \in {"draining", "waiting"}
                   /\ Exit("err")
                   /\ UNCHANGED <<serve, httpServer, inShutdown, serverErr, stopCh>>
                   /\ ServerStep

-----------------------------------------------------------------------------
HandlerNext(r) == HandlerRefuse(r) \/ GetAppLock(r) \/ DispatchDeploy(r) \/ HandlerAnswer(r)

DeployNext(r) == \/ LockApp(r) \/ Pull(r) \/ BuildStart(r) \/ BuildEnd(r)
                 \/ Restart(r) \/ Succeed(r) \/ Fail(r)

StartNext == ListenFails \/ PublishServer \/ Serve \/ ServerClosed \/ ServeFails

MainNext == \/ ReceiveServerErr \/ ReceiveSignal
            \/ ShutdownUnpublished \/ ShutdownPublished
            \/ Drained \/ WaitReturns \/ ShutdownTimeout

Next == \/ \E a \in Apps : Push(a)
        \/ \E r \in Requests, a \in Apps \cup {Refused} : Arrive(r, a)
        \/ Signal
        \/ \E r \in Requests : HandlerNext(r) \/ DeployNext(r)
        \/ StartNext
        \/ MainNext

Spec == Init /\ [][Next]_vars

(* The Go runtime runs every goroutine that can run.  A sync.Mutex hands   *)
(* itself to the oldest waiter once that has waited for a millisecond, so  *)
(* a waiter that keeps finding it free gets it.  Pushes, deliveries and    *)
(* signals come from outside, and Listen or Accept need not fail.          *)
Fairness == /\ \A r \in Requests : WF_vars(HandlerNext(r))
            /\ \A r \in Requests : SF_vars(LockApp(r))
            /\ \A r \in Requests : WF_vars(DeployNext(r))
            /\ WF_vars(PublishServer \/ Serve \/ ServerClosed)
            /\ WF_vars(MainNext)

FairSpec == Spec /\ Fairness
-----------------------------------------------------------------------------
(* Properties.                                                             *)

(* Two deploy goroutines of one application are never both between         *)
(* lock.Lock and its Unlock (dispatchDeploy, getAppLock).                  *)
MutualExclusion ==
  \A r, s \in Requests : /\ stage[r] \in Working /\ stage[s] \in Working
                         /\ target[r] = target[s]
                         => r = s

(* A daemon that returns nil has finished the deploy of every delivery it  *)
(* answered with "Deploy queued" (Shutdown drains handlers, then wg).      *)
CleanExit ==
  main = "exited" /\ result = "nil" =>
    \A r \in Requests : handler[r] = "answered" => stage[r] \in Ended

(* The WaitGroup gains no goroutine once Shutdown waits on it: http's      *)
(* Shutdown returned only after every handler, so wg.Go never races Wait.  *)
NoSpawnDuringWait ==
  [][inShutdown /\ main \in {"waiting", "awaiting"} => wg' \subseteq wg]_vars

(* The workload of an application never goes back to an older revision,    *)
(* although the build reads the clone and tags the image in two steps.     *)
NeverBackwards == [][\A a \in Apps : running'[a] >= running[a]]_vars

(* A delivery whose deploy succeeded left at least the revision it         *)
(* announced running: a push is never answered by an older deploy.         *)
AnnouncedRevisionRuns ==
  \A r \in Requests : stage[r] = "succeeded" => running[target[r]] >= sentRev[r]

(* A deploy that finds its mutex locked waits for a deploy of the same     *)
(* application that is at work: no failure, refused delivery or deadline   *)
(* leaves a mutex locked, and no application waits for another one's       *)
(* deploy (dispatchDeploy, getAppLock).                                    *)
NoLostLock ==
  \A r \in Requests : stage[r] = "queued" /\ mutex[r] \in held =>
    \E s \in Requests : stage[s] \in Working /\ mutex[s] = mutex[r] /\ target[s] = target[r]

(* Every delivery that got its mutex runs a deploy to its end, unless the  *)
(* process exits first: no deploy waits for ever behind another.           *)
QueuedDeployEnds ==
  \A r \in Requests : handler[r] = "dispatching" ~> (stage[r] \in Ended \/ ~Alive)

(* What the main goroutine waits for after a shutdown that reached the     *)
(* HTTP server has been sent, or Start is about to send it: the one value  *)
(* of serverErr is neither lost nor received twice (shutdownServer).       *)
NoLostAnswer ==
  main = "awaiting" /\ inShutdown => serverErr # "empty" \/ serve \in {"published", "serving"}

(* A signal that finds the HTTP server published ends the daemon.          *)
PublishedSignalEnds == (stopCh /\ httpServer /\ main = "select") ~> ~Alive

(* "Shutdown gracefully stops the HTTP server": once the main goroutine    *)
(* took the signal, the daemon stops.                                      *)
ShutdownStops == main = "shutdown" ~> ~Alive

-----------------------------------------------------------------------------
(* The daemon implements the queue of deploys.                             *)

AbsJob == [r \in Requests |-> IF stage[r] \in Working THEN "running"
                              ELSE IF stage[r] \in Ended THEN "done" ELSE stage[r]]
AbsOwner == [r \in Requests |-> IF stage[r] = "none" THEN Refused ELSE target[r]]
AbsHalted == IF Alive THEN "no" ELSE IF result = "nil" THEN "clean" ELSE "abrupt"

DQ == INSTANCE DeployQueue WITH Jobs <- Requests, NoApp <- Refused,
        job <- AbsJob, owner <- AbsOwner, halted <- AbsHalted

(* Every behaviour of the daemon is one of the abstract deploy queue.      *)
ImplementsDeployQueue == DQ!Spec
=============================================================================
