# A TLA+ model of gare

gare deploys applications from git repositories onto one Linux host: it clones a
repository, turns it into a podman workload (a pod, a compose stack or a static
site), hands the workload to the systemd user manager and routes hostnames to it
through Caddy. It runs as a command line tool and, with `gare server`, as a daemon
that deploys on webhooks. This directory models the parts of it that are hard to
test: what happens between the steps of a command, in other processes, in systemd,
in podman, in Caddy and on the disk.

Paths below are relative to the repository.

## The system

| Component | State it keeps | Operations | Modelled in |
|---|---|---|---|
| Webhook daemon (`internal/server`, `cmd/gare/server.go`) | mutex per application, WaitGroup, HTTP server, channels | webhook, deploy goroutine, Start, Shutdown, main loop | `WebhookServer`, `DeployQueue` |
| Workload supervision (`cmd/gare/workload_unit.go`, `deploy*.go`, `lifecycle.go`, `destroy.go`, `internal/systemd`) | unit file, enable link, Quadlet sources of older gares, config.json; in systemd the loaded definition and the active state; in podman the workloads and volumes | create, deploy, start, stop, restart, destroy | `Supervision`; jobs, waits and images in `Readiness`, stacks in `ComposeStack` |
| Atomic writes (`internal/atomicfile`) | a file, its temporary files, the directory | WriteFile | `AtomicFile`, `AtomicRegister` |
| Ports, domains, ingress (`internal/storage`, `internal/caddy`, `cmd/gare/domain*.go`, `ingress_verify.go`) | domains and port in config.json, one Caddy snippet per application, the import of the snippets in the Caddyfile, the configuration Caddy runs | create, deploy, start, restart, stop, destroy, domain add, domain rm, init | `Ingress` |
| Application configuration and gare.yml (`cmd/gare/app_*.go`, `internal/storage`) | config.json | merge at create, sync at every deploy | `Registry`; type and port also in `Supervision` and `Ingress` |
| Application environment (`cmd/gare/env*.go`, `manifest_sync.go`, `internal/manifest`, `storage/app_env.go`) | env of the pod manifest, env file | env set, unset, load; manifest sync at deploy | `AppEnv` |
| Application registry (`internal/storage/storage.go`, `cmd/gare/app.go`, `destroy.go`) | per application config.json, clone, manifest, unit | create and its rollback, load and save, edits, destroy | `Registry`; several applications in `Ingress` |
| Health (`cmd/gare/health_verify.go`, `internal/health`, `internal/systemd/properties.go`) | the deadline of a command; in systemd the job and the active state of the unit | wait for active, for stopped, for an answer | `Readiness` |
| Compose applications (`internal/compose`, `cmd/gare/compose*.go`, `internal/podman/compose.go`) | the compose file of the clone, the file the unit names, probes and port in config.json; in podman the containers of the project | the operations above, for a stack | `ComposeStack` |
| Tags (`internal/storage/tag.go`, `cmd/gare/tag_run.go`) | a field of config.json | tag add, tag rm | `Registry` |
| dotenv, git credentials | none | pure functions | the env file's round trip in `AppEnv` |
| init, list, status, logs, output, flags | none | read-only or host setup | not modelled, but for what init does to the Caddyfile (`Ingress`) |

How they interact. Every command loads config.json once, works on that copy and
saves the whole of it. A deploy runs the same code from the command line and from a
goroutine of the daemon; only the daemon serialises the deploys of one application,
and nothing serialises commands of different processes. All commands share three
external states: the units systemd has loaded (`daemon-reload` acts on all of
them), the configuration Caddy runs (a reload reads every snippet) and the ports of
the host. Every file is replaced through `atomicfile.WriteFile`.

What is hard in it:

- *Concurrency*: deliveries for one application; a shutdown while handlers and
  deploys run; daemon-reload and Caddy reloads of another application's command.
- *Failure*: a deploy is a sequence of effects on disk, systemd, podman and Caddy
  that can stop after any of them; a destroy goes on after every failure; a process
  can be killed, the host can lose power or reboot.
- *Staleness*: systemctl works on the definition systemd has loaded, not on the
  file; the snippet of an inactive application stays on disk; the configuration in
  memory of a process is that of its start.
- *Ordering*: write before stop before reload before restart; ingress before
  restart; data sync before rename before directory sync.

## Modules

| Module | About |
|---|---|
| `DeployQueue` | what the daemon promises: one job per accepted delivery, jobs of one application one at a time, a clean stop leaves no job behind |
| `WebhookServer` | the daemon, goroutine by goroutine |
| `WebhookServerProofs` | its inductive invariant, and the refinement of `DeployQueue` |
| `Supervision` | the handover of workloads to systemd |
| `SupervisionProofs` | its inductive invariants: in every behaviour, with one command per application, with one command at a time |
| `Readiness` | how a command waits for systemd, the workload and its probes, and what it may conclude |
| `ReadinessProofs` | its inductive invariant, and that commands advance |
| `ComposeStack` | a compose application: what gare reads in its files and what the provider does with them |
| `ComposeStackProofs` | its inductive invariant |
| `AtomicRegister` | what a file written by gare promises its readers |
| `AtomicFile` | `WriteFile` over a file system that can crash |
| `AtomicFileProofs` | its inductive invariant, and the refinement of `AtomicRegister` |
| `Ingress` | ports, hostnames, snippets and what Caddy serves |
| `IngressProofs` | what a step leaves alone, and its inductive invariants |
| `AppEnv` | the environment of an application, and the workload started with it |
| `AppEnvProofs` | its inductive invariant for one command at a time |
| `Registry` | config.json of one application, from create to destroy, and the clone, manifest and unit it has to agree with |
| `RegistryProofs` | its inductive invariant for one command at a time |
| `MC*` | instances for TLC: the module and its symmetry sets, command lines or revisions |

Each module carries, before some definitions, a *mutant*: the same operator with a
plausible mistake in it. Substituted for the definition it makes the property named
in PROJECT.json fail, which shows that the property depends on that line of code.

### WebhookServer

A delivery `r` is at the same time the request, its handler goroutine and its deploy
goroutine. `handler[r]` walks through `handleWebhook` (`internal/server/handler.go`),
`stage[r]` through the goroutine `dispatchDeploy` starts, `serve` through
`Server.Start`, `main` through `runWebhookDaemon`, `shutdownServer` and
`Server.Shutdown`. `locks` is the `sync.Map`; a mutex is named by the delivery that
allocated it, so two mutexes of one application are possible in the model, and
`MutualExclusion` is not true by construction. `wg` is the set of goroutines the
WaitGroup counts. The deploy itself is cut down to the revisions that move: pull
(clone := head), the start of the build (reads the clone), its end (tags the image)
and the restart (runs the tagged image); it may fail after each.

What makes a request refused (body, signature, name) is one outcome. net/http's
Shutdown is external: it closes the listener and waits for the handlers.

### Supervision

For each application there are three views that agree only at rest: the unit file
on disk (`unitFile`, and `legacy` for the Quadlet sources an older gare left), the
definition systemd holds (`loaded`), and the workloads podman runs (`stacks`, the
set of definitions whose workload is up). `StopUnit` runs the ExecStop of the loaded
definition, and so removes at most that definition's workload (`GoDown`): with the event
`"down"` the teardown fails, which the unit tells systemd to ignore, or misses what the
clone it runs in no longer names. `stray` remembers which definitions' last teardown left
something. `Reload` is
daemon-reload: it brings *every* application's definition up to date and drops the
units nothing references. `Definition` loads a unit that was not loaded.

A behaviour takes place on one of `Scenes`: the processes, applications and workload
types there are and the events that may happen, chosen in the first state. So one run
covers two commands that interleave, and nearly every fault at once under one command.

A process `p` runs one command; `pc[p]` is its next step, and there is one action
per step another process or a crash can see: build, guard, write, retire, the two
Quadlet steps, ingress, reload, enable, restart, verify for a deploy; the create
ends with the metadata and a reload; a destroy is stop, disable, removal of the
unit, of the sources, teardown, removal of the storage, reload. `StepFails` is a step
that returns an error and ends the command; a step of a destroy that fails is only a
warning (`DestroyStepFails`). A deploy whose save of config.json fails warns and goes on
with the old record on the disk (`BeginDeploy`, event `"save"`); a create ends with the
error, whether or not the record was replaced (`SaveFails`).

A removal of a unit file together with its enable link, and of the two Quadlet
sources, is one step. The wait for the active or stopped state is part of the start
or the stop; `Readiness` takes it apart.

### Readiness

One application, one command at a time, and everything systemd may do beside it. `unit`
is the ActiveState, `job` the systemd job on the unit or how the last one ended, `runs`
the image the workload that runs was started from. A command posts a job (`Post`, which
replaces one that is still there), waits until it is over (`JobReturns`), and then, by
command, polls for active (`WaitForState`), for stopped (`WaitForStop`) or asks once
(`VerifyServiceActive`) and polls its probes (`ProbeAnswers`). A poll that finds nothing
new changes nothing and is no step. `Fails` is the deadline, or an error, at any step
that can return one; a command that ends so leaves its job behind, which may still be
under way when the next command begins. A destroy goes on: when its stop fails at once it
still removes the image or the stack, under a unit that may be up (`DestroyStopFails`);
when the stop used up the deadline, what needs the context fails as well
(`DestroyExpires`). A workload that dies is started again by
systemd at any later moment, or not.

`image` is the image the tag `localhost/<name>:latest` names and `store` the images of
the application podman has; a build moves the tag or finds nothing to change, a prune
takes what is neither tagged nor in use, also when another application's deploy runs
it. `own` says whether the manifest names that tag: a repository's own manifest may name
any image, which podman pulls. A stop that has run may leave a compose stack where it was
(`Ends`). The port of 127.0.0.1 a probe asks may be answered by the application's workload
(`ProbeAnswers`) or by any other program that listens there (`OtherAnswers`).

`fresh`, `good`, `blind` and `stray` are history variables: that the workload was started
after the command's own job; that no other workload of the application answered; that a
start went on although podman could not be asked for the image, or that a destroy removed
it although its stop had failed; that the last stop of the stack left containers.

### ComposeStack

One compose application, whose commands run one at a time. A revision is the name of
its compose file, the services in it (the entries of `ports`, with address and protocol,
and the port of an HTTP healthcheck, 0 for none) and the port and probes of its gare.yml, if it has one. An
entry is read twice: by gare (`PortPair`, `PublishedPorts`, `ServicePort`,
`LoopbackEntry`, which translate `internal/compose`) and by the provider (`Binds`,
which says what podman really binds). Where the two differ - a port without a host
port, a range, a variable, UDP, an address other than 127.0.0.1 - is where gare can be
wrong about a stack. `Answers` says which sockets a connection to 127.0.0.1 reaches.
`localhost` as an address is the same as 127.0.0.1 here.

`clone`, `conf`, `unitFile` and `unit` are what the disk and systemd hold, `stack[s]`
what podman has of service `s`. A start is down and up in the clone as it is at that
moment (`UnitUp`), not as it was when it was validated; up does not know services the
file has dropped, and binds nothing if a port is taken. `UnitFails` is a provider that
fails for reasons of its own, and whose down may fail after it; `Dies` a container that exits, `Reboot` and
`SystemdStarts` the machine. Only the stack itself answers a probe.

A failing save of config.json and failing steps of a destroy other than the stop are
left out; so are volumes (`Supervision`) and other applications' ports (`Ingress`).

### AtomicFile

Calls of `WriteFile` on one path. `names` is what the path has named since the last
directory sync, oldest first: a crash keeps one of them, a reader sees the last.
`content` and `synced` describe the file each call made; a crash tears what was not
synced. After an error before the rename a call removes its temporary file, which may fail
as well: it then returns with the file still there (`RemoveTempFails`). `after[c]`, a history variable, is the set of calls that renamed after `c`.

### Ingress

`conf[a]` is what config.json records, `snippet[a]` what the snippet says,
`serving[a]` what the running Caddy took at its last successful reload, `binds[a]`
the port the workload will bind when it starts (the manifest or unit; for a compose
stack the compose file in the clone) and `bound[a]` the port it has bound. `mine[p]`
is the configuration process `p` loaded when its command began, and what it writes
back, if the save succeeds: a deploy whose save fails warns and goes on (`SyncDeployConfig`),
a create or an edit ends (`SaveFails`). `imported` is what the Caddyfile says of the
snippets: their import, nothing, or a line for some other conf.d, which
`hasConfDirImport` takes for it. An operator may replace the Caddyfile at any time
(`EditCaddyfile`), also between the two steps of a reload, which repairs the import
(`RepairImport`) and then has Caddy load what it finds (`Reload`). The write of a snippet
and `gare init` put a missing import back too. Caddy refuses a configuration in which two snippets
name one site. `Scenes` is as in `Supervision`. A repository that ships a manifest of its
own binds the port that manifest says; it is left out here.

### AppEnv

One application. `store` holds the two places an environment can live in: the pod
manifest a container is played from and the env file of a static or compose
workload; which one a command edits follows from `type`, which one a start reads from
`loaded`. A file's content is `NoFile`, `Broken` (no container in it) or its
variables. Every edit is a read (`doc[p]` is what the process holds in memory) and a
later write; a deploy's `PrepareAdopt`, `Adopt`, `RestoreRead` and `Restore` are the
four file accesses of `syncRepoManifest`, `PreparePorts` and `UpdatePorts` those of
UpdatePorts, `PinRead` and `PinWrite` those of EnsureLocalImagePullPolicy (the second
call of a deploy that adopted a manifest finds nothing to change and is left out).
`Parse` is what the round trip through the unquoted env file makes of a value: `Clean`
gives what the parser trims, cuts or strips off it, and a value in `Open` begins with a
quote that nothing closes and swallows what follows. `Left` is what any number of edits
may leave of a value. `wanted`, a history variable, is what the operator last asked of
each variable and was not lost: a deploy that ends between `Adopt` and the end of
`Restore` loses the variables, and `Forget` strikes them. `missed` says that a command
was cut off between its write and the end of its restart.

A pull brings any manifest of `Shipped`. A failing write may have replaced the file
(`AdoptFails`, `RestoreFails`, `EnvWriteFails`) or not. The save of config.json is assumed
to succeed, a manifest to name a variable once, and values to be of one line. What podman
and systemd make of a line of the env file is theirs: a workload counts as having a value
that stands in the file it read. The unit is there from the create
on; what happens to unit files and definitions is the subject of `Supervision`.

### Registry

One application, its directory and what a command does to it. `conf` is config.json
(`old` holds the two keys an older gare wrote), `repo` the revision in the clone,
`manifest` the ports of gare's copy of the pod manifest, `unit` the type the unit file
was written for. A revision is what gare reads in it: gare.yml, the port its
containerfile exposes, a manifest of its own, the port its compose file publishes and
whether that file has a health check. `mine[p]` is the configuration a process works
on, `asked` and `doomed` are history variables: what the operator gave, and that a
destroy began.

`MergeDefaults` and `Created` are the merge at create, `SyncGareFile` and `DetectPort`
the one at deploy; they differ, and field by field. `build` stands for the texts that
are filled once (build_cmd, compose_file), `dir` for the directories, for which "." is
as good as nothing (static_dir, and context of a container). Only a create writes
config.json last; a deploy writes it first, before it builds, and an edit writes
nothing else. Ports of other applications are not there: a port may turn out to be
taken. `DeleteStorage` removes the files of the directory in any order, and can be
killed in between. Unknown values of `--type`, which create records as they are, are
not modelled.

What the merge means for an operator, as the model has it: port, container port, type
and tags of gare.yml replace those of the command line at the first deploy, whereas
README.md:106 says of the command line flags that they take precedence over gare.yml
settings; a text adopted from gare.yml is not updated by a later gare.yml; and
`--static` with a gare.yml that names no type makes a container.

## Properties and runs

`Exclusive` in a run means that no two processes work on one application; the
daemon guarantees it among its deploys, and an operator at one terminal does.

| Run | Instance | Distinct states | Properties |
|---|---|---|---|
| `webhook` | 2 deliveries, 1 application, 1 push, fairness | 135k | `MutualExclusion`, `CleanExit`, `AnnouncedRevisionRuns`, `NoLostLock`, `NoLostAnswer`, `NoSpawnDuringWait`, `NeverBackwards`, `ImplementsDeployQueue`, `QueuedDeployEnds`, `PublishedSignalEnds` |
| `supervision` | scenes of 2 processes and 2 applications: constant types with failing ingress and reload, crashes and reboots; changing types other than compose. Scenes of 1 process: constant types with teardowns that leave something, failing creates, crashes; changing types with such teardowns, failing saves and reboots (3 types), on 2 applications, with failing stops; every fault at once but the reboot, or but what an older gare left | 1.8M | `KeptSupervised`, `StartsUnitOnDisk`, `DeployConverges`, `Undisturbed`, `DestroyLeavesNothing` |
| `atomic_file_crash` | 3 writers, any number of crashes, every step and the removal of a temporary file failing | 6.7k | `NeverTorn`, `AcknowledgedSurvives`, `NoLitter`, `ImplementsRegister` |
| `ingress` | scenes of 1 process and 2 applications: 3 ports, 2 hostnames, with failing clones and hand edits of the Caddyfile; one a compose stack, 2 ports, 1 hostname, with saves, writes, builds, reloads and restarts that fail; 2 ports, 1 hostname, with edits during a reload and lookalike imports. 2 processes, 2 applications (one compose), 2 ports, 1 hostname, with clones, reloads and restarts that fail | 2.9M | `Withdrawn`, `AddedDomainServed`, `DomainsDistinct`, `PortsDistinct`, `DeployServes` |
| `environment` | 1 process, 2 types, 2 variables, 2 values (one the other in quotes), 3 shipped manifests; type changes, failing deploys, writes and starts, killed commands | 5.9M | `VariableKept`, `VariableRuns`, `ShippedRuns` |
| `registry` | 1 process, 7 revisions, 3 command lines, 1 old configuration, 2 texts, 2 ports, 1 hostname, 1 tag; failing clones, builds and saves, taken ports, killed processes | 970k | `DomainsKept`, `FlagsKept`, `ConfigLast`, `DerivedOnlyCompose`, `ManifestMatches`, `OnlyDestroyRemoves` |
| `readiness` | 3 images, 2 probes, every workload type; deadlines, kills, restarts and prunes at any moment, adopted manifests, stacks that stay, failing stops, fairness | 137k | `DeployAnswers`, `NoImageLoop`, `CommandEnds` |
| `compose` | 12 revisions, 2 services, 2 names of the compose file; failing providers, dying containers, reboots | 1.9M | `RoutedPortBound`, `ProbesReach`, `LoopbackTold`, `LeftoversReported` |

`KeptSupervised` is `Supervised` in the circumstances in which the code keeps it: types
that do not change and stops that do not fail (`Constant`), or one command at a time
in which nothing comes between a write and its reload (`Quiet`). `Supervised` itself
excepts workloads that were told to go down and did not (`stray`).

Of `StartsUnitOnDisk`: gare reloads systemd in a deploy, never in a start or a restart.
The property says that what those bring up is nevertheless the unit file on disk, where
types are constant, or wherever a deploy cannot end between its write and its reload.

The type invariants of the modules are theorems instead.

CHECK_DEADLOCK is off in all of them: a daemon that exited, a writer that returned
and a host on which no command is started are states in which nothing more happens.

Four runs show that the code does not do what its documentation says; each checks
one property, and TLC gives the shortest behaviour that breaks it.

| Run | What happens |
|---|---|
| `webhook_early_signal` | a SIGTERM taken before `Start` published the HTTP server: `Shutdown` returns nil, the server starts, and the main goroutine waits for it for ever (`ShutdownStops`) |
| `supervision_reload_race` | the daemon-reload of another application falls between the write of a unit of another type and the stop of the old workload, which nobody tears down any more (`Supervised`) |
| `ingress_stray_port` | the port is saved before it is validated; after the failed deploy, Caddy routes to a port the stack does not bind (`RoutesToBoundPort`) |
| `environment_lost` | a revision ships a manifest without a container: it replaces gare's copy before the environment is put back, which fails, and the next deploy finds none to keep (`VariableKept`) |

### Where a property does not hold

Some properties are true of the code only in the circumstances of their run. What
breaks them outside is a fact about the code, and is reproduced by changing one
constant in the cfg:

- `Supervised` and `StartsUnitOnDisk` need types that do not change or ingress that does
  not fail. With `"retype"` and `"ingress"` in a scene's events, one process is enough: a
  type-changing deploy fails at its ingress, `gare start` brings the old workload back
  from the definition systemd still holds, and the next deploy orphans it.
- No property promises that a teardown is complete. The ExecStop of a stack is
  `-podman compose down`, run in the clone as it is by then: it may fail, which systemd is
  told to ignore, or know nothing of services the pulled file dropped (`"down"`). What is
  left stays until a later down finds it, also when the type changes meanwhile.
- `DestroyLeavesNothing` promises the volumes only for types that do not change: with
  `"retype"`, the volumes of an application that was a compose stack and became something
  else survive its destroy, which removes volumes only for the recorded type compose. A
  second destroy, after one whose down failed and that removed config.json, knows no type
  and leaves them as well.
- config.json follows a deploy unless its save failed (`"save"`), which is a warning: the
  workload then runs with a type or a port that is not the recorded one
  (`DeployConverges`, `DeployServes`), and the next start routes to the recorded port.
- `NoLitter` excepts a temporary file whose removal failed as well.
- `Withdrawn` and `AddedDomainServed` need applications whose restart does not fail.
  With `"restart"` in `Events`, a hostname removed from an application that is not
  active stays in its snippet; added to another application, it makes Caddy refuse
  the whole configuration.
  With `"files"` or `"reload"` a stop or a domain rm warns and ends well while Caddy goes
  on serving. With `"race"` an operator's Caddyfile falls between the repair of the import
  and the reload, with `"lookalike"` a line for another conf.d is taken for the import:
  Caddy then serves no snippet at all. `DeployServes` claims nothing of what Caddy serves in
  the last two (`Repairable`), and needs none of the other conditions.
- `DomainsDistinct` and `PortsDistinct` need one command at a time: both the check
  and the save work on the configuration a process loaded at its start.
- `DeployServes` needs `Exclusive`: two deploys of one application from two terminals
  overwrite each other's snippet and port.
- `VariableKept` needs manifests with a container (the run `environment_lost`); one
  process (with two, the writes of a deploy and of `gare env` overwrite each other); and
  values without an opening quote that nothing closes (`Open`), which make the next edit
  of the env file drop every variable after it. Write errors and kills are in the run; the
  variables a deploy cut off between `Adopt` and `Restore` has lost are no longer claimed.
  In the env file a value may lose its quotes, a comment or spaces around it at an edit of
  any other variable.
- `VariableRuns` needs a start not to be in progress while `gare env` writes:
  `reloadIfActive` does not restart a unit that is activating, which may have read
  the old environment (`"respawn"`, or two processes).
- After a deploy that changed the type and failed, `gare env set` writes the store of the
  recorded type and restarts the workload of the loaded unit, which reads the other store
  (`Apart`). The variable is not applied, although cmd/gare/env_helpers.go:51 says that
  "every command lands where the workload looks" and README.md:148 that services are
  restarted "to apply new environment values". `VariableRuns` promises of that state only
  what was last set in the store the workload reads. Without `Apart` in the property TLC
  finds this in the run `environment`.
- `RoutedPortBound`, `ProbesReach` and `LoopbackTold` are about files every entry of
  which names a host port (`Named`). A bare `"8000"` is taken for a published 8000
  (internal/compose/compose_test.go:120) although compose gives a bare port any free
  host port, so that ingress can route to a port the stack does not bind, against what
  README.md:121 wants; and an entry whose host port is a variable is not read at all, so
  that the loopback warning may be given of a stack that is open on that port.
- gare reads a port without its protocol (internal/compose/ports.go:9) and its address,
  and asks 127.0.0.1 (cmd/gare/health_verify.go:74). A probe derived from an entry over
  UDP, on `::1` or on another address of the host is answered by nobody, and the deploy
  fails at its health check; `ValidatePort` accepts such an entry for the port Caddy routes
  to. `ProbesReach` and `RoutedPortBound` say for every file that the port is bound by the
  service, and that it answers if the file publishes it over TCP on 127.0.0.1 or everywhere.
- `ProbesReach` needs a gare.yml: without one `syncGareFileConfig` returns early and the
  probes recorded before stay, whatever becomes of the services.
- `LeftoversReported` reports, and no more: a service that was dropped or renamed is
  known to neither down nor up, keeps its ports bound and makes every deploy of a file
  that wants them fail until it is removed by hand. When the compose file itself is
  renamed, deploys fail (conf.file is fixed at create) and a destroy skips the teardown.
  A gare.yml that changes to a port the stack itself has bound is refused as taken.
  `mute` excepts a podman that cannot be asked, where compose_verify.go:16 is silent although
  README.md:126 wants any container reported, and a destroy whose stop used up its deadline.
- A deploy that fails in its validation leaves the new clone, which the next restart,
  or boot, starts without validating it; `RoutedPortBound` is therefore about a deploy
  that just succeeded.
- `NoImageLoop` excepts starts podman could not be asked about (`blind`), as
  cmd/gare/image.go:17 says it does, and a destroy whose stop failed at once, which removes
  the image under a unit that may be up. It is about manifests that name the image gare
  builds (`own`). A destroy whose stop used up its two minutes leaves the image, because the
  removal gets the context that has expired.
- `DeployAnswers` promises nothing of a stack whose last stop left containers (`stray`),
  which may answer for the old revision, nor of another program that listens on the port
  probed; and of an adopted manifest that names an image of its own it does not say that the
  image just built runs, because it does not.
- All of `Registry` but `TypeOK` and `DerivedOnlyCompose` needs one command at a time;
  with two processes and no faults at all TLC finds: a hostname added during a deploy
  lost when the deploy saves (`DomainsKept`, in four steps); a deploy or edit in flight
  bringing back the record of a destroyed application, with no clone or with the flags
  of a former one (`ConfigLast`, `FlagsKept`); of two creates of one name, the second
  deleting the application of the first when its clone fails (`OnlyDestroyRemoves`);
  two deploys leaving the manifest of one and the configuration of the other
  (`ManifestMatches`). The daemon's mutex excludes only the last.

### Bounds, and why they are enough

- *Deliveries*: 2, so that one runs while the other waits or arrives, and a mutex
  made twice is visible. The queue behind a waiting delivery is covered by the
  proofs, which hold for any number.
- *Pushes* (`MaxRev`): 1. Revisions are only compared; a build of the old revision
  that ends after one of the new needs two revisions.
- *Applications*: 2 where they interact (reload, ports, hostnames), else 1. Two
  applications of the daemon share only the WaitGroup and the exit of the process.
- *Compose revisions*: 12, one for each way a file bears on a property: the port moved to
  another service, the service renamed, a target published twice or over both protocols, a
  range, a port on `::1` and one on another address, a port that is not published, bare or a
  variable, the file renamed, no gare.yml, declared probes. Any
  sequence of them may be pushed. *Images*: 3, what the tag names, what runs and what is
  built; an image that is free is used again. *Probes*: 2, so that one is answered before
  and one after the workload was replaced.
- *Types*: 2, or 3 where a workload may change type twice before a deploy converges. In
  `environment` static stands for compose as well, which reads the same store; its deploy
  does not create the env file, an edit does.
- *Ports*: 2 or 3: one kept, one wanted, one free. *Hostnames*: 1 or 2.
- *Variables*: 2, one the repository ships and one it does not, so that an edit of one
  can damage the other. *Values*: 2, one of which the env file strips to the other.
- *Revisions*: 7, one for each way gare.yml bears on the record: absent, static with
  texts, compose with a health check, container with declared probes, a manifest of
  its own, refused, with tags that are refused.
- *Writers*: 3, so that a rename falls between the rename and the directory sync of
  another writer while a third has returned.
- Commands, crashes, reboots and signals are not bounded.

Symmetry is used over processes, applications, hostnames or calls; never over
workload types, of which `Compose` is distinguished, nor over ports, which are
numbers, nor in the `webhook` runs, which check liveness.

### Fairness

Two specifications state fairness. `FairSpec` of `WebhookServer`: the Go
runtime runs every goroutine that can run: weak fairness of the handlers, of the
deploy steps, of the main goroutine and of Start. `sync.Mutex` gives strong fairness
to a waiter: after a millisecond it is in starvation mode and is handed the mutex.
A deploy step ends because its context has a deadline. Nothing is assumed of pushes,
deliveries, signals, or of failing listens and accepts.

`FairSpec` of `Readiness`: a command takes a step when it can take one (`StepNext`), of
which the passing of its deadline is one wherever it waits: every command runs under a
context with a timeout, and every polling loop selects on it. Nothing is assumed of
systemd, of the workload or of the operator, so `CommandEnds` holds for a unit that flaps
and a service that never answers.

## Proofs

TLC checks the instances above; TLAPS proves the following for every value of the
constants that satisfies the modules' assumptions.

**WebhookServerProofs.** `IInv` adds to `TypeOK` how each stage of a delivery fixes
its mutex (the mutex of a dispatched delivery is the entry of its application, and
entries never change), that a working deploy holds its mutex and no two hold the
same one, that the WaitGroup counts exactly the queued and working deploys, what
the main goroutine's position implies of handlers and WaitGroup, and the order of
revisions `running <= image <= built <= clone <= head` along the deploy that holds
the lock. From it follow `MutualExclusion`, `CleanExit`, `AnnouncedRevisionRuns`,
`NoSpawnDuringWait` and `NeverBackwards`, and that every step of the daemon is one
of `DeployQueue` or a stutter (`Refinement`). Two more invariants say why the daemon
cannot wait for nothing, which fairness alone does not give: a held mutex has a deploy at
work that was dispatched with it, for the application whose entry it is (`MutexInv`, hence
`NoLostLock`), and serverErr's one value is sent before Start ends and received once
(`AnswerInv`, hence `NoLostAnswer`).

**SupervisionProofs.** Three invariants, each for the circumstances its properties need.

- `BaseInv` holds in every behaviour, whatever interleaves, fails or dies: the types, which
  command takes which step with what, that a link never outlives its unit, and that what
  `guardUnitFile` found is still true at the write.
- `ExclusiveInv` holds under `Exclusive`, with any number of processes and every event.
  The steps of another process are framed away once: it works on another application
  (`SoleInv`), and all it shares is the daemon-reload (`HostLocal`, `OnlyAt`, `Apart`).
  `DeployInv` follows a deploy from its guard to its health check: what the disk, systemd
  and podman hold of its application at each step. `ConstantInv` says, for types that
  do not change, what there may be of an application gare knows, of one it does not, and at
  every step of a destroy; `FreshInv`, that a loaded definition is the one on disk but where
  a command stands between its write and the reload (`Stale`), for `Reread`. From these
  follow `DeployConverges`, `Undisturbed`, `StartsUnitOnDisk`, `DestroyLeavesNothing` (its
  part under `Quiet` from `IInv`) and the part of `KeptSupervised` with `Constant`.
- `IInv` holds under `Quiet`, where `Supervised` does not rest on constant types: one process
  at a time works and there is no failing ingress, reload, stop or removal and no crash, but
  reboots, type changes, Quadlet leftovers, teardowns that leave something, failing saves,
  builds, writes and starts are allowed.
  It says where the loaded definition may differ from the disk (`Stale`: between a write
  or a removal and the reload that follows) and what may be active there (`HandoverOf`:
  until the retiring stop, the definition `guardUnitFile` found). The lemmas `StopSupervised`,
  `UpSupervised`, `FailsSupervised` and `ReloadSupervised` are about what systemd does, one
  per verb. `SupervisedHolds` is this half, `KeptSupervisedHolds` both together.

The scene of a behaviour never changes, so the circumstances are a condition on the state.
That `Supervised` is not true in general is what the run `supervision_reload_race` shows.

**ComposeStackProofs.** All properties of `ComposeStack` are proved, for any revisions,
services, files, addresses and protocols and with no condition on what fails (what they
except is in their statements). `IInv` has one part per
property: from its validation on a deploy works with a file that publishes its port, and
once the unit is up the services of that file are (`RoutedInv`); the probes are those of
that file (`ProbesInv`); what was warned of is what the file says (`WarnedInv`); after the
stop nothing comes up, and what is still there is told (`LeftoversInv`). The lemmas
`ContainerBinds` and `EntryOf` tie what gare reads in an entry to what the provider binds.

**AtomicFileProofs.** The invariant says that `names` starts with something safe,
that every name in it is whole and synced, where each call stands relative to it,
and that what follows an acknowledged call in `names` renamed after it.
`NeverTorn`, `AcknowledgedSurvives` and the refinement of `AtomicRegister` follow.
`TempsInv` adds when a call has no temporary file, which gives `NoLitter`: whatever returns
has removed its file, or failed to.

**AppEnvProofs.** `VariableKept`, `VariableRuns` and `ShippedRuns` are proved, for any
number of variables, values and manifests, under this module's `Alone`: one process,
no shipped manifest without a container, no value whose quote nothing closes, and no
restart by systemd beside a command. Changes of type, failing pulls, builds, writes and
starts, and kills at any step are allowed; what an adoption cut off in the middle has
lost is struck from what the operator is owed (`ForgetHonours`), and `LeftClosed` says
that an edit of the env file takes nothing from a value beyond `Left`. `IInv` says that what a process holds in memory
is what the file it will write still contains (`MemoryInv`), that a store honours the
operator except between `Adopt` and `Restore`, during which `kept` does (`StoreInv`),
and the workload except between the write of a change and the restart (`RunningInv`),
and that a start in progress is one a command waits for (`StartInv`), without which
`gare env` could find the unit neither active nor stopped and restart nothing.

**RegistryProofs.** All properties of `Registry` are proved under this module's
`Alone`, one process at a time, with every event of `Events`: failing and killed
commands included, for any number of texts, hostnames, tags, ports, revisions and
command lines. The lemmas `LoadKeeps`, `MergeType`, `CreatedType`, `SyncKeeps` and
`EditKeeps` say what loading, the two merges and an edit keep of a configuration.
`IInv` adds to the properties what a process holds in memory: that nothing is recorded
while a create runs, and that what it will record honours its flags (`CreateInv`); that
a deploy or an edit works on a configuration with the recorded hostnames and texts
(`WorkInv`), which two processes break; that a destroy was announced (`DestroyInv`);
and that a deploy's ports are in the manifest until it ends (`PodsInv`).

**ReadinessProofs.** `DeployAnswers` and `NoImageLoop` are proved for every behaviour; what
they except (`stray`, `own`, `blind`) is in their statements. `IInv`
says which command takes which step (`Position`); that a unit that is down runs nothing
but what its last stop left of a stack (`DownInv`); that from the moment a deploy's own job has begun, what runs is what it had
started (`DeployInv`: the restart replaced whatever job an earlier command had left); that
a destroy takes the image away only after a stop that is over, unless that stop failed
(`DestroyInv`); and that
without an image nothing runs and no job is about to start anything (`ImageInv`).
Of `CommandEnds` the part that is safety is proved too: `Rank` orders the steps of a
command, each step lowers it or takes a probe off those left (`CommandAdvances`), and every
step that waits for somebody else is one the deadline ends (`WaitsExpire`). What is left
to TLC is that fairness then gets a command to its end.

**IngressProofs.** All properties of `Ingress` are proved, for any number of applications,
ports, hostnames and, where the property allows it, processes. A step of one process
changes its own variables and what there is of its own application (`LocalStep`); each part
of `IInv` then asks only what the step does to those, and `Untouched` is what the other
processes may rely on if nobody works on their application (`Sole`). `DeployServes` is
proved under `Exclusive`, `DomainsDistinct` and `PortsDistinct` for one command at a time,
all three with every event, failing saves and hand edits during a reload included; what
Caddy serves after a deploy rests on `ImportInv`, which needs an import gare can repair
(`Repairable`). `Withdrawn` and `AddedDomainServed` need `Steady`:
`SteadyInv` says that every application nobody works on is `Settled`, so that Caddy can
refuse no reload (`SnippetsApart`) and no port is taken (`PortFree`), and how far the
command has come with its own (`FlightAt`).

Only model-checked: the liveness properties `QueuedDeployEnds`, `PublishedSignalEnds` and
`CommandEnds`. They need fairness and ENABLED, which the prover does not reason about.
Every other property of a passing run is a theorem.

## Plan

What is modelled is what the code has of state and concurrency, and every safety property,
action property and refinement the passing runs check is proved. What may be added is about
the conditions of the proofs: which of the faults that `Quiet` (Supervision), `Alone`
(AppEnv) and `Steady` (Ingress) exclude, and that are not in the list of where a property
does not hold, can be let in again.

## Not modelled

- Texts: units, manifests, snippets, the static server's configuration, output; the
  syntax of YAML, port specs, healthcheck commands and dotenv files, of which the model
  has what is read from them.
- HTTP authentication of the webhook: its verdict is one outcome.
- `gare init`, beyond the import in the Caddyfile: it inspects the host and prints
  advice, and keeps no state.
- list, status, logs, domain list and tag list read the state and change none of it.
- The choice of the git credential helper and the precedence of flags over the
  configuration file are pure functions of the environment, and the command line is
  wiring.
- The permissions of files. A configuration that cannot be read is modelled only as one
  that does not exist.
