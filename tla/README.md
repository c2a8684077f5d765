# HELBOOT in TLA+

A verification project for the HELBOOT backend (`src/backend`): TLA+ modules
translated from its Go code, TLC runs that check them on small instances, and
theorems that TLAPS proves for every instance. The frontend, the provider
definitions and the deployment files have no module.

## 1. The system

HELBOOT is one process that installs machines over the network. Machines boot
by PXE: HELBOOT's DHCP or ProxyDHCP server points them to its TFTP server,
iPXE then asks its HTTP server for a script, the installer fetches its answer
file and reports how it went. People prepare hosts, profiles and images and
queue installations through the REST API. Everything durable is in one SQLite
database.

| component | state | operations | talks to |
|---|---|---|---|
| provisioning store (`store/{hosts,installations,profiles,isos}.go`, migrations) | tables hosts, profiles, profile_versions, installations, iso_images | one method per query; keys, cascades, uniqueness in the schema | called by API and boot chain |
| installation queue API (`api/handlers_installations.go`, `handlers_hosts.go`) | locals of the request | queue, cancel; create, update, delete hosts | store |
| boot chain (`boot/`) | locals of the request | script (discover, mark installing), answer file, cloud-init, report | store, machines |
| profile API (`api/handlers_profiles*.go`) | locals of the request | create, update (in place or new version), delete, clone, import, answer override | store |
| DHCP lease pool (`network/leasepool.go`, `store/leases.go`) | maps by MAC and by IP under a mutex, mirrored to table dhcp_leases | allocate, confirm, release, restore | DHCP server, store |
| DHCP / ProxyDHCP servers (`network/dhcpserver.go`, `proxydhcp.go`, `pxe.go`) | none; a goroutine per packet | discover, request, release, decline | pool, clients |
| rogue DHCP observer (`network/observer.go`) | when each foreign server was last seen | observe, list and prune | DHCP servers, API |
| accounts (`api/handlers_{auth,users,setup}.go`, `middleware.go`, `store/{users,sessions,settings}.go`) | tables users, sessions, settings; limiter buckets | setup, login, logout, roles, passwords, deletion | store |
| backup (`backup/backup.go`) | a staged database file beside the live one, its write-ahead log, copies set aside | export, import, apply at startup | file system, `main` |
| ISO library (`iso/iso.go`) | image files in a shared directory, and their rows | upload, scan, delete, detection | file system, store |
| service manager (`service/manager.go`, `cmd/helboot`) | one goroutine per network service, its back-off; the sockets of the services | build, run, supervise with back-off, shut down | services, signals |
| log ring (`logging/ring.go`) | a bounded ring of entries | append, list | API |
| migrations (`db/db.go`) | table schema_migrations | apply what is missing | database |
| provider registry, settings schema (`provider/`) | manifests loaded at startup | validate a schema, validate a configuration | API, boot chain |

Two facts shape every model. The database has a single connection
(`db/db.go`, `SetMaxOpenConns(1)`, ADR-0015), so a store method is atomic. And
no lock or transaction spans two store methods: each HTTP request has a
goroutine of its own, and requests interleave between their store calls.

What is hard, and what makes each part correct:

* **Queue and boot chain.** Check-then-insert, rows read early and written back
  late, cancellations racing with boots, repeated and late reports, a crash
  between two updates. Correct if: at most one installation of a host is
  active; a served installation cannot be cancelled; history is never lost or
  rewritten; the version and configuration a queued installation installs never
  change, its image and answer file only by an edit of them; pins stay valid; a
  host's status follows its installation.
* **Lease pool.** Expired leases reused, the persisted copy lagging behind, a
  full pool, ranges that change across a restart, the last address there is.
  Correct if: no address is promised to two clients at once, across restarts
  too; every address is in the range; the two maps describe the same leases.
* **Accounts.** Last-admin and setup checks made in one store call and relied
  on in another; logins racing with password changes. Correct if: there is
  always an administrator; setup happens once; a changed password logs out
  every device.
* **Backup and migrations.** Multi-step file operations and crashes between
  them, overlapping uploads, archives that break off. Correct if what is
  swapped in was validated, is swapped in once, and is what was accepted; if no
  database meets the log of another; if no migration runs twice.
* **ISO library.** A look at a name, minutes of receiving, then a rename and a
  row; scans and deletions in between; other machines writing to the same
  directory. Correct if every file is whole and described by its own row, as
  long as nobody works on one name at the same time.
* **Service manager.** Correct if a crashed service is restarted again and
  again, with a delay that doubles up to its cap, holds no port while it is
  down, and cannot hold up a shutdown.
* **Log ring, limiter, observer, boot files, schema, address search.** Small
  parts with a boundary each: the wrap of a ring, a fraction of a token, the
  age of a sighting, iPXE that must not be told to load iPXE, an integer in YAML
  against a float in JSON, the last address there is.

## 2. Modules

| module | what it is |
|---|---|
| `ProvisioningStore` | the tables and one operator per store method that writes them; `StoreInv`, and `Evolves`: what a store method may do to rows somebody read before it |
| `InstallQueue` | the handlers of the queue, host, profile and boot endpoints over these tables, one action per store call; properties |
| `InstallPlan` | what the code keeps of ADR-0013, in a page: an installation's version and configuration are fixed when it is queued; its image and answer file change only by an edit |
| `QueueHistory` | `InstallQueue` with two history variables: which requests act on something that has changed since they read it, and which hosts that may have left in disorder |
| `MCInstallQueue`, `MCQueueHistory` | symmetry for TLC: request slots, and configurations |
| `LeasePool` | the pool's two maps, the table behind them, and one operator per method under the pool's mutex |
| `DhcpServer` | the packet handlers over the pool, a step per call of it; range changes, restarts, time; what clients were told |
| `Accounts` | users, sessions and settings, and the handlers of setup, login and user management over them, one action per store call |
| `AccountsHistory` | `Accounts` with three history variables: which requests act on something overtaken since they checked it, and what those have left behind |
| `BackupRestore` | the files of the data directory, the steps of a startup (swap, open, migrate) and of an upload, crashes at any point |
| `IsoLibrary` | the image directory and its table, and the steps of upload, scan and deletion |
| `ServiceManager` | the supervisors of the network services, their sockets, and the life of the process around them |
| `LogRing`, `RecentLog` | the buffer of log entries; the bounded list it implements |
| `RateLimiter` | the token buckets in front of the login |
| `DhcpObserver` | sightings of other DHCP servers and the warnings that follow |
| `LeaseScan` | the loop that looks for a free address |
| `PxeBoot` | a machine from its firmware through iPXE to the boot script |
| `ConfigSchema` | a provider's schema and the documents checked against it |
| `MCDhcpServer`, `MCAccounts`, `MCIsoLibrary` | symmetry for TLC |
| `MCParts` | the six small parts, one at a time, with their instances |
| `ProvisioningStoreProofs` | every store method keeps `StoreInv` and is an `Evolves` step |
| `InstallQueueProofs` | the inductive invariant of the queue, its consequences, and the refinement of `InstallPlan`; what requests that are not outdated know, and what follows for hosts and pins |
| `DhcpServerProofs` | the invariant of pool and table; what holds of promises while the server runs |
| `AccountsProofs` | types and the sessions' owners; an administrator and current passwords, but for what overtaken requests leave |
| `BackupRestoreProofs` | which files are whole, which are one and the same, and what a fault may leave |
| `IsoLibraryProofs` | what every request still knows of the file and the row it works on |
| `ServiceManagerProofs` | who holds ports when; how long each wait is |
| `PartsProofs` | five of the small parts, for any size: the ring implements the list; the account of a bucket; what the observer knows; what a search for an address finds; what a schema and an accepted document are |

### How state and actions correspond to the code

A table is a partial function from ids to rows. `seq` is SQLite's AUTOINCREMENT
sequence (deleted ids never come back). `hosts.profile_id` and
`hosts.profile_version` are `profile` and `pin`; a row of `profile_versions` is
known by its UNIQUE (profile, number) pair, and an installation refers to that
pair; `override` is its answer override. NULL and Go's zero id are `None`.
Configurations are model values. Columns nobody branches on (names, tags, log
texts, timestamps) are left out.

`req[p]` is a request in progress: the label of its next store call and the
rows read so far, exactly the locals the Go function holds across the call
(`installContext`, `host`, `profile`). An action is one store call and the code
up to the next one. Requests that make one store call are one action. Two
reads are merged only where nothing in between could be told apart; each such
place in the module says why. The handlers:

| handler | actions |
|---|---|
| `handleCreateInstallation` | BeginCreate, CreateReadProfile, CreateCheckActive, CreateInsert |
| `handleDeleteInstallation` | Cancel |
| `handleCreateHost`, `handleUpdateHost`, `handleDeleteHost` | BeginAddHost, AddHost; BeginUpdateHost, UpdateHostPin, UpdateHostWrite; RemoveHost |
| `handleScript`, `scriptFor`, `markInstalling` | BeginBoot, Discover, BootQueue, BootContext, BootStart, BootHost |
| `contextByToken`, `handleAnswerFile`, `handleCloudInit`, `handleReport` | BeginByToken, TokenQueue, TokenContext, ReportFinish, ReportHost |
| profile and image handlers | AddProfile (also the end of a clone or an import), ChangeProfile, OverrideAnswer, RemoveProfile, RemoveISO |
| a store call that fails | StoreFails |
| the process being killed and started again | Restart |

`StoreFails` may strike at every store call. Most handlers answer 500, or a
message script, and are done. `markInstalling` (`boot/install.go:136-147`)
only logs, and the script is served all the same: when the first of its two
updates failed, to a machine whose installation is still waiting and can be
cancelled. `unmarked` remembers those; `ServedIsStarted` excepts them until a
later boot marks them.

Machines are not modelled as processes. A machine can boot at any time, and an
installer can send any request with any token that was served to a machine,
any number of times and arbitrarily late: `issued` is that set of tokens.

`QueueHistory` adds, without constraining a step, `stale`: the requests of
which a row of the host or its active installations changed since they read
them; and `muddled`: the hosts to which a stale request wrote, or of which the
second of two updates was lost, until nothing is queued or in progress for
them. They let properties that overlapping requests break say of every
behaviour what breaks them.

**DHCP.** `byMAC` and `byIP` are the two maps of `LeasePool`, `leases` the table
`dhcp_leases`, `range` the range the pool was built with and `configured` the
one in the settings. A pool method holds the mutex from beginning to end, its
store call included, so it is one operator; what interleaves is the calls of
one packet's handler with those of another's. `promised` is the world outside:
what each client was last acknowledged, until its release is handled.

| code | actions |
|---|---|
| `buildReply` | Discover; BeginRequest (`Confirm`), then Renew or Retry (`Allocate`); GiveUp (`Release`) |
| `handlePutNetworkConfig` | SaveRange, one per setting, without a comparison of the two ends |
| `buildDHCPServer`, `NewLeasePool`, `Restore` | Restart with `Rebuild`; without a valid range the service is not `Up` |
| the clock | Tick |

Addresses are the numbers `0..LastAddr`, and 0 is 0.0.0.0. `firstFree` is its
result here (`IsFirstFree`): the least free address of the range; and, when a
range up to `LastAddr` has none, the least one from 0.0.0.0 up that is not held,
because the loop runs over (`RunsOver`). `LeaseScan` is that loop itself, with
a variable of `Width` bits instead of 32. `Ends` are the addresses a range may
be set to start or end at.

**Accounts.** `users`, `sessions` and `settings` are the tables; of the
settings the key `setup.completed` and `OtherKeys`, which setup writes too. A
password and its hash are one value. `sessions[t].password` is not a column: it
records the password the session was opened with, so that `SessionsCurrent` can
speak of it. User names are left out: that one is taken is a choice at the
check and another at the insert. `AccountsHistory` adds `stale`, the logins
whose password was changed after they verified it and the role changes and
deletions whose count of administrators, or whose look at the target, was
overtaken; `exposed`, the users with a session that a stale login opened; and
`lockedOut`, set when a stale request takes the last administrator away.

| handler | actions |
|---|---|
| `handleSetupComplete` | BeginSetup, SetupCreate, SetupSetting (once for each key, in any order) |
| `handleLogin`, `handleLogout` | BeginLogin, LoginCreate; Logout |
| `require` | BeginAuthorised (the session), RequireUser (its user and role) |
| `handleCreateUser` | CreateCheck, CreateWrite |
| `handleUpdateUser`, `handleDeleteUser` | ReadTarget, CountAdmins if an administrator would go, UpdateRoleWrite or DeleteWrite |
| `handleSetUserPassword` | ReadTarget, ResetWrite |
| `handleChangeOwnPassword` | OwnVerify, OwnWrite |
| a store call that fails | StoreFails |
| the hourly loop in `main`, time, a kill | Housekeeping, Expire, Restart |

**Backup and startup.** `live`, `wal` and `pending` are `helboot.db`,
`helboot.db-wal` and `restore-pending.db`; `baks` are the copies set aside.
A database file has a number of its own, because a log belongs to one file;
its content is the newest commit in it and how far its schema is: the
migrations that are recorded (`rows`) and those that took effect (`ddl`). What
a connection reads is the log, if there is one, else the file (`Content`).
The copy set aside is named by the second (`backup/backup.go:179`), so one made
in the same second is replaced; that is counted as a fault (Preserve).

| code | actions |
|---|---|
| `ApplyPendingRestore` | Look, Preserve, DropWal, Activate |
| `db.Open`, `Migrate`, `apply` | Open, Apply (once for each missing migration), Migrated |
| `Import`, `stageDatabase`, `validateSQLite` | BeginImport, then ReadManifest, Receive, Validate, Stage in the order of the archive, then Answer or Reject |
| `Export`; any other handler that writes | Export; Write |
| SQLite, the process | Checkpoint, Stop, Crash, Fail |

**ISO library.** `files` is the directory, `rows` the table. The content of an
image and its SHA-256 are one value, and `about` is the image that the analysis
looked at. Two history variables say where the properties promise nothing:
`overlapped` are the names that two requests, or a request and a copy from
outside, worked on at once; `unlisted` are those whose row may be missing until
a scan. A copy from outside takes time: from CopyStarts to CopyEnds, if that
comes, part of an image is under its name (`copying`), where a scan may hash
and analyze it.

| code | actions |
|---|---|
| `handleUploadISO`, `Import` | BeginUpload (the file), UploadRow (the row), Receive, Finalize |
| `record`, `CreateISO` | Record (the analysis), Insert |
| `ScanDir` | BeginScan, ScanRow, ScanHash, then Record and Insert; EndScan |
| `handleDeleteISO`, `Delete` | BeginDelete, DropRow, Unlink |
| other machines; a kill | CopyStarts, CopyEnds; Restart |

**Services.** `sup[s]` is where the supervisor of service `s` is, `socks[s]` the
ports its Run method has open, `delay[s]` the back-off. `main` is where `run()`
is. Time shows only in what it does: a wait ends (Elapse), a service has run
for more than a minute (`long`), the ten seconds of a shutdown are over
(Expire). `late` is a TFTP listener whose Run has returned already:
`ListenAndServe` runs in a goroutine of its own (`network/tftp.go:39-44`), and a
Run that is started with its context cancelled may return before the port is
open.

| code | actions |
|---|---|
| `buildNetworkServices`, `Manager.Run` | Build |
| `supervise` | Launch, Failed (part of BindFails and Crash), Elapse, GiveUp |
| the Run methods | Bind, one per listener, or BindFails; Crash; Return; for TFTP ReturnEarly, then OpenLate and CloseLate |
| `run` | Signal, ListenFails, Drained, Expire, Exit, Restart |
| other programs on the host | Neighbour |

**Small parts.** `LogRing`: Record is `append`, HandleLogs the viewer, and
`Walk` the entries in the order in which `Entries` meets them. `RateLimiter`:
Allow and Refuse are the two outcomes of `allow`; tokens are counted in ticks
of refill time, so that the fraction the code keeps as a float is exact.
`DhcpObserver`: Observe, HandleNetworkStatus (which prunes), SetMode.
`PxeBoot`: Ask is a packet and what `bootFilename` and either server make of
it; Take, FetchTFTP and FetchScript are the machine's. `ConfigSchema`:
LoadManifest is `validateSchema`, SaveProfile is `ValidateConfig`; a value
carries the Go type it was decoded to. These parts share no state with each
other.

`MayRestart` (DHCP) allows restarts; what clients were promised holds only
without them (`dhcp_lost_lease`). No other constant restricts the environment:
requests overlap, fail and are cut short as they like.

Definitions whose comment begins with "Mutant" are plausible bugs in the code
next to them. Each is used to make sure that some property would notice it.

## 3. Runs

| run | overlapping | bounds | shows |
|---|---|---|---|
| `queue_overlap` | 2 requests, failing stores, restarts | 1 host, 1 profile, 1 version, 2 installations | `HistoryKept`; `OneActivePerHost`, `HostStatusAgrees`, `PinMovesDeliberately`, each but for what outdated requests and lost updates do |
| `queue_versions` | 2 requests, failing stores, restarts | 1 host, 1 profile, 2 versions, 2 configurations, 1 installation, 1 of them served unmarked | `TypeOK`, `ServedIsStarted`, `PinsExist`, `VersionsContiguous`, `ImplementsPlan` |
| `dhcp_serving` | 2 packets, no restarts | 2 clients, addresses 0 to 2, ranges of 1 and 2, 3 ticks, leases of 1 | `TypeOK`, `NoSharedAddress`, `PromisesHeld` |
| `dhcp_restarts` | 1 packet, restarts | 2 clients, addresses 0 and 1, any range of them, 3 ticks, leases of 1 | `PoolAgrees` (maps and range), `NothingResurrected` |
| `accounts_overlap` | 2 requests, failing stores, restarts | 2 accounts, 2 sessions, 2 passwords, 2 roles, 1 other setting | `TypeOK`; `AdminExists`, `SessionsValid`, each but for what overtaken requests do |
| `backup_restore` | 2 uploads, crashes, failed startups | 4 database files, 1 commit, 2 migrations, 2 faults | `PendingUsable`, `RestoredOnce`, `NoForeignLog`, `NewestCommitKept`, `MigratedOnce`, `AcceptedIsRestored` (liveness) |
| `iso_library` | 2 requests, copies from outside, restarts | 2 names, 2 images, 2 rows | `FilesWhole`, `SumsMatch`, `RowsHaveFiles`, `FilesListed` |
| `services` | 3 supervisors, other programs, signals, restarts | waits 1, 2, 3, 3 | `PortsReleased`, `WaitsDouble`, `StopsClean`; `RunsAgain` and `StopCompletes` (liveness) |
| `parts` | one part at a time | 3 slots; 2 clients, burst of 2, 6 ticks; 2 foreign servers, 5 minutes, window of 2; 3-bit addresses; 8 architectures; 11 fields, 11 values | `ImplementsRecent`, `LoginsLimited`, `StatusIsCurrent`, `SchemaHolds`; `ScanAnswers` and `MachinesBoot` (liveness) |

Why these bounds are enough to be interesting. Every race in the queue's
handlers is between two requests about the same host, so two slots and one host
meet all of them; a second installation is what a late report or boot script
needs in order to hit the wrong one; a second version and configuration are
what an edit needs to be seen. `MaxUnmarked` is the number of installations
served while marking them failed; one is enough to be cancelled and reported.
Answer overrides (`MaxOverride`) are in `queue_plan_edited` and in the theorem,
not in the other runs, which they would only multiply. Deletion followed by
creation is covered because ids are not reused: the bounds count rows ever
created.

Of DHCP, two addresses allow a full pool, one given up for another, and ranges
of one address, two, or none (inverted); in `dhcp_restarts` and
`dhcp_lost_lease` the higher one is the last there is, in `dhcp_serving` a full
pool up to it leaves 0.0.0.0 to run over to; three ticks with leases of one
allow a lease to be given, to expire, to be taken over and to expire again. Of
the accounts, the second one is what a demotion, a deletion or a reset needs;
two sessions and two passwords are what is left over after a change.

Of backups, four files are the exported one's number, a live database and two
uploads, one replacing or outliving the other; one commit is enough to tell the
old content from the new; two migrations allow a start to be interrupted
between them and a backup of a release before the last; two faults are what it
takes to break `NoForeignLog`, whose bound is therefore meant: one fault never
does. Of images, two requests and a copy from outside meet on one name while
the other name shows that a scan goes on. Of services, `MaxRapid` failures in a
row pass the cap, and three services with three ports are all there are. Of the
small parts: a ring of three wraps several times; two tokens of two ticks have
fractions; a window of two minutes in five lets a sighting be renewed, pruned
and come back; three bits have a last address; two fields with a dependency
between them are what validation looks at at once. All safety
properties of the runs are theorems for any larger instance; liveness is not.

A row, id, file or tick beyond a bound is refused by a guard marked or named as
a bound; a request that would need it ends. `CHECK_DEADLOCK` is on everywhere:
a request can always arrive, a clock or a restart go on.

### Fairness

No run without a temporal property needs fairness; these are the assumptions of
the others.

* `backup_restore`: a startup goes on (`WF_vars(StartupStep)`): it is one
  goroutine that waits for nobody, and whoever runs HELBOOT starts it again.
  The repository ships no restart policy, so this is an assumption about its
  operator. Nobody has to upload, write, stop, crash.
* `services`: a supervisor that can go on does, and its timers fire
  (`WF` of Launch, of Bind or BindFails, of Elapse): goroutines and the Go
  runtime's timers. The ten seconds of `shutdownCtx` pass, `Shutdown` returns
  once they have, and `select` takes a branch that stays ready (`Expire`,
  `Drained` once expired, `Exit`). A service is not assumed to fail or to return
  when told to, a request to end, a signal or a start to come. `RunsAgain`
  assumes that other programs leave the service's ports alone from some time
  on; without that a listener cannot be opened.
* `parts`: the loop of the address search goes on; a machine that is not
  answered asks again, takes an answer if not every one of them is lost
  (`SF` of Take, because Lose may always come first), and loads what it was
  told of.

### Violations

Three runs each exhibit a disagreement between the code and its documentation,
as the shortest counterexample TLC finds:

| run | property | what happens |
|---|---|---|
| `queue_two_active` | `AtMostOneActive` | two overlapping queue requests for a host both find nothing active and both insert |
| `queue_plan_edited` | `PlanFixed` | a profile is queued, then its image or the answer override of the pinned version is changed, and the queued host installs something else, although `handlers_installations.go:84-85` says later profile edits never change that |
| `dhcp_lost_lease` | `NoSharedAddress` | an expired lease is taken over; the row of its former holder violates UNIQUE (ip), the new row is dropped, and after a restart the address is given to a second client |

Other disagreements met while modelling, without a run of their own:

* A cancellation between a boot's look at the queue and its marking
  (`boot/install.go:136`) leaves the host "installing" with nothing queued: the
  host is `muddled` in `HostStatusAgrees`.
* A machine whose installation could not be marked is served its script all the
  same (`boot/install.go:136-139`), and its installation can still be cancelled.
* A repeated report with an old token finishes the host's next installation,
  and a boot writes back the host row it read, undoing a re-pin made meanwhile:
  the stale requests that `PinMovesDeliberately` excepts.
* Deleting a profile clears `hosts.profile_id` but not `hosts.profile_version`
  (`store/profiles.go:167`), which `model/model.go:76-77` says is 0 without a
  profile.
* When a client's lease is released between `Confirm` and `Allocate`
  (`network/dhcpserver.go:96-105`), its request is acknowledged with whatever
  address `Allocate` finds, or with none.
* Two administrators who demote or delete each other at the same time both
  count two, although "the last administrator can never be demoted"
  (`handlers_users.go`): `lockedOut` in `AdminExists`.
* `handlers_setup.go:37-38` says the wizard is usable exactly once; two that
  overlap both pass line 40 and create an administrator each
  (`accounts_overlap` goes through it).
* A login that read the old password (`handlers_auth.go:33`) may open its
  session (line 72) after that password was changed and every session revoked,
  although `store/users.go:94-95` wants every device logged out: the `exposed`
  users of `SessionsValid`. Likewise a change of one's own password may
  overwrite an administrator's reset between its check and its write
  (`handlers_users.go:178`); no property is about that, because in any order
  the last of two writes is what stays.
* "Stale WAL/SHM files must not be replayed into the restored DB"
  (`backup/backup.go:183`): after an unclean stop, and a crash between setting
  the database aside and removing its log, the next start finds no database,
  skips the removal and opens the restored one with the other's log. And the
  copy set aside after an unclean stop lacks what was only in the log.
* An upload that is refused after its database entry was read stays staged, and
  is restored at the next start, even over one that was accepted before.
* Two uploads of one ISO name, or an upload and a copy from outside, replace
  each other silently while one of them has the row.
* When a range that ends at 255.255.255.255 is full, the variable of `firstFree`
  wraps to 0.0.0.0 and that address, outside the range, is handed out, where
  `leasepool.go:78-80` says a client gets one of the range or an error:
  `RunsOver` in `LeasePool` and `LeaseScan`, whose properties say that this is
  the only case. (A search of all addresses there are, all taken, never ends:
  `Endless`.)
* The network status judges sightings by the saved mode, which differs from the
  running one between a change and the next start.
* HTTP boot firmware is accepted as a PXE client but there is no boot file for
  its architecture; a required list accepts an empty one.
* A profile created without a configuration is saved with an empty one, and an
  imported one with what the file holds, neither checked against the schema
  (`ConfigSchema` is about documents that were).

## 4. Proofs

The theorems hold for every finite bound, any sets of clients, addresses,
configurations and passwords, and any number of overlapping requests or
packets. The assumptions on constants are named in the modules that declare
them: bounds are natural numbers, sets are not empty, admin is not below
itself, the addresses a range may end at exist, a ring has a slot, a bucket a
token, a back-off starts above zero and no higher than its cap, HELBOOT's own
address is not another server's, and a decoded whole number counts an even
number of halves. One is plain arithmetic that the provers do not know: that
2^Width is a positive number. TLC evaluates all of them for the values of its
runs.

### Queue

The properties are not inductive by themselves: whether a host row written back
pins an existing version depends on what was read several steps before. The
invariant `QueueInv` therefore says of every request in progress what its
locals still tell about the present tables (`LocalInv`): the profile it holds
was created, its pin exists unless that profile is gone, its installation was
queued, and past the marking step that installation is not waiting. The
argument has two halves:

1. each store method keeps `StoreInv` (types, contiguous versions, foreign
   keys, fresh ids, pins) and is an `Evolves` step: versions go only with their
   profile, ids do not come back, referenced configurations and the host and
   version of an installation do not change, statuses only advance;
2. `LocalInv` of a request that does not move is preserved by every `Evolves`
   step (`Undisturbed`), so for each action only the moving request is left.

From `Spec => []QueueInv` (`Inductive`) follow `TypeCorrect`,
`PinsAlwaysExist`, `VersionsAlwaysContiguous` and `ServedIsAlwaysStarted`; from
`Evolves` follows `HistoryAlwaysKept`; and `QueueImplementsPlan` shows that
every step is, seen through the refinement mapping `Plan`, a `Queue`, a
`Remove`, an edit of the plan (`Reimage`, `DropImage`, `Override`) or a stutter.

What overlapping requests can break is proved of every behaviour of `HSpec`,
with the history variables. `HistoryInv` says of a request that is not stale
that it still knows its host's row, the status of its installation, and that
nothing was queued since it looked (`UpToDate`, `KnowsStatus`); of MAC
addresses that they are unique; and of hosts that are not muddled what is to be
shown. A step of one request either leaves what another goes by alone, or makes
it stale (`OthersKnow`); a step on a stale view, or a failure between two
updates, muddles its host (`Recorded`). `OneActiveAlways`,
`HostStatusAlwaysAgrees` and `PinsMoveDeliberately` follow.

### DHCP

`ServerInv` is `PoolInv` and types: the maps agree, leases lie in the range,
rows are unique by address, and every row a restart would bring back is held in
memory for at least as long. The last part is needed for `MapsAgree` to survive
a take-over, and `MapsAgree` for `Release` to delete the right entry; none is
inductive alone. `PoolInductive` proves it with restarts and range changes at
any point, and `PoolAlwaysAgrees` and `NothingEverResurrected` follow. Promises
are about the future: `PromiseInv` adds that what a client was told is in the
maps and ends no later there, and that no promise reaches beyond one lease
time. It is inductive only under `~ MayRestart`, which `PromisesAlwaysHeld` and
`NoAddressEverShared` assume; `dhcp_lost_lease` is what happens otherwise.

### Accounts

`Inv` (types, sessions' owners, and ids in requests that were given out) is
inductive for any clients (`AccountsInductive`, `AccountsTypeCorrect`,
`SessionsAlwaysOwned`). `OverlapInv` adds, for every behaviour of `HSpec`, what
requests in progress that are not stale go by:

* `Safe`: a role change or deletion about to be written leaves another
  administrator. `AnotherAdmin` gets that from the count by finite cardinality;
* `Fresh`: a login holds the present password of its account;
* `AdminNeeded`: as soon as there is an account, a setting, or a request that
  could make one without setup, there is an administrator, unless `lockedOut`.

The moving request is handled by `StepMoves`; the others stay good or become
stale (`OthersStayGood`), because `Effects` says which kinds of request change
passwords, roles or administrators. `AdminAlwaysExists` and, with the owners,
`SessionsAlwaysValid` follow, without an assumption about clients.

### Backup and restore

`BackupInv` has three parts beside the types. `Sound`: every file that a start
or a connection may open is whole, and in no file is a migration half applied;
from it follow `PendingAlwaysUsable` and `AlwaysMigratedOnce`. `Apart`: the
number of an upload on its way, and of the staged file, is nobody's database
yet, which makes `RestoredOnce` inductive (`AlwaysRestoredOnce`): without it,
staging could bring back a number that is in use. `Recovering` says for each
point of a startup what faults it must have taken to find a log there, with and
without its database; `NeverForeignLog` and `NewestCommitAlwaysKept` follow.
Each part has one lemma for the startup, one for the running server and one for
the imports.

### ISO library

None of the four properties is inductive: that a row has its file depends on
the upload about to insert it. `Knows` says of each request, for as long as
nobody else has worked on its name, what it found out and what is therefore
still so: an upload has seen no file and no row, a scan no row, and one that is
about to insert has the checksum of the file that is there. `OneAtWork` is what
`overlapped` means to a request: two of them on one name have marked it;
`Copied` is what it means to a copy from outside. A step
touches the file, the row and the marks of one name (`TouchesOnly`), so what is
said of other names and by the requests that work on them carries over
(`Elsewhere`), and each action has one lemma for the name it touches.
`LibraryInductive` gives `FilesAlwaysWhole`, `SumsAlwaysMatch`,
`RowsAlwaysHaveFiles` and `FilesAlwaysListed`, through copies from outside and
restarts at any point.

### Services

`SvcInv` adds to `PortsReleased` that a service opens only its own ports and
that none is started before the services are built, and that a late listener
is TFTP's, after the cancellation, when no supervisor starts again.
`StopsAlwaysClean` combines it with `AllDone`, which only `Exit` looks at: what
is open then is a late listener at most.

`WaitsAlwaysDouble` relates the wait the code keeps, doubled and capped at each
failure, to its closed form, the first wait doubled `rapid` times and capped
once. `Doubled` is a recursive function, whose equation the provers do not
take from its definition: `DoublingExists` shows that a function with it exists,
for otherwise there would be a least number up to which none does
(`LeastNatural`, from the library's well-founded induction).

### Small parts

`RingImplementsRecent` is the refinement: `Wrap`, `NextSlot` and `Slot` replace
the modulus by a case distinction, `WalkIs` reads the walk back slot by slot,
and `WalkMoves` shows that one more entry is the newest in front of the others,
the oldest dropped if all slots were in use. For the limiter, `Spent` bounds
what was allowed since any allowed attempt by what was there and what has been
earned, and `Kept` says that nothing earned since the last one is lost;
refused attempts move neither (`RefuseKeeps`).

For the observer, `SightingsExact` says that it knows of every other server
named within the window when that last was, and of none but such servers, which
pruning keeps because it judges by the same age; `StatusAlwaysCurrent`, the
list and its warnings, follows. For the search, `ScanInv` says that all it has
passed is taken, so that what it finds is the least free address, of the range
or, of a full one up to the last address, of all (`ScanInductive`, for any
width): this is the safety half of `ScanAnswers`, and what `DhcpServer` takes
for the result. For schemas, `LoadedFormRoundTrips` rests on `validateSchema`
having checked each default as a value of its own field, and on a whole number
fitting a field in either encoding; `SavedLacksNothing` on `looseEqual` holding
of two values whenever they are the same in JSON.

### Only model-checked

* Liveness: `AcceptedIsRestored`, `RunsAgain`, `StopCompletes`, `ScanAnswers`,
  `MachinesBoot`. TLAPS does not prove properties under fairness, nor reason
  about ENABLED. Of `ScanAnswers` the answer is proved to be right and only
  that it comes is left.
* `PxeBoot` has no theorem: all that its run asks is that machines arrive.

## 5. Not modelled, and why

* Failing storage (disk full, database locked) is in the queue and the accounts
  (`StoreFails`); in the DHCP pool a row that cannot be written is one that
  violates a key. Elsewhere a handler that fails answers 500 and stops, as
  after a `Restart`.
* Text: scripts, answer files, templates, localisation, logging.
* `Bootable` takes a provider's manifest to be installed and complete; a
  missing one gives the same message script as a missing image.
* Authorisation in front of the queue, profile and network handlers: any
  request may arrive. Sessions and roles are in `Accounts`.
* Of the accounts: the audit log, CSRF tokens, password rules and locales.
  Expiry is an event that may come at any time.
* Of the network services: the fields of packets that no code branches on.
* Of backups: a power failure that loses file operations already done (the
  code does not call fsync; a crash here is the process's), and the archive's
  format. `validateSQLite` accepts any intact SQLite file with a table
  schema_migrations (`backup/backup.go:146-165`); what is uploaded here are
  HELBOOT's own exports, whole or broken off.
* Of the ISO library: the detection rules, the search for kernel and initrd in
  an image, and requests without end (their number is bounded, not their
  length).
* Of the schema: formatting of messages, YAML, and forms in the browser.
* Of the profile API: the reads of clone and import before the `CreateProfile`
  that `AddProfile` models, and the rendering of an answer override on trial.
* Code that only moves bytes: the TFTP transfer, image streaming, boot media,
  static files.

## 6. Plan

Each part has a passing run, its hazards as properties, and proofs where marked
(P).

1. `ProvisioningStore`, `InstallQueue`, `InstallPlan`, `QueueHistory` (P): done.
2. `LeasePool`, `DhcpServer`, `LeaseScan` (P): done.
3. `Accounts`, `AccountsHistory`, `RateLimiter` (P): done.
4. `BackupRestore`, with the migrations (P): done.
5. `IsoLibrary` (P): done.
6. `ServiceManager` (P): done.
7. `LogRing`, `RecentLog`, `DhcpObserver`, `ConfigSchema` (P), `PxeBoot`: done.
8. Left: the reads of clone and import in the profile part of the queue;
   detection rules against a reference definition.
9. Left to prove: that a machine never asks for a boot file that it was not told
   of (`PxeBoot`), a safety property beside `MachinesBoot`.
