# HWRun OS: TLA+ specification, model checking and proofs

HWRun OS is a user-space "component bus": one process, `hwrun-bus`, that discovers plugins, starts
them in the order of a table, lets them find each other through a registry of protocols and shuts
them down on a signal. Around the bus stand plugins that keep state of their own (permissions, audit
log, storage, processes, ...). This directory holds TLA+ models of the parts whose correctness depends
on order, concurrency, failure or restart, TLC configurations for small instances, and theorems
checked by TLAPS for instances of any size.

All source references are to `src/`; `PROJECT.json` maps every definition to its lines.

## 1. Inventory

| Part | State it keeps | Operations | What is hard about it |
|---|---|---|---|
| hwlock (`bus/src/hwlock.c`) | a global arming switch, one rwlock or mutex per locker | rdlock, wrlock, unlock, enable_parallel | locks are no-ops until armed: arming inside a guarded section would unlock what was never locked |
| metaproto (`metaproto.c`) | route list, subscriber list | register, unregister, resolve, subscribe, notify, check_deps | callbacks run outside the lock, two notifications may overlap |
| bus, loader (`bus.c`, `loader.c`) | plugin list, each plugin's state, handle and callbacks | scan, load, start, stop, unload, boot_chain, shutdown | a start is six steps each of which may fail, with rollbacks; callbacks live in shared objects that are unmapped |
| main (`main.c`) | `g_stop`, `running` | boot, arm, wait, shut down; CLI commands | a signal arrives between any two steps |
| param (`param.c`, hook in `bus.c`) | parameter tree, watcher list, commit guard | set_value, watch, notify, save_file, the revision hook | notification, saving and committing happen after the lock is released |
| permission | roles, permissions, bindings, state file | role/permission/binding changes, check, save, load, restart | every operation is two critical sections, and a restart in between |
| audit | log segments, next sequence number | append with rotation, query, configure | append is many system calls; the process may end, or the disk be full, between any two |
| storage | volume and snapshot registry, directories | create, delete, unregister, snapshot, restore | copying happens without the mutex; the registry and the directories can disagree |
| children: pmp, terminal, loader, shell | task table, session registry and handles, pipes; the kernel's process table | submit, cancel, status; spawn, close; run; external commands | one plugin collects the children of the others, pids come round, a fork copies descriptors |
| kernel table (`kernel/modules/hwrun_core.c`, `kctl.c`, `hw_bus_resolve_ex`) | the kernel's list of protocols; one static route in the process | register, unregister, resolve over ioctl; load and unload of the module | every process fills the table and it outlives them; all answers are put into the same route |
| params command (`main.c`, `param.c`, `hwrun.c`) | the file `state.conf`, a tree of segments per process | list, get, set | every command is a process that reads, changes and rewrites the whole file in place |
| sp: users (`sp_auth.c`) | user list, `sp_users.conf`, its temporary file | add, remove, enable, authenticate, check, save, load | the table is saved outside its lock through a file whose name all threads share |
| sp: keys (`sp_key.c`) | key list, id counter, temporary files | generate, import, destroy, sign, verify, export | a signature is made of files and commands, with the table read in between |
| sp and crypto: sealing (`sp_crypto.c`, `sp_hash.c`, `crypto_impl.c`) | nothing between calls | encrypt, decrypt, sign, verify, digest | 32-bit lengths and padding, capacities of buffers, what is authenticated |
| np (`np_socket.c`, `np_conn.c`) | table of connections; the kernel's sockets | socket, bind, connect, listen, accept, close, stats | system call and table change are two steps; a closed descriptor is given out again at once |
| git | the repository, `audit.log` | every operation runs one git command between two lines of the log | threads and the end of the process come between line and command |
| compress | files; the streams of a call | compress and decompress files and buffers | chunk boundaries, cut streams, failing flush, removal of the input |
| shell interpreter (`shell_impl.c`) | history ring, alias table | history, alias, evaluation of a line | ring arithmetic; aliases of aliases and of builtins |
| console | list of sessions, growing line buffers | open, write, banner, read_line, close, cleanup | a line as long as the reader's buffer; memory that runs out half way |
| plugin.yml parser (`yml.c`) | section, indentation | parse a file line by line | what a key means depends on the lines before it |
| paths (`fsp_path.c`) | nothing | normalize, join, parent, absolute | the root, empty components, full stack and full buffer |
| matching (`glob_match`, `sp_perm_match`, version rule) | nothing | decide | several stars; versions with missing segments |
| loader plugin (`loader_detect.c`, `loader_elf.c`, `loader_run.c`) | number of the next handle; handles of callers | detect, elf_parse, load, run, unload, get_formats | tables that run past counts or file decide what is started; loads that fail half way |
| log, hap, rest of fsp, runtime forwarding | see section 8 | | not modelled |

How they interact: `main` drives the bus; the bus calls plugins through their callbacks and registers
what they provide in metaproto; a parameter change goes to watchers (the bus forwards it to the plugin
named by the key) and then to the revision hook, which saves the tree and lets the GIT plugin commit
it; every guarded section is a hwlock section; permission, audit, storage and sp have their own mutex and
their own files and are reached by protocol; np has a mutex for its table only, git none. The kernel's
table is asked when METAPROTO has no route. The params command is a process of its own and meets the
running bus only in the file it writes.

## 2. Modules

| Module | Models | Composes |
|---|---|---|
| `HwLock` | `hwlock.c`: arming, read and write sections on each locker | |
| `MetaProto` | `metaproto.c`: registry and notifications, with threads | `Snapshots` |
| `MetaProto_proofs` | theorems about `MetaProto` and about `AuditText` | `MetaProto`, `AuditText`, `ListFacts` |
| `Snapshots` | the copy of at most so many list entries that METAPROTO and param make under the lock | |
| `ServiceDirectory` | abstract: what the bus promises to plugins, who is in service and when one may enter | |
| `PluginBus` | `bus.c`, `loader.c`: life cycle, boot chain, shutdown; refines `ServiceDirectory` | `ServiceDirectory` |
| `HwMain` | `main.c`: main loop and signals around the bus | `PluginBus` |
| `PluginBus_proofs` | theorems about `PluginBus` and `HwMain`, the refinement of `ServiceDirectory`, and theorems about `HwLock` and `PluginYml` | `HwMain`, `HwLock`, `PluginYml`, `ListFacts` |
| `Param` | `param.c` with `bus_on_param_revision` | |
| `Param_proofs` | theorems about `Param` | `Param`, TLAPS |
| `Permission`, `Permission_proofs` | `permission_impl.c` and theorems about it, about `Matching` and about `Executables` | `Matching`, `Executables`, `ListFacts` |
| `AuditLog` | `audit_impl.c`: append, rotation, queries | |
| `AuditText` | `audit_impl.c`: the text of a line, written, cut, glued and read | |
| `Storage`, `Storage_proofs` | `storage_impl.c` and theorems about it and about `Paths` | `Paths`, `ListFacts` |
| `Processes` | child processes of four plugins over one kernel process table | |
| `Callers` | the threads that call, and whether system calls may fail; shared by the modules below | |
| `SpUsers`, `SpKeys` | `sp_auth.c`, `sp_key.c` | `Callers` |
| `Network` | `np_conn.c`, `np_socket.c` | `Callers` |
| `Repository` | `git/src`: commands and their lines in the audit log | `Callers` |
| `KernelRoutes` | `hwrun_core.c`, `kctl.c`, `hw_bus_resolve_ex` | `Callers` |
| `ParamStore` | the parameter tree and its file under the params command | `Callers` |
| `Threads_proofs` | theorems about `SpUsers`, `SpKeys`, `Network`, `Repository`, `KernelRoutes`, `ParamStore` and `Processes`, one section each | all seven, `ListFacts` |
| `Libraries_proofs` | theorems about `Interpreter`, `Crypto`, `Console`, `AuditLog` and `Compress`, one section each | all five, `ListFacts` |
| `ListFacts` | lemmas on linked lists and sequences that several proofs need; induction over the numbers | `Snapshots`, TLAPS |
| `Compress`, `Console` | `compress_impl.c`; `console_impl.c` | `Callers` |
| `Crypto` | `crypto_impl.c`, `sp_crypto.c`, `sp_hash.c` | |
| `PluginYml` | `yml.c` | |
| `Interpreter` | `shell_impl.c` without the external commands | |
| `Paths` | `fsp_path.c` | |
| `Matching` | `glob_match`, `sp_perm_match`, versions of METAPROTO | |
| `Executables` | the loader plugin: detection, ELF header, routing of load, run and unload | |
| `MC*` | instances for TLC; `MCMain` holds the repository's own boot table and plugin declarations | |
| `MCBus` | one instance for `HwLock`, `MetaProto` and `Param` | all three |
| `MCThreads` | one instance for `SpUsers`, `SpKeys`, `Network`, `Repository`, `KernelRoutes`, `ParamStore` | all six |
| `MCLibraries` | one instance for `AuditLog`, `AuditText`, `Compress`, `Crypto`, `PluginYml`, `Console`, `Interpreter`, `Paths`, `Matching`, `Executables` | all ten |

Conventions. An action is named after the function it models, or after the step of it
(`StartCheck`, `StartInit`, ... are the steps of `hw_plugin_start`). A guarded section is one step,
because HwLock shows that sections exclude each other; what the code does after it releases a lock is
another step. A call that is refused changes nothing and is a stuttering step. Callbacks of plugins,
GIT and the file system are external: they succeed or fail, nondeterministically. Definitions under a
comment `Mutant:` are faulty variants of the definition after them; no specification uses them.
A module's type invariant is a conjunct of the invariant that names the module's soundness
(`RegistrySound`, `TableSound`, ...). `MCBus`, `MCThreads` and `MCLibraries` put parts that share nothing into
one run: the variable `part`, chosen by Init, names the one a behaviour uses, and what the others hold
stays in one of its initial states.

How state corresponds to the code:

* `HwLock`: `armed` is `g_locker_armed`; `readers`, `writer` are the pthread lock words; `rd`, `wr` the
  threads inside a guard macro. Only the boot thread runs before arming (main.c:266).
* `MetaProto`: `routes`, `subscribers` are the two linked lists, head first; `pc`, `snaps` a thread's
  position in `hw_metaproto_notify`; `view` what each subscriber was last told.
* `PluginBus`: `plugins`, `state`, `handle`, `ops`, `routes` as in the code; `pc`, `cur`, `n`, `boot`,
  `todo` the control state of start, scan, boot chain and shutdown; `wild` records a call through a
  pointer into an unmapped object.
* `Param`: `tree`, `watchers`, `param_git_committing` as in the code; `phase`, `listed` a thread's position
  in `hw_param_set_value` and the watchers it has still to tell; `file`, `staged`, `head` the state
  file, git's index and last commit; `overlap`, `crowded` are history variables.
* `Permission`: `ActionGlobs` and `Globs` are what `glob_match` makes of the patterns of actions and resources
  (`Matching` has the algorithm); `mem` is the policy in memory, `files` what each state file holds; `rev`, `fileRev`,
  `acked` number the changes.
* `AuditLog`: `segs` the segments of each directory, `next_seq` and `max_files` as in `g_ctx`; a line is
  its number and whether it is whole.
* `Storage`: `vols`, `snaps` the lists, `file` the state file, `volData`, `snapData` the content of the
  directories (one value each), `pc`, `job` the unlocked part of each call.

* `Processes`: `procs` is the kernel's table; `tasks`, `sessions`, `handles` the plugins' records; `runs`,
  `term`, `shell` the positions of calls that take several steps; `writers` who has the write end of
  the shell's pipe open, `HEIR` standing for descendants of the command: they have no pid of their own here,
  and where the bus is process 1 and they become its children, `task_reap` collects them for nobody.

* `SpUsers`: `users` is the list, `inode`, `tmp`, `conf` the files and their names, `call` where each thread
  is between lock, file and rename; `acked`, `failed`, `overlap` are history variables.
* `SpKeys`: `keys`, `nextKeyId` as in the code; `files` the temporary files of a call; `owner`, `signatures`
  history.
* `Network`: `sock` the kernel's sockets, `s_conns` the table; `given`, `untracked` what callers hold.
* `Repository`: `repo` is what git keeps, `audit` how many lines each operation has; `applied` history.
* `KernelRoutes`: `entries` is the kernel's list, `g_kernel_route` the static route, `at`, `want`, `d` the
  locals of `hw_bus_resolve_ex` in each thread; `mixed` (history) the threads whose use of the route met
  another's.
* `ParamStore`: `stateConf` is the file as key and value text of each line, `commands` what each process
  does, with its tree.
* `Compress`: `files` the contents; `call` the locals of the loop, buffers of stdio and codec included, with
  `held`, what the input held at the start, and `was`, what its reads make of it.
* `Crypto`: `sealed`, `opened` are the last call of each kind with its answer; data is the tuple of what
  it was computed from, and for SP, which does not authenticate lengths, a sequence of blocks.
* `PluginYml`: `section`, `sec_indent`, `d` as in the parser; `written` and `place` the author's side.
* `Console`, `Interpreter`: the lists and rings of the code, and what was put in as history; a word of a line
  that sets an alias is looked up in `Settings`.
* `Executables`: `image` is the file, by what the loader reads of it; `handles` are the callers', `next_id`
  the static counter, `resident` what the dynamic linker counts.
* `Paths`: `rest` and `stack` are the loop of `fsp_path_normalize`; `AuditText`, `Matching`: one question or
  event, and what the code makes of it.

`world` in `AuditLog`, `Storage` and `Processes` is chosen by Init and never changes: it names which faults a
behaviour may have, so that one run covers several fault models.

## 3. Runs that pass

| Run | Question | Bounds, and why they are enough |
|---|---|---|
| bus | Do guarded sections exclude each other across arming, and is every unlock matched? Do subscribers end up with the current table although notifications are sent outside the lock? Is the revision hook's guard given back on every path; are commit and watchers current? | lockers: 4 threads, one locker of each kind. METAPROTO: 2 threads, 2 providers of one protocol, snapshot capacity 2: two calls overlap at every step. PARAM: 2 threads, 3 calls, 2 keys, 2 watchers: a lone call after an overlap is reached |
| plugin_bus | Whatever fails in a start, are routes, states and mapped objects consistent, and does every call return? | 3 plugins: a dependency, a conflict and two protocols with a failing second registration; every order of calls |
| main | Is boot_order right for the declared dependencies, does a signal that is heard end the process cleanly? | the repository's own tables for 9 plugins (the other 6 declare what shell declares), any subset installed |
| permission | Is what was reported in the file, and does a restart decide the same? | 2 threads, 2 roles, 4 changes, 2 state files, table size 1 so that it fills up |
| storage | Are registered snapshots intact, names unique, read-only volumes untouched? | 1 caller with 2 volumes and nested paths and all failures; 2 callers on one path |
| processes | Does a task's verdict come from its own process, do signals reach the process that was meant, does a shell command return when nobody outside the bus keeps its pipe open? | tasks alone: 4 forks with 2 pids, so every pid is used twice; tasks with terminal, or with runs and shell: 3 forks without reuse |
| threads | Do SP's table and file, its keys, NP's table, GIT's log, the kernel's route and the parameter file stay right when two threads or processes use them at once? | 2 threads (interchangeable: symmetry), faults on. users: 2 users, 2 passwords, table of 2, so that a save can be longer or shorter than the one it overlaps. keys: 2 ids. sockets: 3 descriptors, table of 2, so that it fills up and a descriptor is reused. repository: 3 calls of 13 operations. kernel: 3 names of which two are cut to the same, 2 providers. params: 3 keys (one below another, one that reads as a comment), the empty value and one with a quote inside, so that a line may be cut there |
| libraries | Does each of ten sequential parts do what it promises at its limits? | audit: 2 events per segment, up to 3 of 4 segments, 8 events: the oldest segment is dropped at least once. lines: subject and detail of up to 2 of 5 characters, all that is escaped among them; every cut. compress: chunk and ratio 2, texts of 0 to 5 bytes: at, below and above a chunk; reads, writes and allocations fail. sealing: 256 stands for 2^32, lengths at block, sign and overflow boundaries. yml: 7 lines, lists of 2. console: 2 sessions, 3 characters. shell: ring of 3, 4 lines typed. paths: up to 4 components, and 5 to 7 over 5 levels of stack; results of four sizes and a working buffer of 10 characters, which a relative path or a join may not fit. matching: patterns and texts of up to 3, ten versions, all triples. loader: about 230 images (each format, both byte orders and classes, tables that end before and behind the counts, names that just fit), 2 handles, 3 loads |

Properties, by module (the comment before each definition states it in full):

* `Exclusion`, `UnlocksOwnLock` (HwLock); `LockInv`, from which both follow, is proved (section 7).
* `RegistrySound` (routes unique, a notification works on a copy that was current), `ViewsCurrent`,
  `NotifyReturns` (MetaProto).
* `BusSound` (no orphan route, a started plugin offers what it declares, no pointer into an unmapped
  object), `CallsReturn`, and `KeepsDirectory`, the refinement of `ServiceDirectory` (PluginBus).
* `MainSound` (the boot table is complete, an exit is clean), `TermHeard` (a signal ends the process unless
  it falls between the test of `g_stop` and `pause()`), and `TermExits`, which fails (HwMain).
* `GuardBalanced`, `ParamCurrent` (commit and watchers current) (Param); `ParamsPersist` and, failing,
  `SetKeepsOthers` (ParamStore).
* `NoDangling`, `AckedDurable`, `PolicyReloads` (Permission).
* `AuditSound` (queries in order, also with a limit and downwards; numbers never reused; only the oldest
  dropped) (AuditLog); `LinesReadBack` (AuditText).
* `StorageSound` (names unique, snapshots intact), `ReadonlyKept` and, failing, `LoserGivesUpOwn` (Storage).
* `ChildrenKnown` (tasks unreaped, sessions agree with handles), `TaskVerdict`, `SignalsOwn`,
  `ShellReturns`; failing: `RunReturnsCode`, `ZombiesCollected`, `EvalReturns` (Processes).
* `TableDurable`, `RestartKeepsRights` (SpUsers); `SignaturesVerify` (SpKeys).
* `TableSound` (Network), `ChangesAnnounced` (Repository), `KernelRoutesSound` (KernelRoutes).
* `ResultExact` (results exact or an error, the original never lost while it can be read),
  `CompressReturns`; failing: `RemovedWhenCompressed`, `CutStreamsReturn` (Compress).
* `SealingSound` (within the buffers, inverse; alterations noticed, but for another division of the bytes
  that SP authenticates) (Crypto).
* `ParsedAsWritten` (PluginYml), `LinesInOrder` (Console), `ShellRemembers` (Interpreter).
* `PathsNormal` (Paths); `MatchersExact` (Matching); `LoaderSound` (Executables: what is started or made
  resident is what the file declares, handles agree with the linker).

Deadlock is not checked where the system may stop (a bus that was shut down, a process that exited, a
bound that is used up); in the run `bus` it is.

## 4. Runs that fail, and what they show

* `storage_race`: two calls that make the same snapshot copy into one directory. The one that registers
  second finds the name taken and removes the directory, which is the registered snapshot's by then.
  `LoserGivesUpOwn` is about that step alone; `SnapshotsIntact`, which passes, excludes snapshots that
  were contested.
* `run_stolen`: `task_reap` collects any child with `waitpid(-1)`. A thread that waits in `run` for its
  program then gets ECHILD and the exit code is lost.
* `term_lost`: a single SIGTERM between the test of `g_stop` and `pause()` (main.c:280) is not acted upon
  until another signal comes. No text has anybody send a second one, so the run assumes nothing of the
  sender. `TermHeard`, which passes, says that this is the only place where a signal is lost.
* `cut_buffer`: a zlib or gzip buffer whose stream is cut keeps decompression in its loop for ever, because
  inflate answers `Z_BUF_ERROR` and the loop takes that for progress (for files, compress_impl.c:408 makes
  it an error). `CompressReturns` leaves such buffers out.

## 5. Other disagreements between code and text, written into the models

The models follow the code in these points too; the properties are stated so that they say what does
hold, and the named constant or condition is the place to change to see the failure. Properties that are
said to fail are defined in their modules, and put into a configuration in place of the others they fail.

* `pmp_task.c:58`: a task that has ended stays a zombie for good if nobody asks for the status of a task;
  nothing handles SIGCHLD (pmp_task.c:6: collected by SIGCHLD). `ZombiesCollected` in `Processes` fails;
  no fairness is assumed of those queries, and no property that holds rests on them.
* `shell_impl.c:300`: the pipe is made without O_CLOEXEC, so a child that another plugin forks between `pipe` and
  `close` inherits the write end and keeps `eval` reading after the command has ended; a descendant that the
  command itself leaves in the background does the same. `ShellReturns` says that only holders outside the
  bus can do this. `EvalReturns`, which allows for descendants only, because whoever types `sleep 9 &` may
  be said to have asked for it, fails.
* `param.c:224`, `:238`: on a full disk a lone `params set` loses the other parameters, in whole or in part:
  `fopen` has emptied the file, and what `fprintf` and `fclose` return is not looked at (main.c:125: existing
  parameters are loaded first, so that they are not overwritten). `SetKeepsOthers` in `ParamStore` fails;
  `ParamsPersist` is about commands whose file was written.
* `compress_impl.c:323`, `:367`: a read that fails is taken for the end of the input; compression then answers OK
  and removes the original (compress.h:79: removed after a success). `RemovedWhenCompressed` in `Compress`
  fails; `ResultExact` speaks of the text that was read, and of nothing lost unless a read has failed.
* `metaproto.c:284`: two threads that register one provider can have their notifications overtake each
  other, and a subscriber then believes the older one. In `MetaProto` every provider belongs to one thread;
  a removal without a provider (`NULL`) counts as one of the thread of the route it finds, the first of
  its protocol.
* `audit_impl.c:245`: after a full disk and a restart numbering starts again at 1 if the newest segment
  has only a torn line (audit_impl.c:223: continuous and unique). No world of `MCLibraries` has both
  `full` and `crash`; with both, `SeqNeverReused` fails.
* `loader_run.c:107`: a script replaces the bus process itself, there is no fork (loader.h:116: fork and
  exec for programs and scripts). `RunReturnsToCaller` in `Executables` fails.
* `loader_elf.c:263`: the byte order is taken from the byte after `EI_DATA`, and the counts of a 32-bit header
  from where a 64-bit header has them, so a library of that kind is taken for a program and started
  (loader_elf.c:6: both classes and byte orders). `AnyElfUnderstood` fails; `LoaderSound` is about images
  of the machine's own kind (`Native`).
* `loader_detect.c:81`: an interpreter whose name does not end in the first 64 bytes is cut and its head is
  executed (loader_detect.c:77: the path of the interpreter); a blank after `#!` makes it empty.
* `pmp_task.c:68`: a child that is not a task changes the entry of an old task with the same pid; and
  `terminal_impl.c:240`, `:291` use a session's pid after its child was collected. Both need a pid that
  came round, and no world of `MCProcesses` has reuse together with children of other plugins.
* `pmp_task.c:115` with `:68`: a cancelled task is reported as failed (or finished) once its process is
  collected (pmp.h names the state CANCELLED). `TaskVerdict` allows it.
* `bus/src/loader.c:108`: if the *first* registration of a plugin fails, `-0` is taken for success and the plugin
  is started without protocols (loader.c:160 promises a rollback). `NoMemory` of `MCPluginBus` leaves the
  first registration out; with `<<"fsp", 0>>` in it `BusSound` fails by `StartedServes`.
* `bus/src/loader.c:200`: an unloaded plugin keeps callbacks into the closed object, and loading it again calls
  them (bus.h:4 names hot plug). `Replug = TRUE` makes `ObjectsMapped` fail.
* `bus.c:314`, `:350`: nothing calls `hw_plugin_load_so`, so plugins are started without their object
  (docs/design.md:124 describes dlopen), and a route's implementation is then the descriptor
  (loader.c:107), which `bus_on_param_revision` uses as `hw_git_ops_t`. `EmbedderLoads = FALSE` is the
  program as it is.
* `bus/src/loader.c:136`: only the conflicts of the plugin being started are tested, so the result of a conflict
  depends on the order (loader.c:134: "refuse to start"). `ServiceDirectory` promises the one-way test.
* `metaproto.c:291` with `bus.c:180`: an empty `requires` list is a NULL pointer and refused
  (tests/test_metaproto.c:194: OK). `check_deps` has the guard `Requires[p] # <<>>`.
* `metaproto.c:243`: subscribing to all protocols after subscribing to one only replaces the callback
  (include/hwrun.h:192: empty means all).
* `bus.c:133`: shutdown does not unload plugins in state STOPPED or ERROR (bus.c:122: all of them).
* `permission_impl.c:371`: blanks at the ends of a pattern are lost over a restart, and a pattern of one
  blank becomes "any" (permission.h:53). `ReloadFaithful` is about `Plain` policies.
* `audit_impl.c:259`: with `max_files=1` the log is truncated before the new event is written; a process
  that ends there starts again at 1. The crashing world has `files = {2, 3}`.
* `audit_impl.c:256`: with `max_files=1` surplus segments are not removed and come back when it grows.
* `audit_impl.c:269`: segments above a smaller `max_files` are removed behind the renames; if append is cut
  off or fails before that, they come back when `max_files` grows, with a gap behind them. No world has
  `reconf` together with `crash` or `io`; with both, `KeepsNewest` fails (4 segments of one event).
* `audit_impl.c:388`: the result of `fclose` is ignored, so on a full disk append reports an event that
  is not written. `KeepsNewest` excludes worlds with `full`.
* `storage_impl.c:553`: one volume's directory may lie inside another's, and goes with it even if it is
  read-only. `ReadonlyKept` excludes nested directories.
* `storage_impl.c:595`: two creates of one directory, the first of which cannot write the registry: its undo
  comes after the mutex is released and takes the directory of the second. Worlds with failures have
  one caller. Symbolic links and special files in a volume are part of its one value.
* `storage_impl.c:321`: a snapshot is looked up by name in all volumes (storage.h:75: unique within the
  volume); the model lets restore and delete find any record.

* `bus.c:31`: a parameter set while another thread commits is never committed, the guard drops its
  revision (bus.c:27: it does not really come to re-entering). `HeadCurrent` excludes overlapping calls;
  `EveryRevisionCommitted` in `Param` says it without, and fails.
* `yml.c:291`: a key of a list item without a value is taken for the header of another section, so what
  follows it in the list is lost (yml.c:8: keys below an item are ignored). `MoreAfterBare = TRUE` makes `ParsedAsWritten` fail.
* `compress_impl.c:202`, `:234`, `:257`: capacities are `uint32_t`, and doubling one at 2 GiB gives 0. `Compress`
  counts bytes one by one and has no such results.
* `sp_crypto.c:166`: SP authenticates associated data, iv and ciphertext as one string without their
  lengths, as sp_crypto.c:9 says (aad || iv || ciphertext). Who receives them divided in another way
  finds the tag right: the last block of the associated data as iv, say, and the iv before the
  ciphertext. `AlterationNoticed` says so: what comes out is then not the message, but the answer is OK.
* `shell_impl.c:420`: an alias for blanks alone, called by `ops_run` without arguments, is executed with an
  argv that was never set. `Interpreter` has no such values.
* `np_socket.c:168`: the entry of an accepted connection has no type, so the statistics do not count it as
  TCP (np.h:94: tracked TCP connections). `StatsCountTcp` in `Network` states the count of the header, and
  fails.
* `sp_auth.c:274`: authentication uses the entry it found after it has released the mutex (sp.h:16:
  failing operations return an error, never crash). `EntryStillThere` in `SpUsers` fails; the other
  properties use what the entry held.
* `sp_key.c:340`: error paths leave temporary key files behind (sp_key.c:13: they are removed
  as soon as the operation is over).
  `KeyFilesRemoved` in `SpKeys` fails.
* `sp_auth.c:127`: overlapping saves share `sp_users.conf.tmp`: the file can hold lines of both, or the
  second rename finds nothing. `TableDurable` excludes overlaps (`overlap`).
* `sp_auth.c:120`: a role list that holds `:` is accepted, and its user is left out when the table is saved.
* `crypto_impl.c`: hmac does not look at `out_cap` (crypto.h:104); SP's encryption accepts no iv. Both are
  left out of `Crypto`.
* `git/src/storage.c:100`: the id a commit reports is that of HEAD in a second command, perhaps another
  thread's commit (`RevParse`). `compact.c:75`: rewriting by filter-repo has no line before it.
  `executor.c:89`: the line before a command says "failed". `audit.c:72`: the reader looks for keys without
  the quotes the writer puts round them.
* `console.h:43`: the status of a closed session is an error, not "closed"; a banner sets the count of
  written lines back.
* `hwrun_core.c:144`: the kernel's answer leaves the protocol empty, and `bus.c:393` copies that into the
  route. `RouteDescribes` is about version and provider.
* `bus.c:392`: two threads that resolve at the same time share one static route, and each may read the
  other's answer or half of both. `RouteDescribes` excludes threads in `mixed`.
* `hwrun_core.c:49`: the uncut name is compared with cut ones, so another kernel module that used a longer
  name could register it twice and never take it back. Names from processes are cut before
  (`kctl.c:111`), and no other module exists in the repository.
* The kernel's entries stay when the process that registered them ends; `KernelRoutes` has no action for it
  because there is none.
* `fsp_path.c:138`: a parent that does not fit is cut without an error, `fsp_path.c:52`: so is a component
  of more than 255 characters. `PathsNormal` leaves both out. A
  relative path, or a join, that does not fit in the buffer of 4096 bytes is refused (`:31`, `:100`) even if what
  it comes to would be short.
* `metaproto.c:15`: the comparison of versions ignores segments that are missing or no numbers, so it is
  no order; `MatchersExact` uses it where all segments are numbers.
* `param.c:218`: the file is emptied before it is written. A command that is killed in between loses all
  parameters, two commands at once lose one change or all, and `main.c:127` prints "ok" before saving.
  `ParamsPersist` is about commands that ran alone and could write. A key that begins with `#`, and blanks or quotes at the
  ends of a value, are not read back (`param.c:185`, `:200`).
* `audit_impl.c:169`: a line cut inside its number and glued to the next line gives an event with a number
  that was never given; a line cut inside its result, or inside the detail, is an event with a part of
  them; one more separator at the end is accepted. `LinesReadBack` says exactly which cuts are noticed.

## 6. Fairness

* `MetaProto!FairSpec`, and `BusSpec` of `MCBus`: weak fairness of each thread's notification steps. After its guarded section a
  thread only calls callbacks, which return, and waits for short guarded sections.
* `PluginBus!FairSpec`: weak fairness of the bus's own steps inside a call. The bus is one thread and
  none of these steps waits.
* `HwMain!MainFairSpec`: main goes on unless it is suspended in `pause()`. Nothing is assumed of the sender of
  signals.
* `Processes!FairSpec`: a shell command goes on when it can. Nothing is assumed of children, of their
  descendants or of callers that ask for the status of a task.
* `MCLibraries!Spec`: weak fairness of `CompressStep`, the steps inside a call. The loop is sequential code
  in one thread and waits for nothing but the file system.

## 7. Theorems

Proved by TLAPS for every value of the constants that satisfies the named assumptions: any number of
threads, plugins, routes, users, keys, sockets, forks. What each theorem needs beside the property is
its inductive invariant; the invariants were checked by TLC on the instances of section 3 before they
were proved. Conditions of a theorem are written in its statement; each one excludes a case that
section 5 shows to be wrong in the code.

* `PluginBus_proofs`, section on `HwLock`, from `LockAssumption` (the boot thread is a thread, a locker has a kind):
  `LockInvariant`, `LockExclusion`, `LockUnlocksOwn`. `Exclusion` is not inductive: nothing in it says
  that a thread in a section really holds the lock. `LockInv` adds that the lock words agree with the
  sections (`HoldersAgree`) and that before arming nobody but the boot thread is in one (`BootAlone`),
  which is what makes the unlocked sections before arming harmless.
* `MetaProto_proofs`: `RegistryIsSound`, `ViewsAreCurrent`. What a subscriber knows may be old while a
  notification is on its way, so `MetaInv` adds `KnowsOrUnderway` (it knows the current registration, or
  the thread of the provider still has it in its snapshot, as far as the subscribers fit in one),
  `NotesCurrent` (what a thread is about to tell is what the table says of its provider), `SnapsWanted` and
  `HeardSubscribed` (only who wants a protocol is told, and who was told has an entry).
* `MetaProto_proofs`, section on `AuditText`, from `AuditTextAssumption` (an event has its seven texts, its number
  is digits and not 0, time and result are numbers): `LinesAreReadBack`, for texts of any length over any
  characters. The invariant, `LineOfEvent`, is small; the work is in what the recursive functions do to data.
  `WrittenRead` and `TextRead` take a text back character by character, `CutText` and `PartRead` do so for a part
  of one, where a cut between a backslash and what it escapes matters. `Layout` says where each field stands
  in its line, and three inductions over the seven fields follow `parse_event` through a whole line
  (`WholeParsed`), one that was cut (`CutParsed`) and one that is glued to such a rest (`GluedParsed`): behind
  the cut every field is read one place or more too late, so that the line is refused unless the cut
  was in the second field, the target is a number where the result should be, and the detail is empty
  (`GluedRefused`).
* `PluginBus_proofs`: `BusLeavesNoOrphan` without any condition; `BusIsSound` for callers that leave a plugin
  alone after `hw_bus_unload` (`~Replug`, loader.c:200) and first registrations that do not run out of memory
  (`FirstFits`, loader.c:108); `BusKeepsDirectory`, the refinement of `ServiceDirectory`, under `FirstFits`.
  `BusInv` ties each stage of a start to what it has registered (`Stages`, `RoutesOwned`, `RoutesOffered`), lists
  every running plugin, says that callbacks point into mapped objects (`OpsMapped`), and that the checks at
  the beginning of a start still hold when it ends although five steps lie between (`Admitted`), which is
  the whole of the refinement: every other step is a departure or a stutter. `MainExitsClean` follows with
  `MainInv`: main leaves through the shutdown, and a bus that was shut down has no routes. `MainIsSound` is
  the whole of `MainSound`, for any boot table that is in order (`TableInOrder`: it names what may be
  found, a plugin stands behind those that provide what it requires, no plugin declares a conflict or
  provides more than one protocol). `MCMain` has TLC confirm this of the repository's own table
  (`RepositoryTable`); for a table that names a plugin before one it requires, the property is false.
  `BootInv` says that a plugin the loop has gone past runs, unless it was not loaded or something it
  requires is not in service, and that what runs has all it requires.
* `PluginBus_proofs`, section on `PluginYml`, from `YmlAssumption`: `ParsedRight`, for files in which no list goes on
  after a bare key of one of its items (`~MoreAfterBare`, yml.c:291). `YmlInv` relates the machine's two
  variables, section and indentation, to the author's place in the document, and every list to the
  first `ListMax` of the words written for it.
* `Storage_proofs`: `StorageIsSound`, `ReadonlyIsKept`. `StorInv` adds who owns a directory while a call works on
  it without the mutex (`Owned`, `Underway`), that the state file has no name twice (`FileUnique`, or a
  restart would break uniqueness), and that the only caller writes and clears only directories of its own
  volumes (`WritesOwn`).
* `Storage_proofs`, section on `Paths`: `PathsLeadRight`, from `PathsAssumption` (names are texts, the working
  directory begins with a slash, a buffer has room for a character), for any sizes of stack and working
  buffer. `PathsNormal` says where a text leads
  without a stack: a name is on the way unless as many ".." as names have followed it somewhere.
  `PathsInv` says that the stack holds the names on the way of what has been read. The lemma behind it is
  `AlwaysBalanced`: from each name on the way on, the names are as many more than the ".." as there are
  names on the way, so that a ".." takes off exactly the last of them. `WhereJoined` does the same for a
  join, whose directory was normalised before.
* `Permission_proofs`, from `PermissionAssumption` (trimming a pattern gives a pattern):
  `PermissionNoDangling`, `PermissionAckedDurable`, `PermissionReloads`. The inductive invariant `PInv` adds to
  `NoDangling` that nothing runs ahead of the memory (`mine[t] <= rev`, `acked <= rev`) and that, until the
  path is changed or a file loaded, the file being written is the default one and holds all that was
  reported. The bounds on the tables are needed for the reload only: `Arrays` says that memory and files
  fit in them. `ParsedClosed` is the lemma that reading *any* file gives a policy without dangling bindings.
* `Param_proofs`, from `ParamAssumption`: `ParamGuardBalanced`, `ParamIsCurrent`. For the first, `GInv` only adds
  the type of `phase`; the content is in the case split, one step per exit of the hook. A second thread may
  enter the hook between the test of the guard and setting it, so "at most one thread inside" is not true
  and not claimed. For the second, `ParamInv` says for a call that is alone how far its value has got
  (`OnTheWay`: tree, buffer, file, index, commit) and for every watcher that it was told the value in
  the tree or is still in the snapshot (`ToldOrListed`).
* `Threads_proofs`, one section per component:
  * `KernelSound`, from `KernelAssumption` (cutting a name twice is cutting it once). `RouteDescribes` is not
    inductive: a thread half way through filling the route must already own its part of it. `KInv` adds
    that an answer is an entry for the cut name (`AnswersFit`), that two threads between the memset and
    the end of the use are both in `mixed` (`SharersMixed`), and that a thread outside `mixed` finds in the
    route the fields it has filled so far (`FieldsOwn`).
  * `ChangesAreAnnounced`: `ChangesCounted` counts, per operation, the commands that have run together with
    those that still may, against the lines written. The count is of a set of threads, so the lemmas are
    about its cardinality.
  * `SignaturesStayValid`: the id counter is above every id given (`KeysShape`), and every pair in the table,
    in a thread's copy and in a signature is the one its id was given with (`PairsGiven`).
  * `TableIsDurable`, `RightsOutliveRestart`: without overlap at most one thread is in a save (`FewSave`), its
    temporary file holds what it has written so far (`SaveExact`), and the file is the last acknowledged
    table (`FileCurrent`). The second theorem is an action property of the restart, by what writing and
    reading a table does to it.
  * `SocketsStayTracked`: between the system call and the change of the table an entry may be without
    socket or a socket without entry. `NetworkInv` says, for each step of each call, which of the two it is
    (`CallFits`, `CallPlaced`), that a descriptor has one entry and one call (`OneEntry`, `CallsApart`), and which
    sockets an entry may be of (`EntryFits`).
  * `ParamsDoPersist`, from `ParamStoreAssumption` (keys and values are texts, no key is empty). The
    invariant is about one process: what it has read and changed (`OwnChange`), and that nobody else
    runs if it is alone (`AloneIndeed`). The work is in the lemmas on the file: a tree that is written and
    read again gives every key its trimmed value (`ReadBack`), also where one key is a prefix of another.
  * `ChildrenStayKnown`, `SignalsReachTheirs`, `VerdictsAreOwn`, for systems in which pids come round only where
    tasks are the only children (`PidsApart`; pmp_task.c:68), and for the third where then every task
    gets its entry (`TasksApart`). `TasksUnreaped` is not inductive: `task_reap` collects any child and marks the
    newest entry with its pid. `ChildrenInv` adds that a task's process has the newest entry with its
    pid (`NewestEntry`), that the process of another plugin has a pid of no entry (`NoStrangers`), that pids
    which do not come round are given out in order (`PidsInTurn`), and that a pid a caller, a session or the
    shell has kept is of its process or of none (`PidsKept`).

* `Libraries_proofs`, one section per component:
  * `ShellIsSound`, from `InterpreterAssumption`: `ShellInv` says where in the ring each of the last lines stands (`RingNewest`, the
    arithmetic of `SlotOf` around the end of the ring) and that the table has one entry for every name
    that was set. The rest follows for every way of asking.
  * `SealingIsSound`, from `CryptoAssumption` (the width is a multiple of the block and large enough for
    keys, tags and signatures). `CryptoInv` keeps request and answer of the last exchange; the work is in one
    lemma per cipher, which follows the 32-bit length through padding, the test of the capacity and the
    sign, and one per cipher that says what opening does with each alteration. For SP the alterations
    include those that move a block between the parts of what is authenticated.
  * `LinesKeepOrder`, from `ConsoleAssumption` (texts are sequences of characters). The invariant `Orderly` adds
    that ids count the sessions from the end of the list, so that a handle finds its own text after
    others were opened.
  * `AuditIsSound`, from `AuditAssumption` and for circumstances that are `SafeWorld`: no full disk together
    with a restart or a changing configuration (audit_impl.c:245), no single file, which is truncated,
    where a call may be cut off or the configuration changes (:256, :259), and no cut-off call while
    `max_files` changes (:269). Outside of them the property is false; section 5 says how. The worlds of
    `MCLibraries` satisfy it. `AuditInv` says that older segments hold smaller numbers (`Ordered`), that the
    next number is above those in the directory and those given (`Ahead`), where a rotation is (`Turning`),
    that nothing between two events is missing in the segments that stay (`Gapless`) and that the newest
    is kept (`Latest`). The hardest step is the first append after a restart: `TopFilled` puts the newest
    event into one of the first two segments, so the first one that is not empty has it (`SeedFresh`).
    `Collected` and `CutOff` say what a query finds, with and without a limit.
  * `ResultsAreExact`, from `CompressAssumption` (sizes are not zero, texts are sequences of bytes), for texts of
    any length and chunks and units of any size. `LiveInv` has two parts. While a call compresses, the
    output, what stdio buffers, what waits in the encoder and what is still ahead of it are together the
    whole stream (`EncodesWell`): the input may be cut into chunks anywhere, since a text cut at a multiple
    of `Ratio` has the units of its two parts (`UnitsApart`). The whole stream is that of what can be read
    (`was`), which a failing read cuts down from what the input holds (`held`, `HeldWell`): `ReadFailing` and
    `EncoderCut` show that the call is then where it would be with the shorter input. While it decompresses, what was given out and
    what the decoder keeps are the bytes of the cells it has taken, none of which is a tail (`DecodesWell`):
    a tail ends the stream, so OK means that all of it was taken, and no input left without one means
    that the stream is cut. A call fails only when it is excused: a fault, a kind that is not supported,
    a stream that is not whole or does not fit (`Excused`). `BytesJoined` and `UnitsGive` are the lemmas on
    the recursive function `Bytes`.
* `Permission_proofs`, section on `Matching`, from `MatchingAssumption` (patterns are sequences of characters,
  segments numbers or none): `MatchersAreExact`. `glob_match` and its meaning are compared at every place
  of the pattern: the places of the text from where on the rest of the pattern can be laid (`Laid`) obey the
  equation of the function (`LaidRests`). For versions, `OneNumber` shows that minor version and patch
  compare as one number does, and `CmpNoOlder` looks at the first segment that differs.
* `Permission_proofs`, section on `Executables`, from `LoaderAssumption` (the limits are not zero, a name fits
  in the buffer) and `ImagesAssumption` (what the ELF format wants of an image for this machine; of other
  files nothing but types): `LoaderIsSound`. `LoaderInv` says that handles are resident only if the image is
  a library, that what was started is none, and that numbers given are below the next one. The work is
  in the pure part: `LibraryDeclared` compares what the loader reads of the program headers with what the
  file declares, `InterpreterNamed` finds the first word after "#!", and `NamesGiven` follows the loop over the
  sections by induction: names stay in order (`NamesOrdered`), and as long as they need less than what is
  left none is skipped (`TakenUpto`).
* `ListFacts` has the lemmas on sequences, and an induction over the numbers that needs no operator as a
  parameter: `LeastNumber` takes the smallest of the intervals `1 .. n` under strict inclusion, which the
  library proves well-founded on finite sets, and `ByInduction` is about membership in a set. From it
  come `FlattenExists`, `FlattenAgree` and `Flattened`, what `FlattenSeq` gives for a list with one more
  member, although it is defined by a recursive function, and `Unrolled`: a recursive function exists whose
  steps stay in a set.

Model-checked only is liveness (`NotifyReturns`, `CallsReturn`, `TermHeard`, `ShellReturns`, `CompressReturns`): it
needs ENABLED, which TLAPS does not treat.

## 8. Not modelled, and the plan

Not modelled, and why:

* log: formats and writes lines; level and sink are set before threads run.
* runtime forwarding (`runtime.c`): passes LOG and PARAM calls on to the bus, without state of its own.
* the other commands of the command line: they print tables or call start, stop and unload of the bus.
* hap, and fsp apart from its paths: one read of `/proc` or `/sys`, or one system call, per operation and
  nothing kept between calls.
* loader: fields of the ELF header that are only passed on (entry point, machine, addresses); a file that
  changes between the two or three times it is read; two threads that load at once (the counter has no
  lock); the self tests.
* encodings (hex, base64), random numbers, key generation and PEM in sp and crypto; the bytes that
  libcrypto, openssl and the codecs compute, which are external and symbolic here.
* data transfer and name resolution in np; bytes and window sizes in terminal; filters, export and size
  configuration in audit; the queries of git and history rewriting by filter-repo.
* out of memory, except where a model names it (`NoMemory`, `Faults`, the failing steps of `Processes`).

`resolve` in metaproto returns a borrowed pointer that the caller must not race with unregister: the
models assume callers keep that duty.

What would add most next, in this order:

1. `Repository` composed with `Param`, in the place of the external git steps of the revision hook.
2. Encodings against reference definitions.
