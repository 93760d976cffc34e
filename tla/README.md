# Verification of kea_python

kea_python embeds a Python interpreter in the Kea DHCP server: a Kea hook
library (`keahook/`, libkea_python.so) loads a Python extension module
(`keamodule/`, `kea.so`), which loads the user's hook module and gives it
wrappers around Kea's own objects. This directory holds TLA+ models of it, the
TLC configurations that check them, and proofs for TLAPS. Line numbers refer to
the files under `src/`; `PROJECT.json` maps every definition that models code to
the lines it stands for.

Contents: [inventory](#inventory), [hard behaviours](#what-is-hard-here),
[modules](#modules-and-the-code-they-model), [runs](#runs),
[fairness](#fairness), [proofs](#proofs), [disagreements found](#where-code-and-documents-disagree),
[not modelled](#what-is-not-modelled), [plan](#plan), [how to run](#running-the-checks).

## Inventory

| Component | Source | State it keeps | Operations |
|---|---|---|---|
| GIL bridge | `capsule.cc:13-34`, `callout_closure.cc:18`, `callout_handle.cc:124` | statics `thread_state`, `embedded_mode`, `allowed_threads`; the GIL itself | `begin_allow_threads`, `end_allow_threads`, entry and return of a callout |
| Context objects | `callout_handle.cc` | a map of names to `ObjectHolder` in each Kea CalloutHandle, one Python reference in each | `setContext`, `getContext`, `deleteContext`, `~ObjectHolder` |
| Callout registry | `callouts.cc`, `callout_closure.cc`, `library_handle.cc` | dict `callout_closures`, ffi closures, Kea's callout table | `register_callouts`, `registerCommandCallout`, `unregister_callouts` |
| Load and unload | `load_unload.cc`, `capsule.cc`, `errors.cc` | `libpython`, resolved symbols, `kea_capsule`, `hook_module`, `traceback_module`, `kea.logger` | `load`, `unload`, `Kea_Load`, `Kea_Unload` |
| Leases | `lease_mgr.cc`, `lease4.cc`, `examples/lease-cmds` | Kea's lease database, shared with other servers | `lease4-add`, `-get`, `-get-all`, `-get-page`, `-get-by-*`, `-del`, `-update`, `-wipe` |
| Reservations | `host_mgr.cc`, `host_reservation_parser4.cc`, `examples/host-cmds` | hosts of the configuration and of the host databases; the client's page position | `reservation-add`, `-get`, `-get-all`, `-get-page`, `-del` |
| Configuration backend | `config_backend_pool_dhcp4.cc`, `config_backend_dhcp4_mgr.cc`, `examples/cb-cmds` | servers, subnets and classes in a shared database | `remote-server4-*`, `remote-subnet4-*`, `remote-class4-*` |
| Packet callouts | `pkt4.cc`, `option.cc`, `lease4.cc`, `examples/facebook-trick`, `examples/stress-test` | query, response, lease, context and status of one packet | `pkt4_receive`, `lease4_select`, `pkt4_send` |
| Configuration objects | `cfg_mgr.cc`, `srv_config.cc`, `cfg_subnets4.cc`, `subnet4.cc` | Python wrappers with `shared_ptr`s into the current and the staging configuration | add, replace, del, get, select, getAll, clear; server tags |
| Element conversion | `utils.cc` | CPython's error indicator | `element_to_object`, `object_to_element`, the checks of attribute values |
| Hosts, classes, parsers | `host.cc`, `client_class_*.cc`, `subnet4_config_parser.cc` | one wrapped Kea object each | constructors, accessors, `parse` |
| Callout manager, server | `callout_manager.cc`, `server.cc`, `kea.cc`, `logger_manager.cc` | a Kea process without its daemon, for unit tests | construction, forwarding to Kea |
| Tables | `constants.cc`, `messages.cc`, `version.cc` | none | none |
| capture-packets | `examples/capture-packets` | an output file | `pkt4_receive`, `pkt4_send` |

How they interact:

- Kea calls `load()` of libkea_python.so. It opens libpython, resolves four
  symbols, initialises the interpreter, imports the `_C_API` capsule of `kea.so`
  and calls `Kea_Load`, which imports the hook module, calls its `load()` and
  registers a callout for every function of it that is named like a hook. On
  success `Kea_Load` sets `embedded_mode` and releases the GIL.
- Each registered callable is reached through a libffi closure. The closure's
  code address goes to Kea, and a capsule that owns the closure goes into a Python dict
  under the callout's name. Only the dict knows when the closure may be freed;
  only Kea knows when it may be called.
- Kea's thread calls a closure: `end_allow_threads` takes the GIL, a Python
  `CalloutHandle` is made for the C++ one, the callable runs, an exception is
  logged, `begin_allow_threads` releases the GIL. Between callouts the threads
  that the hook module started (for instance a metrics server) run.
- Kea destroys a CalloutHandle outside any callout; `~ObjectHolder` then enters
  Python by itself. The same destructor also runs inside Python when Python code
  replaces, deletes or holds the last reference to what contains the holder.
- A command callout is ordinary Python that makes several calls to a lease
  manager, a host manager or a configuration backend. Those databases are
  shared with other servers, so between two calls they may change.
- The wrappers keep a `shared_ptr` to the Kea object they wrap, while Kea commits
  configurations and drops its own pointers.

What makes each correct: code runs in Python only with the GIL, and Kea never
waits for itself; a table entry always leads to a live closure that runs what
was registered; whatever step of `load()` fails, `unload()` gives everything
back; a command's answer says what the command did; a page-wise reader misses
nothing that stays; a served client gets the hook's address and no database
entry records it; a wrapper never outlives what it wraps, and nothing else does.

## What is hard here

`PROJECT.json` lists every hazard with its line. They group as follows.

- *Pairing of GIL calls.* `begin` and `end` are not recursive; the pair depends
  on one static boolean and on every entry from Kea being known. The store
  of the saved thread state happens after the GIL is gone (`capsule.cc:23`).
- *Split ownership of closures.* Error paths between "closure made", "in the dict"
  and "accepted by Kea" must each leave exactly one owner. Commands registered by
  a running callout change the dict behind Kea's table.
- *Half-done loads.* Kea calls `unload()` after a failed `load()`; statics of
  the hook library start afresh on a reload, those of the extension module
  survive in the process.
- *Commands over a database others change.* Find-then-delete, find-then-add,
  per-subnet loops and write-then-read-back.
- *Half-done commands.* Any call can throw, and a list may hold an element that
  does not parse.
- *A reader across many requests.* The page position is two numbers, over sources
  that grow and shrink.
- *Callouts that raise.* Kea logs the exception and goes on with whatever the
  callout had already changed.
- *Values that do not fit.* Ints beyond the width of a field or of a C long, strings
  that end at a NUL or have no UTF-8 form, values with no element. Each caller of a
  conversion treats its failure differently, and a setter may return with an error
  pending that only some later call, or the next callout, runs into.
- *Two ownership systems.* Python reference counts and `shared_ptr` counts
  meet in every wrapper; a wrapper of a const object has its other pointer null.

The example configurations turn Kea's multi-threading off and the hook library
does not export `multi_threading_compatible`, so there is one Kea thread; the
other threads are Python's.

## Modules and the code they model

Names in the models are the names in the code wherever TLA+ allows it.
Definitions whose comment begins with "Mutation:" are faulty variants that no specification
uses; each property is tried against one of them, to see that it can fail.

**GilBridge** (refines **Interpreter**). A thread is at a point `pc`: in Kea's
code, in Python, waiting for the GIL, in the C call of `end_allow_threads`
(`"end"`), dropping a reference (`"decref"`), about to call `PyEval_SaveThread`
(`"begin"`) or between that call and the store of its result (`"save"`). So
`Begin` and `Saved` are the two halves of `capsule.cc:23`, and every other thread may
run between them. `Load`, `LoadDone`, `LoadFails`, `Unload`, `Finalize` are the parts of
`Kea_Load` and `Kea_Unload` that touch the GIL; `Callout` and `CalloutReturns` are
`callout_closure.cc`; `KeaDrops` is Kea destroying a CalloutHandle;
`SetContext`, `ReplaceContext`, `Keep`, `Release` are what Python does to
contexts, followed by as many `End`/`Decref`/`Begin`/`Saved` rounds as there are
holders to destroy. `StartThread`, `Yield`, `Acquire`, `Block`, `Wake` are
CPython's own scheduling. `mode = "standalone"` is `kea.so` imported by an ordinary
python process, where `embedded_mode` stays false. What the module assumes
of the user is explicit in `Careless`: `"rebind"` (a bound context name is set
again or deleted), `"retain"` (a packet or handle is kept) and `"throw"` (a constructor
that does not catch Kea's exceptions is given data that Kea refuses; `Exits` then lets
the callout end in Kea's code without `begin_allow_threads`). `Interpreter` is
the promise: at most one thread inside, and changes of hand through nobody.

**CalloutRegistry** (refines **CalloutTable**). `heap` is closure memory, which is
reused after it is freed; `callout_closures` the dict; `table` Kea's callouts, each
a point, an address and the callable the registrar meant. `RegisterHook`,
`SkipHook`, `RejectHook`, `LoopEnds` are one round each of the loop in
`register_callouts`, with the refusal by Kea that leaves an exception set and
reports success (`callouts.cc:79`); `RegisterCommand` is
`registerCommandCallout`, in `load()`, in a callout or in a Python thread. Closure
creation fails at every early return (`RegisterCommandUnowned` is the mutant that
forgets one). `Unregister` is the library's side of unloading and `Deregister`
Kea's. `Distinct` says whether the hook module uses each name once. `CalloutTable`
promises that what was accepted for a point is what Kea runs there.

**HookLifecycle** extends CalloutRegistry with `at`, the next step of
`load()` or `unload()`, and the statics of both shared objects. Every step of
`load_unload.cc:93-147` and `capsule.cc:308-353` is an action that succeeds or goes to
`"failed"`, with what it leaves behind; the unload steps follow the code's
order and its tests of what is there. Registration and callouts are the registry's own
actions, taken inside the right stages and with the GIL.

**LeaseCmds**. `leases` is the database by address. A command is a record `cmd`
with what it has still to do; a step is one `LeaseMgr` call together with the Python
around it up to the next call. `Others` is any change another server may make
between two calls, `Throws` a call that raises. `answer`, `changes` and
`touched` record what was answered, what the command did and what others did
meanwhile. `build` is the Kea version, as far as `setup.py` and `keahook.py` tell versions apart (`Builds`):
whether the module has `getLease4`, whether its `deleteLease` takes an address or a lease, and which of them
`lease4-del` passes. It is chosen at the start and stays, so every run and every theorem is about all of
them, the default 3.0.0 included.

**HostCmds**. `hosts` by source (0 the configuration file, then the databases),
`next` the position the client will ask for. `GetPage` is `HostMgr::getPage4`
over the sources from `next.source_index` on, plus `reservation_get_page`, which
answers with the id of the page's last host; the limit is left open, so a page
may end at any host of its source. `Add` and `Delete` change the databases between
pages. `steady` is the set of hosts that were there all along.

**CbCmds**. One module for the three kinds of objects, because the commands have the
same shape: validate, then one pool call per element, then (for subnets)
one read-back per element. `op` is the command with its elements, its phase, its place
in the list and what it has answered. A list may hold an element that does not
parse; classes and servers fail at it, subnets are parsed before the first write.
`before` remembers the database, and is forgotten as soon as anyone else writes.

**PacketHooks**. One client's packets, one at a time, through receive, allocation or renewal,
`lease4_select`, the response and `pkt4_send`. A callout that raises keeps what it had done.
`query.agent` is what option 82 says: nothing, an address or garbage. `saved` is
the lease Kea stores. Both example hooks are in one module; `hook` says which
is loaded. `pkt4_send` is several steps: `Pkt4Send` up to `setYiaddr`, then `DelOption` and `AddOption` for each of the
configured options (`left` has those still to do, in some order), and `Return`. Kea's `addOption` raises when the
type is in the packet already, which would leave the rest of the options as Kea made them.

**ConfigObjects**. Kea's subnets and configurations with their `shared_ptr`
counts, Python wrappers with their reference counts, and the references a
program holds. Every method of `CfgSubnets4` and the tag methods of `Subnet4`
is an action with its increments and decrements; `Commit` is Kea
replacing the current configuration. A use of a null pointer sets `aborted`.

**Elements**. The two conversions of `utils.cc` call themselves, so they are recursive functions:
`object_to_element` on `Objects` and `element_to_object` on `JSON`, with one level of each, `ElementOf` and `ObjectOf`,
as an operator over the conversion of the parts. Both sets hold a value together with all it contains (`ValuesAssumption`),
and `Depth` says how deep it is nested: nothing contains itself and nothing is nested deeper than the C stack bears
(`DepthAssumption`), or the code's recursion would not end. `JSON` has what `Objects` convert to (`ConvertedAssumption`).
A string is a sequence of characters of which the conversions tell apart a NUL, a lone surrogate and
bytes that are not UTF-8; a dict that Python passes is the sequence of its items. `object_to_element`
yields the element and whether an error is pending, and of a container the outcome of
its first failing item: a null pointer (with an exception), or a C++ exception where a
`std::string` is made from NULL. `Readings` is the reference: what a reader may
see of a value, stated without either conversion.

**CallArguments** extends it with the calls that take values. A behaviour is about one
`field` (no call touches two) and any number of callouts. Each setter is an operator
with the code's name that gives the new value of the field, whether the error indicator
is left set, and whether the function returns, raises or aborts the server; `Set` is the
call around it. What is said of one field is an operator on the field (`Outcomes`, `Shows`, `Faithful`, `InType`), and
the properties apply it to the field of the behaviour. In `Set` CPython's rules matter: a method that returns a value with an error
pending raises SystemError, an attribute setter that returns 0 does not, and the error
surfaces later (`Surface`), is replaced by another exception (`Raise`), or meets the end of the
callout. The error indicator is one for the whole thread: `SetElsewhere` is an attribute of another object that leaves
it set, so that a method of the field is called with an error pending. `Return` and `Propagate` are `callout_closure.cc:27-41` and `log_python_traceback`.
`wrong` is a history variable: the field, or an attribute of another object, does not show what a call
was given and nobody has been told. Widths are powers of `Base`, the number of values of a byte.

The modules named `MC...` give values that a `.cfg` cannot write (sequences, functions,
symmetry sets) and add nothing else. HookLifecycle is the module that composes; the
command modules are separate because a command is one callout, during which
nothing else of the library runs in Kea's thread, and they share no state but
Kea's databases, whose other users each module has as an action (`Others`, `Add`,
`Delete`).

## Runs

With two workers `arguments` takes about a minute, every other run less than half a minute. Deadlock is checked in every
run. `PROJECT.json` names each run's properties, and for each property of a passing
run one fault (a definition marked "Mutation:") that breaks it under the same configuration.

| Run | Instance | Distinct states | Shows |
|---|---|---|---|
| gil | Kea's thread, 2 Python threads, 1 handle, 2 names, `Careless = {}` | 1 199 | `PythonHasGil`, `KeaLeavesPython`, `NoSelfDeadlock`, progress (`KeaGetsBack`, `WorkersRun`), refinement `OneThreadInPython` |
| gil_rebind | the same, `Careless = {"rebind"}` | violation | `PythonHasGil` fails: see below |
| gil_throw | the same, `Careless = {"throw"}` | violation | `KeaLeavesPython` fails: see below |
| registry_duplicate | 2 hooks, 2 commands, 2 handlers, 3 closures, `Distinct = FALSE` | violation | `CalloutsIntact` fails: see below |
| lifecycle | 2 hooks, 2 commands, 2 handlers, 3 closures, `MayStayMapped = FALSE` | 24 859 | `CalloutsIntact`, `ClosuresOwned`, refinement `KeepsPromise`, `UnloadCallsLivePython`, `LoadedIsComplete`, `NothingLeft`, `LoadSettles` |
| leases | 5 builds, 3 addresses in 2 subnets, 1 client, 2 expiry times | 129 447 | `FailureChangesNothing`, `ChangesWhatItSays`, `WipeReported`, `GetAllComplete`, `DeletesPresent` |
| leases_added | as leases | violation | `AddedIsStored` fails: see below |
| hosts | configuration and 2 databases, 2 host ids | 7 717 | `PagesComplete`, `PagesOnce`, `PagingEnds` |
| cb | 2 objects, 2 values, 2 servers, lists of at most 2 elements | about 138 000 | `SetWritesPrefix`, `AnswersWhatIsStored`, `DeleteCountsGone` |
| packets | 2 pool addresses, 2 requested addresses, 2 option types, both hooks | 3 201 | `HookServesClient`, `NothingSaved`, `OwnAddress` |
| objects | 2 subnets, 3 configurations, 3 Python objects, ids {1, 2}, 1 tag | 87 756 | `NoDangling`, `NoLeak` |
| arguments | bytes of 2 values; 11 ints, 6 strings, about 50 nested values, 7 elements of Kea | 200 086 | `ReadsBack`, `RefusedChangesNothing`, `ErrorsReachKea` |

Why the bounds are enough to meet the interesting cases:

- *gil*. Two Python threads, so one can take the GIL while another waits and Kea's
  thread asks for it; two names, so that one destructor is followed by another with
  a full release and reacquisition between. The handle is reused, dropped and bound again.
  The module bounds nothing itself; all sets are finite.
- *lifecycle, registry_duplicate*. Three closures for four names, so that freed
  memory is soon used again; making a closure may fail at any time. Hooks
  and commands share the dict but not Kea's points. Loads, failures and reloads
  repeat without limit. `MayStayMapped = FALSE` says that closing
  libkea_python.so unmaps it, so that its statics start afresh.
- *leases*. A subnet with two addresses, so that a wipe or a listing may find more
  than one lease, and a second subnet, so that there is a second call; a
  client may have several leases, which `getLease4` by client then does not find uniquely; two expiry times tell a
  renewed lease from the one that was found. The builds are all the combinations that a version can give:
before 1.7.3, 1.7.3, 1.7.4 to 1.9.3, 1.7.10, and 1.9.4 on.
- *hosts*. Three sources, so the position crosses a source twice, once with an
  empty one between; the same id in several sources, because ids are per source;
  two ids, so a page may end inside a source.
- *cb*. Lists with the same element twice, with a malformed element first or
  last, and with one that is not in the database; tag lists that are empty, `all`, a
  server, `any` (refused for writes), malformed, or of two servers. `MaxElems` is the bound.
- *packets*. Two addresses of each kind tell "this query's" from "another's";
  a client keeps its lease from one packet to the next, and packets go on for ever. Two option types,
  each there or not in Kea's response, so that the loop may stop with one done and one not.
- *arguments*. With `Base = 2` a byte has two values, 32 bits have 16 and 64 bits 256, so
  that the ints on both sides of every limit are few; the formulas are those of `Base = 256`.
  Lists and dicts of up to two items, nested once more, meet every order of a good,
  a failing and an overflowing item, and keys that are equal up to a NUL. Values are nested at most twice (`MaxDepth = 2`). Which texts are
  addresses is reduced to digits and hexadecimal digits; an empty hardware address is refused.
- *objects*. Three configurations: current, staging, and one that only Python
  holds after a commit. Three Python objects: a configuration and two
  subnets, or two wrappers of one subnet and the one it came from. A program keeps at most
  `MaxHeld = 2` references to one object. `ConstSelect = TRUE` is a build for Kea
  3.0.0 or later; `PassesConst = FALSE` keeps const subnets away from `add` and
  `replace` (see the disagreements below). Addresses are interchangeable, hence the symmetry sets; no
  liveness is checked in that run.

How to read some of the properties:

- `KeaLeavesPython` is what makes the Python threads' progress possible: between
  callouts the GIL is not with Kea, and the saved state is that of Kea's own thread.
- `CalloutsIntact`: every entry of Kea's table leads to a closure that is alive and runs
  the callable that was registered there. `ClosuresOwned`: every live closure is in the dict
  exactly once.
- `NothingLeft` looks at the moment Kea has closed the library, after a complete or a
  failed load; `UnloadCallsLivePython` looks ahead at an unload from wherever
  load stopped.
- `ChangesWhatItSays` and `DeletesPresent` together say what each build's `lease4-del` does. Before 1.7.3 the lease that
  goes is whatever is at the address, so a lease another server renewed since it was found goes too; from 1.7.4 to
  1.9.3 only the one that was found goes; 1.7.3, 1.7.10 and 1.9.4 on, 3.0.0 included, never delete anything.
  A lease that is not there is answered 1, not the 3 that the test expects (`test_lease_cmds.py:693`).
- `WipeReported` speaks of a wipe that an exception cut short too: what is gone is whole subnets, and what is not
  reported is their number.
- `HookServesClient` follows a packet from option 82 to what leaves: all of it is the hook's, or all of it Kea's, and
  an ACK without an address is the one thing in between (a NAK whose `pkt4_send` raised).
- `GetAllComplete` and `ChangesWhatItSays` leave out addresses that other
  servers touched during the command, since no one can promise those. The
  properties of the configuration backend speak of commands during which nobody
  else wrote, for the same reason; the other interleavings are in the model and
  are checked by the type invariant only.
- `ReadsBack` speaks of calls that neither raised nor left an error; `RefusedChangesNothing` of
  those that raised, and names the three exceptions the code has (a conversion that yields no element, an int beyond
  a C long, a method that is called with an error pending and may do all it was asked before it raises); `ErrorsReachKea` of the calls in between:
  whatever they stored wrongly, either an exception was raised in Python or Kea hears a failure.
- `OwnAddress` is about the context that `pkt4_receive` leaves: it is bound to
  the packet, so no later packet is given a lease of, or answered with, an earlier one's address.

## Fairness

Safety runs use `Init /\ [][Next]_vars`. Three runs state fairness.

- *GilBridge*. Weak fairness of `Decref`, `Begin` and `Saved`: a thread that is in the
  bridge's own C code executes it. Strong fairness of `Yield`, `Acquire` and
  `End`: CPython's evaluation loop drops the GIL on request after the switch
  interval and wakes a waiter, so a thread for which the GIL becomes free again and again gets
  it. Strong fairness of `CalloutReturns`, `LoadDone \/ LoadFails` and `Finalize`: callouts,
  `load()` and interpreter shutdown end; they may be interrupted by the GIL passing to other threads,
  which is why weak fairness would say nothing. Weak fairness of the unload after a failed load,
  which Kea's library manager calls itself. There is no fairness for new callouts,
  for unloading a working library, for what Python does to contexts, or for workers waking up.
- *HookLifecycle*. Neither `load()` nor `unload()` stops half-way (weak fairness
  of their steps and of the registration loop), the hook module's `load()`
  returns although it may register commands first (strong fairness of `LoadReturns`).
  Whether a working library is ever unloaded is left open.
- *HostCmds*. Weak fairness of `GetPage \/ GetLastPage`: the client
  keeps asking. Nothing is assumed of those who add and delete hosts, who may do so
  for ever; the ids are finitely many.

## Proofs

TLAPS checks the theorems below for every value of the constants that satisfies
the modules' ASSUMEs; TLC evaluates those on each run. Each proof module
has one inductive invariant `IInv` (`LInv` for the library's life, `Inv` in CallArguments_proofs), checked with TLC before it was
proved, lemmas that each action or group of actions preserves it, and a theorem `Invariance`
(`LifecycleInvariance`) that the others follow from.

**GilBridge_proofs**, under `Careless \subseteq {"throw"}` (contexts are neither rebound nor
retained; constructors may throw): `TypeCorrect`, `GilSafety` (PythonHasGil),
`NoSelfDeadlockHolds`, `Refinement` (OneThreadInPython), and under `Careless = {}`
`KeaLeavesPythonHolds`. `PythonHasGil` is not inductive: whether
`end_allow_threads` takes the GIL depends on `allowed_threads`, whose meaning depends on
how far the library's life has got. `StageInv` says, for each stage (loading,
failed, loaded, unloading), who may have the GIL and what the statics are;
`Thrown` names the state in which an exception of Kea has gone past
`begin_allow_threads` and Kea's thread keeps the GIL in its own code;
`EmbeddedInv` adds that destructors run only in Kea's own thread and never from Python;
`StandaloneInv` is the other mode, in which the bridge keeps the GIL across
itself. So an exception costs Kea's thread its promise to let workers run (the run
that expects a violation of it shows how), never the safety of Python. The refinement follows
because executing threads have the GIL and only one thread changes its point in a step.

**HookLifecycle_proofs**, under `Distinct` (no name is registered twice), has the registry's
proofs first: `CalloutsIntactHolds`, `ClosuresOwnedHolds`, `Refinement` (KeepsPromise), all of the
registry's own specification. The link between Kea's table and
the heap goes through the dict: `TableInDict` says the dict has each
table entry's address under that entry's name. To keep it, a name must not be
registered twice, and `HooksAhead` says that the loop has not
yet used the names it is to come to. `EmptyOutside` covers the time between libraries.
Then the life of the library: `LifecycleUsesRegistry`
shows that load(), unload() and Kea together implement the registry's specification, so its
theorems hold within the library (`LibraryKeepsPromise`). `LInv` says what is up at each step:
`StageAt` where the registry is, `PythonAt` the interpreter, the GIL and the statics of
the bridge, `HeldAt` which of the capsule, the logger, the hook module and the traceback module are held.
From it follow `LifecycleTypeCorrect`, `LoadedIsCompleteHolds` and, with the
registry's invariant, `NothingLeftHolds`: wherever a load failed, unload() leaves nothing.
`UnloadCallsLivePythonHolds` also needs `~MayStayMapped`: `NoneStale` holds because
libkea_python.so's statics start afresh when it is opened again.

**LeaseCmds_proofs**: `TypeCorrect`, `FailureChangesNothingHolds`, `ChangesWhatItSaysHolds`,
`WipeReportedHolds`, `GetAllCompleteHolds`, `DeletesPresentHolds`, in every build and while other servers write to the
shared database between any two calls. `FoundOrTouched` says that the lease lease4-del has found is one that was
asked for, and still there or touched by another server. `CollectedSoFar` and `WipedSoFar` divide the subnets in those a loop is
through with and those still to do; what they say exempts addresses another server touched.
`Addrs` is finite, since the answer to a wipe is a number: it is the size of `changes`.

**CbCmds_proofs**: `TypeCorrect`, `SetWritesPrefixHolds`, `AnswersWhatIsStoredHolds`,
`DeleteCountsGoneHolds`, for lists of any length and whatever call throws. `WrittenSoFar`
says that there is an `n`, one behind the position, such that the database is what
applying the first `n` elements makes of it; `ReadSoFar` that all are applied and what was read back is what is
there; `DeletedSoFar` that the count is the size of what is gone. `NoneAssumption` keeps the absent
object apart from values.

**ConfigObjects_proofs**: `TypeCorrect`, `NoDanglingHolds`, `NoLeakHolds`, for any finite
sets of addresses, any ids and tags, and whether or not const objects are passed on
(`PassesConst`). `SubnetInv` and `ConfigInv` say that each use_count is the number of owners:
Python wrappers, configurations, and for a configuration Kea's two pointers to one. `DifferAtOne`
is what each step relies on: sets that differ at most in `x` differ in size by whether `x` is
in them. The properties alone are not inductive: subnets of one configuration need different ids, or
a replace could put in a subnet that is there and count it twice.

**HostCmds_proofs**, without assumptions beyond the ASSUMEs: `TypeCorrect`,
`Completeness` (PagesComplete), `NoDuplicates` (PagesOnce). The position
divides the hosts in two: everything delivered is behind it (`Position`), and
every host that stays and is behind it was delivered (`SteadyDelivered`). Both survive
additions and deletions, which is the point of paging by id and not by offset.

**PacketHooks_proofs**: `TypeCorrect`, `ClientServed` (HookServesClient),
`DatabaseClean` (NothingSaved), `NobodyElsesAddress` (OwnAddress). The
invariant follows an address through the packet: `ContextIsOwn` (the context is what this query
said), `LeaseIsOwn` (the lease is Kea's, or that context, and then a request is
marked to be skipped), `ResponseIsOwn`. `ResponseSoFar` is the loop of `pkt4_send`: the options that are done are the
hook's, and the one about to be added is not in the packet, so `addOption` cannot raise and no response is half
Kea's and half the hook's, however many options there are.

**CallArguments_proofs**: `RoundTrip`, `TypeCorrect`, `ReadsBackHolds`, `RefusedChangesNothingHolds`,
`ErrorsReachKeaHolds`, for any even number of values of a byte, any ints, texts, blobs, Python values and elements
of Kea's, however deep they are nested. The argument has three layers.

- *Conversions.* The provers know neither that a recursive function exists nor induction over nested
  values. Both come from the least number principle (`Least`, from the library's `WFMin`): if something fails for some value, it fails for one
  nested least deep, of whose parts it is true (`OnValues`). `RoundTrip` is the result: an object that
  `object_to_element` takes without an error is an element that Python reads as one of the object's `Readings`,
  a dict with keys equal up to a NUL included.
- *Numbers and strings.* `NumberIsRead`: a number that an option stores in its bytes reads as itself from as many
  bytes, and as its leading bytes from fewer. `NumberFaithful` is about numbers masked to the width of their field,
  `CutIs` and `Texts` about strings that end at a NUL.
- *Calls.* `OutcomesSound` puts both together, field by field (`Sound`): what a call returns without an error
  shows as what it was given, only attributes and conversions return with an error, a call that raises
  keeps the value, and only the calls that `RefusedChangesNothing` names abort. A call that found an error
pending did all that it says or, like any refused call, nothing.

`Inv` then adds what the callout's steps need: Kea has heard nothing before the callout ends, and in Python
a wrong value has its error pending. Without the latter `ErrorsReachKea` is not inductive: it
speaks of what Kea hears at the end, and says nothing of the moment the call returned.

Model-checked only: the liveness properties (`KeaGetsBack`, `WorkersRun`,
`LoadSettles`, `PagingEnds`), which are beyond the proof system. Every other property of a passing run
is a theorem.

## Where code and documents disagree

Four runs end in a violation, each of something the repository itself states:

1. *gil_rebind* (`callout_handle.cc:127`). "Kea caused this - get the GIL" is
   not true when Python rebinds or deletes a context name: the old `ObjectHolder` is
   destroyed inside Python, `end_allow_threads` does nothing and `begin_allow_threads`
   releases the GIL under the running callout.
2. *registry_duplicate* (`callouts.cc:34`). A name registered twice frees the first
   closure while Kea's table still has its address.
3. *gil_throw* (`pkt4.cc:501`). "Going back into Kea - give up the GIL" (`callout_closure.cc:45`) does
   not happen when a constructor of Pkt4, Option or Server throws Kea's exception: it
   unwinds past `begin_allow_threads`, and Kea's thread keeps the GIL until a later callout
   returns properly. Logging an exception whose text has a lone surrogate does the same (`errors.cc:93`).
4. *leases_added* (`lease_mgr.cc:194`). The bool of `addLease` is dropped; the command
   says "added" of a lease that was not.

Met while modelling, and not the subject of a run (they show in any one call, or
concern data that the models abstract):

- A server selector given as a list converts the list instead of its element
  (`config_backend_pool_dhcp4.cc:79`), so that every list raises, whatever the message at `:97` says.
- The examples' `remote-server4-del` is defined but never registered, and reads `server_tag`.
- `remote-class4-set` never advances `prev_name` (cb-cmds `keahook.py:471`), so the order
  of several classes is not the order of the list.
- `lease4-get-by-hostname` looks for its parameter in the string `'hostname'` and always
  fails (lease-cmds `keahook.py:261`); `lease4-del` of a missing lease answers 1 where its test expects 3;
  `parse_lease4` (`:113`) has the hostname test the wrong way round: it refuses a hostname that is given together
  with `fqdn-fwd` or `fqdn-rev`, saying "no hostname specified", and takes those without one. The models follow the code.
- A callout that Kea refuses leaves a Python error set while `register_callouts`
  reports success (`callouts.cc:79`): the library loads with the hooks before it only.
- `Kea_Unload` drops a reference of `LoggerType` that an early failure never took (`capsule.cc:351`).
- `setup.py:23` switches `deleteLease` at Kea 1.7.4 and lease-cmds `keahook.py:277` tests for 1.7.3, as strings, by
  which '1.7.10' is less than '1.7.3': in 1.7.3 and 1.7.10 `lease4-del` passes what the module does not take.
- `add`, `replace` and `HostMgr.add` do not look at `is_const` and use the null pointer of a const object.
- `Subnet4.__init__` called a second time never frees the first subnet (`subnet4.cc:260`).
- `getLease4` is built only for Kea before 1.9.4 (`lease_mgr.cc:42`, `setup.py:27`), but the default
  is 3.0.0 and many lease commands call it: in that build `lease4-get`, `lease4-del` and `force-create` fail
  for leases that are there (`DeletesPresent` says so of `lease4-del`).
- When closing libkea_python.so leaves it mapped, `kea_capsule` and the resolved symbols are not reset:
  with `MayStayMapped = TRUE` TLC finds `UnloadCallsLivePython` violated by a second load that fails at its
  parameters and is followed by a call of the first load's `Py_Finalize`.
- A method that is called while an error is pending (`lease.valid_lft = 2**70` before it, or a result beyond a C long
  in the callout before) does its work, a wipe of a subnet for instance, and then raises SystemError.
- CallArguments follows the code where it is surprising: an int beyond a C long is stored as -1 although the call
  raises SystemError; an attribute set to one raises nothing at once; `setContext` of a value with no element removes the
  context and then raises; the parsers end the server with such a value, and the hostname of a lease with a lone
  surrogate does; `wipeLeases4(2**32 + 5)` wipes subnet 5; a callout that returns 2\*\*32 is heard as
  success, and one that returns 2\*\*64 leaves its OverflowError to the next packet's callout.
- stress-test's `pkt4_receive` raises on a query without suboption 1, which does
  not drop the packet; its `pkt4_send` turns a NAK into an ACK before `getContext` raises.
- A client that renews is answered with the hook's address while the database keeps the
  lease Kea gave it before the hook was loaded or for a query without an address.

## What is not modelled

- *Host, ClientClassDef and the other wrappers*: one call of a Kea
  object each. Their effect on shared state is in the command modules; the ownership of a wrapper
  is shown for Subnet4 and CfgSubnets4, which have the same build. Of the parsers only what they do with a value
  that does not convert is modelled; what Kea makes of a configuration is Kea's.
- *Pkt4 and Option*: packing, unpacking, `toText` and suboptions. The accessors are in CallArguments.
- *CalloutManager, Server, LoggerManager, kea.cc*: for unit tests and
  scripts. What a script means for the GIL is mode `"standalone"` of GilBridge.
- *Constants, messages, version, capture-packets, build files and test scripts*: tables,
  output, or not part of the running system.
- *Kea itself*, CPython and libffi are external: modelled from how the code uses them.
- Within the modelled parts: reference counts other than those of configuration
  objects, wording of messages, lease fields other than address, subnet, client and expiry,
  server visibility and order of client classes, memory exhaustion in ConfigObjects; ids
  are members of small sets in the command modules, their width is in CallArguments;
  keys of Kea's own maps that contain a NUL.

## Plan

The order was: the GIL bridge first, because everything else relies on it; then the
ownership of callouts and the life of the library; then the commands, whose
callers rely on the answers; then packets and configuration objects, and the values that
calls take; then the proofs of all of them. What is next:

1. *Abstract specifications* for the commands: each command as one atomic change
   of the database, implemented by the stepwise one when nobody else writes and no call
   raises (a configuration backend command that fails leaves a prefix of its writes), with the refinement proved.
2. *Extensions*: an action for a second `Subnet4.__init__`; const hosts in HostCmds;
   the class order and `remote-server4-del` in CbCmds; a module in which HookLifecycle and GilBridge run together, with
   an abstract specification of the library as Kea sees it.

## Running the checks

    tlc -workers 2 -config GilBridge.cfg MCGilBridge
    tlapm GilBridge_proofs.tla

and likewise for the other modules: `PROJECT.json` pairs each `.cfg` with its
module under "runs". Beside the standard modules they need `Functions` and `SequencesExt` of the
community modules, and `TLAPS`, `FiniteSetTheorems`, `SequenceTheorems` and
`WellFoundedInduction` of the proof system's
library.
