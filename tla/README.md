# TLA+ specifications of lodel2

lodel2 is a content management framework in Python. An *editorial model*
describes classes of objects; the *LeAPI* turns it into Python classes whose
queries run on a *datasource* (MongoDB); plugins add data sources, session
handlers and a web interface; several worker processes of a web server run the
same code against the same database and the same session directory. This
directory specifies the parts of it whose correctness depends on order,
interleaving, failure or stale data, checks them with TLC on small instances,
and proves what can be proved for every instance with TLAPS.

All paths below are relative to the root of the repository.

## Inventory

| Component | State it keeps | Operations | What is hard | What makes it correct |
|---|---|---|---|---|
| MongoDB datasource, writes (`lodel/plugins/mongodb_datasource/datasource.py`) | one collection per concrete class | insert, update, delete, back references, new uids | no transaction, several workers, crashes, refusals half way | references and back references agree; uids are unique; damage does not spread |
| MongoDB datasource, select | none | select, filters, recursion over abstract classes | limit and offset arithmetic, conditions that replace one another | a selection has the objects asked for, a page those of its rank |
| MongoDB connections | reference counts per connection string | connect, destructor | counts shared by instances | a connection is closed once, by its last user |
| LeAPI queries (`lodel/leapi/query.py`) | prepared filters of a query object | set_query_filter, execute | filters changed by execute, exceptions | a query means the same at every execution |
| LeAPI objects (`lodel/leapi/leobject.py`) | values, initialized fields | set_data, update, insert, prepare_datas | partial instances, selections and writes that interleave | what is stored is valid, derived values fit |
| Data handlers (`lodel/leapi/datahandlers/`) | none | check, construct, consistency | values constructed from one another | each value is constructed after what it needs |
| Editorial model (`lodel/editorial_model/`, `lodel/leapi/lefactory.py`) | classes, groups, fields, active components | add, dependencies, translation, generation of code | groups that depend on each other, orders of dictionaries | no cycle of dependencies; the model survives its file; the generated code can be imported |
| Sessions (`lodel/plugins/filesystem_session/`, `ram_sessions/`) | token table per process, one file per session | start, restore, save, destroy, gc | one directory, many processes, expiry | a session lives until it expires or is destroyed |
| Client (`lodel/auth/client.py`) | one client per process | authenticate, restore, clean, destroy | reused request after request | a request sees its own session only |
| Plugins and hooks (`lodel/plugin/`) | registry, loaded flags, hook table | register, load, start | dependencies, load order, errors half way | a plugin is loaded once, after what it depends on; none is forgotten |
| Context (`lodel/context.py`) | current context, import hooks | new, set, enter, exit | one context for the whole process | a site is loaded from and answers in its own |
| Settings (`lodel/settings/`) | bootstrap state, option sets | two-pass load, getoption, setoption | order of loading and validation | settings start exactly if the files are in order |
| Web interface (`lodel/plugins/webui/`) | none of its own | request cycle | all of the above per request | sessions saved and released per request |
| Multisite server (`lodel/plugins/multisite/`) | one application per site | load the sites, dispatch requests | names exposed by the last site loaded | sites do not mix |

`PROJECT.json` lists the remaining components with the reason they are left
out, and, under `hazards`, what is hard to test in this code, each at its line.

How they interact: a web request enters `webui/run.py`, which restores the
client's session, routes to a controller, runs LeAPI queries and saves the
session; a query prepares its data with the data handlers (a uid handler asks
the datasource for a new number) and calls the read or write datasource; a
write datasource reads referenced objects back through LeAPI `get_from_uid`.
Plugins are loaded before all this and hand LeAPI its datasources through a
hook. Worker processes share nothing but the database and the session files.

## Plan

The order of the work and where it stands. The modules of one part do not use
those of another, except as the last column says.

| Part | Modules | Abstract specification or reference | Composes |
|---|---|---|---|
| 1. The MongoDB store | `MongoStore` and its companions | `RelationStore`, refined | |
| 2. Sessions and the client | `WebSessions` and its companions | `SessionStore`, refined | session handler, client, request cycle |
| 3. Booting an instance | `Hooks`, `Plugins`, `Settings`, `Boot` | `AllLoadable`, `SettingsInOrder`: the outcome as a function of the files | each extends the one before |
| 4. The editorial model | `EmGroups`, `EditorialModel`, `EmScripts` | `NoCycle`; the model before and after its file | `EmScripts` has the repository's models |
| 5. Queries and objects | `Queries`, `LeObjects` | `Asked`: the objects that satisfy the filters | API, datasource, controllers |
| 6. Contexts and sites | `Sites` | | contexts and the multisite server |

All six are written, checked, and have theorems: every safety property of a passing run
is proved. What is only model-checked is liveness: `RequestsEnd`,
`BootEnds` and `ScansEnd`. Next, in this order:

* update and delete of an abstract class with their back references, which
  joins `MongoStore` and `LeObjects`;
* the `ram_sessions` handler against `SessionStore`;
* the hooks of `LeQuery.execute` and the OR filters, once something uses them.

## The MongoDB store

### Modules

| Module | Contents |
|---|---|
| `MongoStore` | the datasource's write path: variables, actions, `Spec`, properties |
| `MongoStoreInv` | `IInv`, the inductive strengthening of `Contained`; `RefusalInv`, that of the properties of refusals; `InductiveInvariant`, both in a form TLC evaluates |
| `MongoStoreClaims` | statements of comments in the code, as properties |
| `RelationStore` | abstract: objects and a symmetric relation, atomic operations |
| `MongoStoreRefinement` | the refinement mapping from MongoStore to RelationStore, careful callers and their invariant |
| `MCMongoStore`, `MCMongoStoreRefinement` | schemas and initial databases for TLC |
| `MongoStoreProofs` | type correctness, containment of damage and the reasons for refusals, proved |
| `MongoStoreRefinementProofs` | the refinement, proved |

### State and actions

`docs` is the database: slots (MongoDB's `_id`) to documents with a class, a
uid and reference fields. `call[p]` is the datasource call worker `p` is in:
its program counter and the local variables of `update`, `delete`, `insert`,
`__update_backref_filtered` and `__update_backref` that outlive one database
call. Two history variables serve the properties only: `suspect`, the uids of
objects the store can not vouch for, and in a call, `alone` (no other call
overlapped it) and `dirty` (it has written).

Every action is one database call with the local computation around it:

| Action | Code |
|---|---|
| `Insert` | `UniqID.construct_data` → `new_numeric_id`: greatest uid plus one |
| `InsertDoc` | `insert`: the document is stored, then `__update_backref` starts |
| `Update` | `LeUpdateQuery._query`: objects selected, given fields merged |
| `FindForUpdate` | `update`: the current documents are read again |
| `SetDoc` | `__update_no_backref`: the whole document is overwritten |
| `Delete` | `delete` → `__update_backref_filtered`: documents read |
| `TakeOld` | `__update_backref_filtered`: next old document; `Changes` is what its fields and the new ones ask for |
| `ReadBref` | `__bref_get_check` and `__back_ref_upd_one_value`: one back reference read, its new value prepared in `upd_dict` |
| `ConsistencyError` | `MongoDbConsistencyError` from either: the call ends as it is |
| `WriteBref` | the final loop of `__update_backref`: one referenced document written |
| `RemoveDocs` | `delete`: what the filters match by now is removed |
| `Return` | the call returns |
| `Crash` | the worker is killed and replaced |

What the model abstracts: lists, tuples and sets of uids are sets (a list with a
repeated uid is not modelled); an update is of one object, given by its uid, and a
delete of a set of uids, which stands for the filters the code evaluates once to find
the back references and once more to remove the objects; a read of an abstract class
is one read although the code reads one collection after the other; values of other fields, casts
and data checks are left out; the checks `prepare_datas` makes on references
only read and reject nothing. The schema is that of
`editorial_models/em_simple.py`: every field with a back reference is the back
reference of that back reference, and reference fields default to None. The
update of an initialized instance (which casts the uid to a string),
`insert_multi` and writes on an abstract class are not modelled.

### Properties

* `TypeOK`: documents stay well formed: a positive uid, values only in the
  fields of the class, one uid at most in a single reference.
* `Contained`: no transaction protects the writes, so a failed, killed or
  overlapped operation can leave references that are not answered. They are
  only found where an endpoint is an object such an operation was asked to
  change, or one whose single reference was moved or overwritten. Everything
  else is consistent at every moment.
* `RefusalExplained`: `MongoDbConsistencyError` never hits a call on its own
  for which all is well; the five explanations it may have are listed. One of
  them is a defect: the loop over the values of a list looks the next value up in
  the class of the object it found first, and reports an object of a sibling
  class missing (`narrow`, `datasource.py:425`).
* `RefusedDeleteHarmless`: a delete of one sound object that may still be
  refused has written nothing.
* `InductiveInvariant`: whatever has gone wrong before, a call on its own still
  has to make exactly the changes that set a field and its back references
  apart, and what any call has prepared differs from the database only by what
  it and the calls that overlap it write.
* `ImplementsRelationStore`: for careful callers (`CarefulCallers`) and workers
  that are not killed an operation with all its back references is one step of
  a symmetric relation: an insert or update at the write of its object, a delete
  at its start.

### Runs

Fields and classes are those of `em_simple.py`. One or two workers, three
initial objects (four in the refinement), two operations started (`MaxOps`),
deletes of up to two objects (`MaxBundle`), five or six slots so that an
insert always finds one; in `store_parts` new references name the uids 1 and 3
only, an object of each class. Two operations are what it takes for an operation to
meet the damage of another or to overlap it; three initial objects allow two
values in a list and two classes of target. `Stop` is the only way the model
stops, so deadlock is checked in every run.

| Run | Instance | Shows |
|---|---|---|
| `store_texts` | 1 worker, articles, reviews and persons, lists | containment, explained refusals, harmless refused deletes |
| `store_parts` | 1 worker, link from parts to publications, list back | the same with single references, self references; types |
| `store_workers` | 2 workers, articles and persons | containment under every interleaving and crash; `IInv` and `RefusalInv`, the invariants of the proofs |
| `store_refinement` | 2 workers that take turns, issues, and articles and reviews in them by a single reference | refinement of RelationStore |

Three claims of comments do not hold, each because of what the code leaves
open. `MongoStoreClaims` states them and `tlc -config MCMongoStore_<claim>.cfg
MCMongoStore` refutes them: `uniq` ("Provides a new uniq numeric ID", with two
workers that ask before either has inserted), `exists` ("The object referenced
must exist", which nothing checks) and `move` (one call is not enough to move a
link from one object to another).

The invariant of the refinement proof is checked by hand, on the states of
`store_refinement`: `tlc -config MCMongoStoreRefinement_inv.cfg
MCMongoStoreRefinement`.

No fairness is assumed: all properties of this part are safety properties.

### Proved

`TypeCorrect` (module MongoStoreProofs): `Spec => []TypeOK`, for every schema
that satisfies `SchemaAssumption` and every set of initial databases that
satisfies `InitialAssumption`, any set of workers and any bound on operations.
`TypeOK` is not inductive: that `SetDoc` and `WriteBref` store values that suit
the class of the document follows from the values the calls carry. `TInv` adds
that (`Fits`) and that an insert's uid is positive. The proof has one lemma for
each way a worker's state changes (`TypedEnter`, `TypedGoto`, `TypedLeave`), one
for a document that is replaced (`StoreType`), and one step per action.

`DamageContained` (same module): `Spec => []Contained`, from
the same assumptions, so whatever the number of workers and of operations, with
every interleaving, refusal and crash. `Contained` alone is not inductive: that
a back reference written now makes the store consistent depends on what the
call read before, and that no other call came in between. `IInv` (module
MongoStoreInv) says so; `CallsAgreeWithStore` proves `Spec => []IInv`. Its
parts:

* of the calls (`CallInv`): what each program point fixes (`Shape`), that a
  single reference is only moved for a suspect object (`MovedIsSuspect`), and
  that a call counts as alone only if no other is active (`AloneIsAlone`);
* of the store (`StoreInv`): `Contained`; `PreparedAgrees`, that a value
  prepared for a list differs from the stored one only by what this call or
  the others are changing; and `AloneProgress`, for a call that is alone: which
  references it still has to answer (`WriteProgress`, `DeleteProgress`) or has
  just made unanswered (`FreshUpdate`).

A call that others overlap has all its targets in quarantine as soon as it has
written and leaves them suspect, so for it `PreparedAgrees` is enough; only the
return of a call that was alone lifts a quarantine, and there `AloneProgress`
says that nothing is left to do. The proof has one lemma per action that says
what the action does to call and store (`InsertDocStep`, `ReadBrefStep`, ...),
`StepFootprint` for what the others keep, one lemma per part of the invariant
(`PreparedAgreesOwn`, `PreparedAgreesOthers`, `ContainedStep`, `AloneStep`), and
under `AloneStep` one per action. The uids of `IInv` range over all of Nat.
TLC can not enumerate them: the run `store_workers` checks `InductiveInvariant`, over the
uids a document or a call names (`Known`). `InvariantKnown` proves that this is the
same, because no other uid can be listed or owed a change (`KnownNames`), and
`CallsOweTheDifference` that it always holds.

`RefusalsExplained` and `RefusedDeletesHarmless` (same module): `Spec =>
[]RefusalExplained` and `Spec => []RefusedDeleteHarmless`, from the same
assumptions. A refusal is what one read finds, so the invariant has to say what
may still be expected of everything not read yet. `RefusalInv` does, for a call on
its own and objects that are not suspect: a change still to be read is one the
referenced object has not been told (`UnreadIsDue`), the objects a delete has
still to treat are listed by all they list (`OldsAnswered`), they are different
objects (`OldsDistinct`), and a delete of one object writes when it has read
everything (`ReadsFirst`). It is inductive only together with `IInv`, which knows
that nobody else writes (`ChangesAreDue`). `RefusalHasReason` then takes a read
that fails apart: the object is not found, or it does not list the caller, and
each leads to one of the five explanations.

`StoreImplementsRelation` (module MongoStoreRefinementProofs): `CarefulSpec =>
ImplementsRelationStore`, for every schema, any number of workers, objects and
operations. What it assumes is said of the callers, in `CarefulCallers`, and every
part is needed:

* no worker is killed (`CarefulAssumption`) and a call starts when no other is in
  flight: otherwise references may be left unanswered (`store_workers`);
* the data names objects that exist, which nothing checks (`ReferencedExists` is
  refuted), and not the object that is stored: an update that drops both ends of a
  reference of an object to itself has overwritten the one when it looks for it,
  and is refused;
* the changes the object asks for can be made (`Feasible`): no single reference is
  moved from one object to another, because the new one is never told
  (`OneCallMovesLink` is refuted); none that another object answers is taken
  over, because that one is never told; and each field is changed for objects of
  one class only, because the lookup of the second value is narrowed to the
  class of the first (`narrow`) and the call is refused half way: so the author of
  an article and a review can not be deleted.

`NoSelfReference` is the same of the database to begin with. `UidSpace` bounds the
uids an abstract insert may give; the theorem takes all of Nat, the run the uids it
can reach.

Its invariant adds `CarefulInv` to `IInv` and `RefusalInv`: nothing is ever
suspect and no object lists itself, what a call carries exists (`CarefulData`,
`CarefulChanges`), the changes it has still to make, also for the objects it has not
come to yet, can be made (`CanBeDone`), those left of a field are of the class its
lookup is narrowed to (`Findable`), and a single back reference is only prepared
over one of the caller's own (`NoTheft`). The last needs `RefusalInv`: that the
change of a value to be dropped is due says whose it is. With
`CarefulInv` each step is one of RelationStore or a stutter: the write
of an inserted or updated object is the whole change of the relation, because
from there on the links of that object are read from its own fields
(`LinksIn`, `LinksMeaning`); the start of a delete is its change, because from
there on the object is not counted; the writes of back references and the removal
stutter, and so does the return, because `AloneProgress` says that then both ends
agree again. `CarefulNeverRefused` is the other half: such a call is never refused,
for none of the five explanations of `RefusalExplained` is left.

`SchemaAssumption` is what the code needs of an editorial model: the
back reference of a back reference is the field itself, which the factory does
not check. `InitialAssumption` starts from a database without damage.

## Sessions and the client

### Modules

| Module | Content |
|---|---|
| `WebSessions` | session handler, client and request cycle as one state machine |
| `SessionStore` | what sessions promise: owners, contents, the live sessions, the session each request has |
| `WebSessionsRefinement` | `WebSessions` implements it: the mapping |
| `MCWebSessions` | its symmetry; one `.cfg` per run |
| `WebSessionsProofs` | the inductive invariant and the theorems |

### State and actions

`files` is the directory (token, data of the pickled session, modification
time), `table` the dict `__sessions` of each worker, `req` the request a worker
answers together with `Client._instance` (`token`, `data`) and the loop of `gc`
(`todo`, `cur`), `cookie` what each browser holds, `now` the clock. `issued`,
`last` and the fields `began` and `base` of a request are history the
properties speak of; no guard of the code reads them except that a token is
issued once. A request stays at a program point `pc`; between two program
points other workers run, so every system call on the directory is a step.

| Actions | Code |
|---|---|
| `Receive` | `application` up to `restore_session`: `Client.__init__`, `load_cookie` |
| `ListFiles`, `UnlinkFile` | first loop of `gc`: list the directory, unlink what is not in the worker's table |
| `ScanTable`, `FindFile`, `StatFile` | second loop of `gc`: `isfile`, `getmtime`, comparison with the expiration |
| `Destroy`, `RemoveFile` | `destroy_session`, from `gc` or `Client.destroy` |
| `CheckToken`, `OpenFile` | the rest of `restore_session` in the handler and in the client |
| `SetItem`, `DelItem`, `Authenticate`, `AuthenticationFailure`, `SignOut`, `ControllerRaises`, `Respond` | what a controller may do, in any order |
| `Clean`, `Save`, `SaveRefused`, `SaveFails` | the response, `Client.clean` and `save_session` |
| `Crash` | a worker killed at any point, while it saves too, and started again |
| `Tick` | the clock |

An exception that leaves the application (`Fail`) skips `clean()`, so the client
of the failed request stays in `Client._instance` until the next request
replaces it. A deletion from `__sessions` while `gc` iterates over it makes the
next step of the loop raise, also after the last entry: `Unregister` therefore
fails the request when `gc` called it.

When another worker has removed the file of a session, `restore_session` of the
handler returns None, and the client keeps it as its data together with the
token (`Missing`), although `lodel/auth/client.py:183` announces a dict: every
use of the data raises, and so does `save_session`, which leaves the client to
the next request.

Abstracted: the data of a session is the set of its keys; the query of
`authenticate` is a choice of its outcome; files of other programs in the
directory are left out. `os.urandom` never returns a token twice. `start_session`
is one step: a worker killed between its two statements leaves a file nobody has
registered, as a kill just after it does. `SetItem` is what the client offers to
controllers; those in the repository only read items, so nobody starts a session before
`authenticate` does (`SigninStartsSession` below). A browser has one cookie and may have several
requests in flight.

### Properties

* `SessionIsRegistered`: the worker that answers a request with a session has a
  path for its token, and is the only one that has. `save_session` opens
  `__sessions[token]` without looking, after other workers' `gc`, an expiry or
  `Client.destroy` may have run.
* `OwnSessionOnly`: one client object serves request after request, some of
  which end in an exception; a request has its own browser's session only.
* `CopyIsCurrent`: the data read when the request came in is, until it is saved,
  what was last saved: no update is lost, and a torn file is never taken for a
  session.
* `OpenedHasNotExpired`: the session that is opened had not expired when the
  request came in, although `gc` looked at it earlier than it is opened.
* `OwnStepsLoseNothing`: a step of a worker removes no file of a session that
  stays in its table, although `gc` lists the directory long before it unlinks.
  The `gc` of other workers does (`OnlyUnregisteredUnlinked` below).
* `ImplementsSessionStore`: all of it together. `SessionStore` knows no files,
  tables, clock or cookies: a request starts a session, or opens one of its own
  browser that no other request has and reads what was stored last; it puts
  back the whole and gives the session up, or only gives it up; sessions that
  no request has may be lost at any time, and what is lost never comes back.
  In the mapping a request has a session when its client has a token and data
  (`SessionOf`; the copy it read is `base`), and a session is live when a worker
  has registered it and its file can be read or is about to be rewritten by the
  request that has it (`AbstractLive`). A file that is left torn, unlinked or
  forgotten by a killed worker is a session lost; a client with the token of a
  vanished file, whose data is `None`, has no session; the changes a controller
  makes to its copy are not seen until `Save`. `SessionStore` does not promise
  that a session stays (`OnlyUnregisteredUnlinked` below says why it cannot).
* `RequestsEnd`: every request ends, whatever is removed under it.

### Runs

Tokens bound the sessions started (two), `MaxNow` the clock (one tick, with an
expiration of zero: a session is at the limit until the clock ticks and expired
after). Two browsers and two workers are
what it takes to mix up sessions or to remove a file under a request; with and
without the user in its data a session can differ from its copies. Workers, browsers and
tokens are interchangeable; the symmetry is not used in `sessions_end`, where it
would not be sound.

| Run | Instance | Shows |
|---|---|---|
| `sessions_shared` | 2 workers, 2 browsers, failing saves, crashes | types, registration, separation, current copies, torn files, expiry, the refinement of `SessionStore` |
| `sessions_end` | 2 workers, 1 browser | every request ends |

Three more statements are refuted by hand with `tlc -config
MCWebSessions_<claim>.cfg MCWebSessions`: `signin` (`SigninStartsSession`, "starts a
new session": a browser that has none signs in and still has none), `unlink`
(`OnlyUnregisteredUnlinked`, "Unregistered files": the `gc` of one worker unlinks
the sessions of another) and `valid` (`ValidTokenRestores`: a request with a
valid token fails when `gc` finds an expired one).

Fairness, in `sessions_end` only: a worker that answers a request goes on
(`Proceed`), which is what a process does, and a controller that can return
returns at last. No browser has to send anything and no clock has to tick.

### Proved

Module WebSessionsProofs, for all sets of workers, browsers, tokens and keys,
and every expiration: `SessionTypes`, `SessionsRegistered`, `SessionsSeparated`,
`NoLostUpdate`, `ExpiredStaysClosed`, `OwnFilesStay` and
`SessionsImplementStore`, from `SessionAssumption` alone. The inductive invariant `Inv` is `TypeOK` with

* `StoreInv`: no token is in two tables; a token in a table or a cookie was
  issued, in a cookie to that browser; a readable file holds what was last
  saved. This is why the session of a request cannot be written elsewhere.
* `RequestInv`, of each request: its cookie and its session are its browser's,
  its session is in its worker's table and its copy is current; what `gc` still
  has to unlink is not in the table; what it has passed over had not expired
  when the request came in (`Recent`).

`Spares` says what a step of one worker leaves alone, and `OthersKept` that the
other requests then keep their part. `QuietStep` and `FailStep` treat the steps
that change a request only, and there is one lemma for each group of actions.
`OwnFilesStay` is an action property: `OwnFilesKept` proves it of each action,
and `StepBecomes` that a request changes by a step of its own worker only.

`SessionsImplementStore` (`Spec => ImplementsSessionStore`) needs no further
invariant: `Inv` says that a session in use is registered by the worker that
uses it (`SessionHeld`), hence live (`InUseLive`) and in use nowhere else
(`InUseHere`). Three steps are seen in `SessionStore`: reading the file
(`OpenShown`), the first item of a client without a session (`StartShown`) and
saving (in `FinishShown`). For all others it is enough that they leave the
request what it had or nothing, register nothing and make no file readable
(`Forgets`): then they are `Release`, `Lose` or nothing (`ForgetsShown`), and
there is one lemma for each group of actions.

Only model-checked: `RequestsEnd`, a liveness property.

## Booting an instance

### Modules

| Module | Contents |
|---|---|
| `Hooks` | `LodelHook`: the registry of callbacks with priorities |
| `Plugins` | discovery, registration, `load_all` and the recursion of `_load` |
| `Settings` | the settings loader and `__bootstrap`, up to the moment the settings start |
| `Boot` | the three boot sequences, the callbacks of their hooks, datasources and custom methods |
| `MCBoot` | the instances to boot |
| `BootProofs` | loading, the settings, and what a boot leaves behind, proved |

### State and actions

`stage` is where the boot is: `files`, `lists`, `register` (the settings),
`settings` (they have started), `loading`, `loaded`, `exposed`, `bootstraped`,
`ready`; or `failed` (an exception that the code raises on purpose) or `broken`
(one it does not expect). In a single site `webui/run.py:85` passes over a
NameError of `loader.start()` and goes on to answer requests: `halfloaded`, if it
came while the plugins were loaded, or `halfstarted`, if in a hook. It may come from
a loader file, from `DatasourcePlugin.get`, which raises the undefined
`PluginTypeErrror` for a plugin of another type, from `plugin_name`, which raises
`SettingsError` without importing it for an identifier that is not in two parts, and
from the hook that checks the datasources, which raises it on purpose (`Leave`,
`UndefinedName`, `CheckExceptions`). `site` is the instance: its mode, its
configuration files, its plugin directories and its dynamic classes, with their
ancestors and the methods they have. The other variables have the names of the
attributes they model.

| Actions | Code |
|---|---|
| `ReadFiles` | `SettingsLoader.__merge` |
| `ReadList` | the plugin list of one type, `getoption` with its validator |
| `RegisterNext` | `Plugin.register`, with `discover` the first time |
| `Populate` | `__merge_specs`, `__populate_from_specs` with variable sections, the errors of the loader, `__confs_to_namedtuple` |
| `StartHooks` | the core hooks are imported, the controllers too in a single site |
| `LoadNext`, `LoadDep` | the loop of `load_all` and the loop of `_load` over dependencies |
| `AlreadyLoaded`, `NotActivable`, `Circular`, `CheckDeps` | the head of `_load`, in its order |
| `Import`, `ImportFails` | the loader file: callbacks, custom methods, dynamic code |
| `EndLoading`, `ExposeAgain`, `Bootstraped`, `ImportLeapi` | the calls of hooks, by mode |
| `RunCallback` | one callback of the hook that is running |

`_load` is recursive; its activations are the frames of `stack`. A callback may
call a hook: those callbacks are put in front of the ones left. Two copies of
the dynamic code exist, `leapi_dyncode` and the one a context exposes; each is
initialised by a callback that its import registers, so the moment of the
import decides. Dictionaries have no order in the Python of this code, so every
loop over one takes its items in any order. In `SetRegistered` that is the order in
which classes get their custom methods (`Places`): a class on which one is set before
its child shows it there too, so that the child's of the same name is passed over.

Abstracted: options have one of a few values that tell valid from invalid; an
activable function is its answer and the copies it imports. The check of the type
of a plugin is registered when its list is read and once more when all the
options are: in the model once. Once the settings have started every
datasource has a read only flag, by default, and an identifier, which is required.
Names of sections and options are in lower case and fit to be names; the loader and
`namedtuple` would refuse others.

### Properties

* `DependenciesFirst`: a plugin is loaded once and behind its dependencies.
* `EveryPluginLoaded`: `_load` passes over a dependency that is not activable, and
  the error of one plugin leaves others half way in `_load_called`; if `load_all`
  ends without error every plugin is loaded all the same.
* `LoadOutcome`, `SettingsOutcome`: that loading, or starting the settings, ends
  well is decided by the plugins and the files alone, not by any order, and the
  condition is stated.
* `ServingHasDatasources`, `ConsoleDatasources`: what a server answers with has
  datasources, and is never given a read only one to write, unless its start ran into
  one of the NameErrors it passes over: then a plugin or the datasource of a class is
  the cause (`NameErrors`). The console has datasources only if a plugin has imported
  the dynamic code in time.
* `ConsoleListsTyped`: that a plugin is of the type of the list it is in is
  checked where `lodel2_dyncode_bootstraped` is called, in the console.
* `MethodsSet`: in every copy in use a class for which a custom method was registered
  has one of that name: its own, or that of an ancestor, and which of them depends on
  the order of a dictionary; methods a class has of itself are kept.
* `BootEnds`: the recursion and every loop end.

### Runs

`boot` runs every instance of `MCSites`: a sound one in each of the three modes,
with two datasources, a session handler, an interface and extensions that depend
on each other, and variants in which one thing is wrong: 13 of settings, 8 of
plugins, 5 other choices of plugins and 8 of classes and datasources. Those that may
end in a NameError are run in every mode. Of the two classes one inherits from
the other and one plugin has a method of the same name for both. A variant
that is wrong in one place reaches the one branch of the code that handles it,
and every branch of Next is taken. The property `BootEnds` assumes
`WF_vars(Next)`: a boot is one thread that nothing delays.

By hand: `tlc -config MCBoot_circular.cfg MCBoot` refutes `CircularIsReal`, that a
"circular dependencies" error is reported where there is a circle: a plugin whose
loading was left by the error of a dependency stays in `_load_called`, and is
then charged with a circle itself.

### Proved

For every set of plugins, settings and instances: `LoadOrder`
(`Spec => []DependenciesFirst`) and `NoPluginLeft` (`Spec => []EveryPluginLoaded`),
with no assumption. `LoadInv` says of every activation of `_load` that is past
`check_deps` that its plugin is in `called`, is not loaded, and has one such
activation only, and that each dependency it has been through is loaded, not
activable, or being loaded by the activation above (`FrameInv`). `NoPluginLeft`
adds `TriedInv`: what the loop has been through is loaded or there is an error.
One lemma per way the stack changes (`Pushed`, `ReplaceTop`, `Returned`,
`Unwound`), then one step per action.

`LoadAllOutcome` (`Spec => []LoadOutcome`), with no assumption: whether loading
ends well is a condition on the plugins, `AllLoadable`, that mentions no order. One
direction needs that what is loaded and what is under way has passed every test
and shares no method (`OrderSound`, `StackSound`); the other that an error, once
there, is never without a cause in the plugins (`ErrorsSound`). The hard case is
"circular dependencies": while there is no error, a plugin in `_load_called` that is
not loaded is under way, so the activations from it to the top are a cycle, and
a set of plugins each of which depends on another of the set is what `AllLoadable`
excludes. Once there is an error the same message may be wrong (see
`CircularIsReal`), but then there is nothing left to show. That the loaded plugins
have no such set follows from their order: a set without a first plugin is empty
(`LeastNumber`).

The other theorems are about what the boot leaves behind, and use
`SitesAssumption`: directories, files and what a loader file registers are
sequences, a list of plugins is one of names, only two modules run the generated
file, and the finitely many classes have different names and inherit what their
ancestors inherit; `BootTypes` also uses `SettingsAssumption`, that the plugin of the default
list is a name. Their invariant is `BootInv`, one part per question, each with a lemma that
every step keeps it:

* `HooksInv`: what is in the registry. Only the import of a copy of the dynamic
  code registers its initialisation, for that copy and once it is imported, and only the core
  hooks register the custom methods (`Registry`). What carries it are lemmas about
  `RegisterHooks`: a callback is among those of a hook after a registration
  exactly if it was before or is the new one (`RegisteredCalls`), through the
  decorators of a file (`EachRegistered`) and the late checks (`LateChecksAdded`). The
  functions that go through a list, `RegisterEach` and `Discover`, are recursive;
  that they are defined up to any length is a least counterexample argument
  (`DefinedUpTo`, `DiscoveredUpTo`).
* `RunInv`: what is left of the hook that is running. `CallbackRun` says the ways
  one callback can go, `CallBegun` what is left when a hook is called.
* `MethodsInv`, `ServingInv`, `ConsoleInv`: a copy is initialised, or its
  initialisation is still among the callbacks left; where it is initialised it has
  the methods, or setting them is still left. `MethodsOnCopies`
  (`Spec => []MethodsSet`), `ServingInitialised` (`ServingHasDatasources`) and
  `ConsoleInitialised` (`ConsoleDatasources`) are what these say when nothing is left.
  That a method which is not set on a class is found on an ancestor needs the
  ancestors of a class to inherit what theirs do, and a first one, in the order of the
  dictionary, of those for which the method is registered.

`SettingsStarted` (`Spec => []SettingsOutcome`) is in both directions: the settings
start if and only if `SettingsInOrder`. `ReadInv` relates the state to the files:
the options are those of the files and of the lists read so far, the plugin list
is one of the lists read so far in some order (`IsListOf`: the same plugins, and
none twice exactly if the lists are apart), and the plugins registered are the
first of it, with nothing wrong with them. A refusal then names a fault that any
other order would have met (`PluginRegistered`), and the specifications merge to
the same function whatever the order of the plugins (`SpecsForFacts`,
`DuplicatedSpecs`). `ConsoleTyped` (`Spec => []ConsoleListsTyped`) follows the
checks that the lists leave: they are registered when the settings start
(`ChecksLeft`), nothing takes a callback out of the registry (`Grow`), and one that
was run has passed (`CheckRun`).

`BootTypes` is `Spec => []TypeOK`. That no copy is initialised more than twice is not
a matter of types: an import of the dynamic code registers its initialisation only the
first time (`OnceInv`: no registry names it twice, although callbacks are put between
others), and the hook that runs it is called once, or twice in a multisite server
(`TimesInv` counts what was run and what is left of the running call). That plugins
are named in `Name` comes from the lists of the files (`SitesAssumption`) and from
the default one (`SettingsAssumption`).

Only model-checked: `BootEnds`, which is liveness.

## The editorial model

### Modules

| Module | Contents |
|---|---|
| `EmGroups` | dependencies and applicants of groups, with the scan for cycles |
| `EmGroupsProofs` | no cycle closes, proved |
| `EditorialModel` | a model as it is made, saved as XML, loaded, restricted to groups and turned into code |
| `EmScripts` | `em_simple.py`, `em_test.py` and `lodelsites_em.py` as calls |
| `MCEditorialModel` | calls to build small models with |
| `EditorialModelProofs` | what comes back from the XML file, and what is imported, proved |

### State and actions

In `EmGroups`, `require` and `required` are `EmGroup.require` and `required_by`; a
call (`Add`) scans what the other group leads to, one `Scan` per turn of the loop,
and ends in `AddEdge` or `Refuse`. The scan compares groups with uids, so it
never recognises one it has seen: `pending` is a bag.

In `EditorialModel` classes and groups are objects, and `Uid` says with which uid each
is made. Nothing refuses one that is in use: `add_class` and `add_group`
(`model.py:214` and `:226`) look for a uid in a list of objects, which have no
equality with it. The new object takes the place of the old one in the
dictionary (`Place`); children, groups and fields made before still refer to the old
one, which later calls may name as well. What was made once only is called by its
uid. `Whole` says of a model that no uid was made twice. A class may then inherit
from itself by name, and in the file for good: what never ends in the code
(`parents_recc`, `Endless`) ends the reading or the generation here.

`Call` and `Edit` are `new_group`, `new_class` and
`new_field` with the checks of the constructors; `Save` and `Load` the XML
translator, one element a step, with the placeholders it makes for what is named
before it is described; `LoadForEditor` and `LoadForSite` are `load` and
`__set_actives`, which of two active objects of one uid keeps and filters the one it
finds last, in any order (`ActiveClasses`); `Generate` is `dyncode_from_em`, and
`Import` the import of the module it wrote, where a class that is not there is a
NameError.

Abstracted: names and help texts; what an option is, but not what the translator
does with its kind; the text of the generated module beyond the names it uses.

### Properties

* `NoCycle`, `RefusalJustified`, `ScansEnd`: no sequence of calls closes a cycle of
  two groups or more; only a call that would is refused; every scan ends unless a
  group was made to require itself, which the code accepts and then scans forever.
  `Inductive` is the invariant of the proof, checked.
* `ActiveGroupsSuffice`: `__set_actives` does not look at the groups the active ones
  require. If they are active, and each class and field is in groups that require
  those of the classes it names, the generated module can be imported.
* `ActiveFieldsOnly`: own fields are filtered in active classes only; no class of
  an imported module shows a field of an inactive group, inherited ones included.
* `ParentsFirst`: classes are sorted by the number of ancestors alone; the objects
  that are the parents come first whatever the order of the dictionary.
* `XmlKeepsModel`: a model in which no class redefines an inherited field can be read
  from its file, element by element, and comes back as it was, whatever the order
  in which classes were written.

The four are said of models in which no uid was made twice (`Whole`). The run has
others as well, of which the four cannot be said: a class that replaces another can
be generated after a child of that one, which then has a base class that is not there
yet; of an old parent and the class that replaced it one is filtered only;
and the groups list fields the new class has not, at which `load_group_xml` raises.
Only `ParentsFirst` still holds of a model that was built with such calls and not
saved, since there parents are objects. By hand: `tlc -config
MCEditorialModel_uids.cfg MCEditorialModel` refutes `NoneReplaced`, what the exception
"Duplicated uid" of `add_class` and `add_group` claims.

### Runs

`groups`: four groups, so that a cycle may have any length up to four and a scan
may meet a group by two paths; a group waits at most `MaxPending` = 3 times, more
often than there are paths to it without a loop. Weak fairness of the steps of a
running call: it is one thread; nobody has to make a call. The model stops when
all edges are there. `model`: the repository's three models as they stand, and
models with three fields (`MaxFields`) built by any calls of `MCEditorialModel`: two
groups, one requiring the other, or a third of the uid of the first; up to three
classes of different uids and a class that takes the uid of another, with a parent
below that one or without (`MaxClasses` keeps them from the repository's models);
abstract and pure abstract classes, a class without group, multiple inheritance,
fields that override and references that name classes of another group. That is
enough for a class to be replaced before and after its children are made, and to
inherit from its own replacement. The dictionary of
a model of up to three classes (`MaxShuffle`) is taken in every order, of a larger
one in two.

### Proved

`GroupsInductive` and `GroupsAcyclic` (`Spec => []NoCycle`), for any set of groups
and any bound `MaxPending`, from `GroupAssumption`. Acyclicity is said of sets: no
nonempty set of groups is there in which each requires another one of the set. So
paths, and induction on them, are not needed: when a call is not refused, what
its scan has found (with the new group) is closed under the edges and does not have
the other group in it (`ScanClosed`), and a cycle through the new edge would lie on
both sides (`NoCycleForward`, `NoCycleBackward`). `Mirror`, that the two sides of
an edge agree, carries this from dependencies to applicants.

`GroupsRefusalJustified` (`Spec => RefusalJustified`), an action property: `ScanFinds`
says that a scan never leaves what is reachable from the new group, which is said
of sets again (`Behind`: what is in every closed set that has the group's
neighbours). So when it meets the group the call is made on, the groups on the way
(`WaysForward`, `WaysBack`) with the refused edge are a cycle.

`ScansEnd` is a liveness property and stays with TLC.

The four properties of `EditorialModel` are proved in EditorialModelProofs, for
models of any size built by any calls, from `CallsAssumption` (what a call of each
kind consists of), `UidAssumption` (the uid of an object is the name of the first
made with it) and `NoneAssumption` (`None` is not the name of a kind of option):

* `EditorialInvariant`: `Spec => []IInv`. `IInv` says, stage by stage, what is
  known of the model: as it is built (`Built`), that what it names was made, that its
  dictionaries list one object of each uid (`Dictionary`), that
  it has no loop and that each group has the components that say they are in it;
  as it is read, how much of the saved model is there (`Halfway`, `Kept`), the
  classes that were only named being bare (`Placeholder`), if no uid was made twice in
  that one; as it is loaded and generated (`Loaded`, `Generated`), which classes are
  active and that they are sorted. Objects never form a loop, however often a uid is
  made (`AcyclicEnds`); only what is read from a file by uids may.
* `ModelsKeptByXml`: `XmlKeepsModel`. What lies above a class while the file is
  read lies above it in the saved model (`AboveGrows`), so a field that the test
  in `load_class_xml` finds there would be one that is redefined; a placeholder
  keeps its `classname`, which is why only that field may move. That every element is
  read is `ClassReads` and `GroupReads`: the model read so far has no loop, and a field
  that a group lists is shown by its class by then.
* `ParentsBeforeChildren`: `ParentsFirst`. What is above a parent is a proper part of
  what is above the class, so the parent has fewer ancestors, and sorting by their
  number and then by the order of the dictionary is a strict order (`Places`).
* `FieldsOfActiveGroups`: `ActiveFieldsOnly`. The module can be imported, so it has
  all that is above its classes; all that is in it has been filtered.
* `WellGroupedModelsImported`: `ActiveGroupsSuffice`. Active groups that are closed
  under what they require are closed under all that is above them, so every class that
  a class or a field names is active.

What a recursive function computes (`Above` for `parents_recc` and for required
groups, `AllFields`) is reached without induction over the model: a graph is
`Acyclic` if its nodes can be numbered so that edges go down. That every set of
numbers has a least one (`LeastNumber`, from the well-foundedness of the order on
`Nat` in WellFoundedInduction) makes the function exist, number by number
(`AllNumbers`, in `AboveUnfolds` and `AllFieldsUnfolds`), and what is good for
a node once it is for the next ones is good for all (`RankInduction`); from the unfolding
follow a few facts that all else is proved from (`AboveFacts`, `AboveClosed`,
`AboveGrows`, `FieldsShown`). The numbers are not part of `IInv`'s
statement in a form TLC can enumerate (`\E rank \in [DOMAIN next -> Nat]`), so the
invariant itself is proved only; TLC checks the four properties. That every import
ends, or every script, is not claimed.

## Queries and objects

### Modules

| Module | Contents |
|---|---|
| `Queries` | preparing filters, converting them, selecting, limits: operators |
| `LeObjects` | scripts and web workers that use the API on one store |
| `MCLeObjects` | filters, pages, forms and stores |
| `LeObjectsProofs` | valid values, derived fields, selections and pages, proved |

### State and actions

`store` has the objects, `client[c]` the call a client is in and the instance it
keeps. Objects are of two concrete classes under an abstract one, with two plain
fields, one derived of both, and two references.

| Actions | Code |
|---|---|
| `Query`, `Insert` | `LeGetQuery`, `LeUpdateQuery`, `LeDeleteQuery`, `LeInsertQuery` and `LeObject.insert`: filters and data are checked |
| `Set`, `UpdateInstance` | `set_data` and `update` of an instance |
| `SubmitUpdate`, `FetchForUpdate`, `SubmitDelete` | the controllers of `admin.py` |
| `Get`, `SelectForUpdate`, `Delete` | the datasource selects, or removes |
| `Write`, `Wrote` | `LeUpdateQuery._query`: one selected object after the other is prepared and written |
| `Prepare`, `InsertObject` | `LeInsertQuery._query` |

Abstracted: of values, only those a data handler refuses (`Bad`) differ from
others in kind; what a write does to references is `MongoStore`'s subject. A
value is a text, which may be the name of a field (`Spelled`): the removal of
duplicate filters puts fields, operators and values in one set.

### Properties

* `SelectsAsked`: filters are compared part by part, removed from the list that is
  enumerated, and replaced when they are converted. A selection still has every object
  asked for, and no other if each filter is on its own field; but one whose field,
  operator and value were all named by others is dropped all the same, as is
  author = 'title' after title = 'author' (`Masked`).
* `PageExact`: pages are exact for a concrete class and for the first, full page
  of an abstract class.
* `RefusedStaysOut`: no refused value is stored, by queries, forms or
  instances, whatever runs between selection and write.
* `DerivedFits`: the derived field fits the fields it is made of, although updates
  of different fields of one object interleave.

### Runs

`api`: one script and one worker, three slots, three calls (`MaxOps`), two
stores (two objects of one class, three of both). Two calls are what it takes to
interleave an update with another; the third sees the result. A query with
filters or a page is the only call of its behaviour, which keeps filter lists
(up to three filters of eleven) and pages from multiplying with interleavings:
what it selects does not depend on other calls but through the store, whose
contents they do not enlarge in kind. The model stops when all calls are made.

`claim_pages` shows the one disagreement listed as a finding: a page of an
abstract class has fewer objects than its limit, although more are left,
because the child classes are limited without the offset and because
`PageLength` takes one too many off (`datasource.py:152`).

### Proved

All four properties, for any clients, classes, filters, forms, pages and number of
calls. `StoresAssumption` says that the objects to begin with, finitely many, were
stored by the API one call at a time: their values are valid, their identifiers
numbers that differ. `QueriesAssumption` says that a query is given a list of
filters, and natural numbers for its limit, if any, and its offset.

`OnlyValidStored` (`RefusedStaysOut`) and `DerivedFieldFits` (`DerivedFits`): `Inv` adds to what
is stored that a call about to insert carries checked data and that an update
carries objects with their mandatory field.

`SelectionsComplete` (`SelectsAsked`): `AskInv` says that every object has a number
for identifier, which needs that no update has one among its data and that there
is a greatest one for a new object to follow, and that a query which runs can be
answered. What the preparation does to a list of filters, `AsStd` and `Dedup`, are
loops; `LoopDefined` says that a loop has a value after each pass, `UpTo` that what
each pass keeps holds at the end. So `StdFiltersOf`: only filters of the
query get to the datasource, and all of them if they are on different fields and none
is `Masked`, since then a part of each has not been seen before. What is
found is what is selected, also in order (`SelectsFound`), because finitely many
objects can be put in order (`OrderExists`, by a least counterexample).

`PagesExact` (`PageExact`): `PageInv` says that a call with a page is the only one and the
store is one to begin with, so that identifiers differ; two inserts that
interleave may choose the same, and then the order of objects is not determined. The
argument is about ranks (`Rank`): an object is the i-th of a list in order if
i - 1 objects have smaller identifiers. One that is the i-th of all, i no greater
than the limit, is at most the i-th of its class, so it survives the limit
there, and it is the i-th again when the results are merged (`FirstPage`).

`ByUid` chooses an order by the property of being one, and `AsStd` is a recursive
function, so that both can be reasoned about.

## Contexts and sites

`Sites` has the multisite server: `FromPath`, `EnterSite`, `LoadSite` and
`CacheApplication` are one turn of the loop of `multisite/run.py`, `Request`,
`SetSite` and `Serve` its `application`. `exposed` are the names in the globals of
`run.py`, which every site replaces; `previous` what `__enter__` saves and
`__exit__` forgets, for it always goes back to the loader's context; `cwd` the
directory, which the loop changes and `LodelContext.set` means to change but never
does.

* `AnswersInOwnContext`: while a site answers, the current context is its own,
  whatever the requests before have left.
* `SitesAreTheirOwn`: application, settings and dynamic code of every site come
  from its own context and directory, although one process loads them all.

Run `sites`: any set of five directories in any order, one with a name too short,
one with a dot, one whose site cannot be loaded, and two sound ones; four
requests to any site, an unknown one, the loader or none. The server may die
and the requests run out, so the model stops. Workers are forked after loading and
share nothing, so one is enough.

Proved: `OwnContext` and `OwnSites`, for any names and any number of requests, from
`NamesAssumption`. `Inv` says that while a site is loaded the current context and
directory are its own, and that what was loaded before stays.

## What the code does that its texts do not say

Met while modelling, and part of the models:

* `multisite/run.py:143` catches `ContextError`, a name it does not have: a
  request for an unknown site raises a NameError instead of answering 404.
* `model.py:214` and `model.py:226`: the tests for a class and for a group added twice
  are never true, so the second replaces the first.
* `webui/run.py:85` passes over every NameError of the start of an instance, and
  `datasource_plugin.py` causes some by raising what it has not got: `SettingsError`,
  which it does not import, and `PluginTypeErrror`, which does not exist.
* `query.py:217`: a filter whose field and value are the value and the field of another
  is taken for a duplicate.
* `plugins.py:960` asks for methods with `dir`, which shows inherited ones: what was
  just set on a class keeps those of its children from being set.
* `datasource.py:607`: filters on the class name would be deleted from a list
  that is enumerated, but a query with such a filter on an abstract class was
  refused before.
* A relational filter, and a subquery, make the MongoDB datasource raise: `select`
  and the relational lookup call `find` with the keywords of different versions
  of pymongo, and the operator of a subquery has spaces the datasource's table
  has not.
* Instances from the store are never initialised completely: the list of
  initialised fields is what a query returned, which has the class name too.

## Not modelled

* MongoDB connections and their reference counts, which only go wrong when a
  datasource fails to start, and that ends the boot; the migration handler.
* The group argument of `select`, joined fields, OR filters, `insert_multi` (called
  by nothing), update and delete of an abstract class with their back references.
* What each data handler takes for valid, casts, and the result of a consistency
  check, which the code ignores.
* The order of base classes Python computes (C3): a model with an inconsistent one,
  or with a base class twice, would fail at import. Field options that XML reads back as text or not at all
  are modelled as `Translated`; the options of groups and the hashes are not.
* The import hooks below a context; `setoption` and `saveconf` of the settings, which
  nothing calls.
* `slim`, `lodel_admin` and the core scripts, which copy files and start processes;
  the logger, `MlString` and other utilities, on whose state nothing depends; the
  dummy datasource, which does nothing; the HTTP server below the multisite loader.
