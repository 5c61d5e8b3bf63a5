# Verification of NeverwinterDP

TLA+ models of the parts of this repository that keep state, the TLC runs that
check them, and proofs of the main results. All paths below are relative to the
repository.

## 1. The system

NeverwinterDP at this commit consists of a job service (*RingBearer*), the
commands its jobs are made of, scripts that use those commands, and a web
console. The cluster framework (members, services, gateway, shell, `Server`,
`ClusterClient`), Kafka, Zookeeper, Sparkngin and the Yara metrics are other
projects; they are met only through the calls this code makes.

| Component | State it keeps | Operations | Hard about it | What makes it correct |
|---|---|---|---|---|
| **Job service** `ringbearer/job/RingBearerJobService.java`, `RingBeaderJobScheduler.java` | the scheduler object; per scheduler the id counter, the queue, the running job, the finished jobs, its thread | `submit`, `getSchedulerInfo`, `start`, `stop`, the scheduler thread, the runner threads | four kinds of threads on plain fields; interrupt in any place; restart while a job runs | an accepted job is run once, alone, in order, and is reported after it has ended; a stop ends the thread and signals the script; what `getInfo` shows adds up |
| **Message sender** `ringbearer/job/send/` | the pool and its queue, the tasks, a driver and a timer per task | the `ringbearer:job send` command, worker threads, timer threads | limit of time against limit of messages, interrupt, failing or hanging `send()`, timer against close | limits hold, drivers are closed, the command returns, nothing is sent after the end |
| **Failure simulator** `ringbearer/job/simulation/ServiceFailureSimulator.java` with the job scripts | the schedule, the selected member; the services of the cluster are the shared state | `ringbearer:job simulation`, the timer thread of the shell; `service stop/cleanup/start` of the scripts | a simulated failure of one job in the middle of the next job's script; failing commands | a service that was stopped is started again; how many of the stopped ones can run at a cleanup is bounded |
| **Submit command** `server/gateway/RingBearerCommandPlugin.java` | one shared executor object with its parameters as fields | `submit`, `scheduler` | fields shared by all requests and never reset; a caller that gives up before the answer | a job is made of what its own request states; one call that succeeds is one job |
| **Table and pages** `webapp/app/js/ui/UITable.js`, `util/PageList.js` | beans and their state, the page list (sharing the array or not), the rows on the page, the popup | filter, page, page size, add, edit, delete, remove | the same rows in several places; positions used as names | a click is about the bean in the row; pages cover the list |
| **Workspace** `webapp/app/js/site/UIWorkspace.js`, `ui/UIBreadcumbs.js`, the `UINavigation.js` of the plugins | the active plugin, the component shown, the stack of views, handlers on the page | select a plugin or component, callbacks of `require()`, push, crumb, back | callbacks in any order, constructors that throw, handlers that stay bound, equal labels | stack, crumbs, page and handlers are about the same view |
| **Bean editor** `ui/UIBean.js` | states per bean, an array of beans, original values | toggle, add, delete, restore, edit, view, autocompletion, date picker | names that are renumbered, delayed handlers | an edit goes to the bean it was made in; restore brings back the original |
| **Tree table** `ui/UITableTree.js` | the nodes; on the page the depth, class and display of each row | add, render, toggle | rows closed inside closed rows; the rows do not know the tree | a node is displayed exactly when its ancestors are open |
| **Screens and blocks** the screens under `plugins/`, `ui/UICollapsible.js`, `UIContainer.js` | the stack of screens, per screen its components and what is folded, and what was drawn of them | open, push, refresh, fold, crumb and back | the same data on two screens; a refresh that throws after it has cleared the screen, or in the middle of its blocks | the page of a screen is from one response; a detail tells what the screen below it tells |
| **Deployment and test scripts** `src/app/jscript/` | none; the cluster is the state | install, uninstall by role or server, runs of jobs | a step that fails, names, ports and orders that differ between install and uninstall | a location that somebody is given answers; a call leaves a module on all its servers or on none |

How they interact: the shell sends `ringbearer submit` to the gateway, whose
plugin makes a `RingBearerJob` and calls `submit` of the service on a member.
The test scripts do so job after job, on a cluster that a deployment script has
installed; removing the module stops the service and its scheduler.
The scheduler thread of the service runs the job's script in a shell of its own;
the script executes commands: stop and start of services, the simulator (on the
timer of that shell) and the message sender (on the thread of the script). The
console calls the same commands over HTTP, synchronously; its job screen shows
`getSchedulerInfo` in tables, and its screens are shown in the workspace.

Left out, with reasons in `PROJECT.json` and in section 7: the message drivers and
REST clients (wrappers of I/O without state), start scripts, Vagrant, Gradle, and
the vendored libraries, which are the larger part of the repository.

## 2. Modules

| Module | Models | Role |
|---|---|---|
| `JobQueue` | - | what a job scheduler promises: one line, one active job, reports in order |
| `JobScheduler` | `RingBeaderJobScheduler`, `RingBearerJobService`, the runner | the detailed specification; states its refinement of `JobQueue` and the inductive invariant |
| `JobSchedulerProofs` | - | theorems about `JobScheduler` |
| `SendCommand` | - | what a send command promises: connections opened before it answers and closed once, sends on open ones below the limit |
| `MessageSender` | `MessageSender`, `MessageSenderTask`, the configuration | pool, tasks, timers, clock; states its refinement of `SendCommand` |
| `MessageSenderProofs` | - | theorems about `MessageSender` |
| `ServiceFailureSimulator` | the simulator, the command that schedules it, the load-test script | jobs in a row, each with the timer thread of its shell |
| `ServiceFailureSimulatorProofs` | - | theorems about `ServiceFailureSimulator` |
| `SubmitCommand` | `RingBearerCommandPlugin`, the calls of the test scripts | requests on the one executor, its fields and the jobs made of them |
| `ClusterDeploy` | the deployment scripts and the `*Cluster.js` objects | the commands of install and uninstall, where modules run and what they connect to |
| `TestCluster` | the deployed service in use | composes `ClusterDeploy`, `SubmitCommand` and `JobQueue` |
| `TestClusterProofs` | - | theorems about `TestCluster` and the `SubmitCommand` and `ClusterDeploy` in it |
| `PageList` | `PageList.js` | operators on a page list |
| `UITable` | `UITable.js` over `PageList` | the table's events |
| `UITableProofs` | - | theorems about `UITable` and the operators of `PageList` |
| `ViewStack` | - | what the console promises of its views: one stack, only its top reacts, a return goes to the latest view of a name |
| `Workspace` | `UIWorkspace`, `UIBreadcumbs`, `UINavigation` | selection, callbacks, the stack of views; states its refinement of `ViewStack` |
| `WorkspaceProofs` | - | theorems about `Workspace` |
| `Screens` | the screens of the plugins, `UICollapsible`, `UIContainer` | a stack of screens with blocks, made from responses and from each other |
| `ScreensProofs` | - | theorems about `Screens`, and about the tree table that the screen `UIClusterMetric` is |
| `UIBean` | `UIBean.js`, `UIBean.jtpl` | an array of beans, its tabs, originals, late timers |
| `UIBeanProofs` | - | theorems about `UIBean` |
| `UITableTree` | `UITableTree.js`, `UITableTree.jtpl` | a tree, the rows that show it, toggles |
| `MC...` | - | model values and symmetry for TLC |

Operators whose name ends in a suffix (`Poll_Once`, `TimerSend_OffByOne`) and
whose comment begins with "Bug:" are plausible mistakes in the code. They are in
no next-state relation; each shows that a property would notice that mistake.

### Correspondence to the code

*JobScheduler.* A step is one access to a shared field or one call of the queue, so
`runningJob = job` and `jobRunner.start()` are two steps of the thread and the three
reads of `getInfo` are steps of the monitor. The variable `thread` is the place in
`JobSchedulerThread.run`, `job` its local variable, `interrupted` its flag. `take()` is
two steps: it checks the flag on entry (`TakeEnter`), and afterwards only an empty queue
lets an interrupt through, so a thread that entered `take()` with jobs waiting takes one
more job (`TakeJob`, counted in `lateTakes`). `finishedJobs` is a `LinkedHashMap` and
keyed by the id: `Put` replaces an entry with the same key. An iteration of it that
overlaps a `put` either throws (`InfoFailed`) or returns the old values (`InfoCollect`).
The queue is read job by job while it moves (`InfoWaiting`, `InfoNext`): the iterator
has its next job in hand and goes on from there, or from the head of the queue when that
one was taken meanwhile. A runner whose `new Shell()` throws ends without an output
(`ShellFails`), since that line is outside of its `try`. Every `start()` makes a new
scheduler; the old one keeps its thread, its runner and its jobs, and `submit` and
`getInfo` reach it until the next `start()`.

*MessageSender.* `main` is the place in `run()`; the executor is its state, its
queue and its number of workers, a new worker being made while there are fewer
than `--num-of-process`. Time is in ticks, and every deadline counts down; any
number of ticks can pass between two steps of a thread. A continuous task looks
at the clock after a send, a periodic one before each sleep. The timer is late
by at most `MaxLag` ticks and makes up for them, like `scheduleAtFixedRate`. In the
abstract `SendCommand` there is no pool, queue, clock or timer: a driver is its
`connection`, a timer that fires a send in progress, and `answer` is `complete` when
`awaitTermination` found the pool terminated, `incomplete` when it timed out, was
interrupted or a driver could not be made. A timed out command answers while its
tasks still send, and its connections may never be closed; `SendCommand` allows both.

*ServiceFailureSimulator.* The jobs run in a row (the scheduler sees to that),
but `isClose()` is read once at the start of a simulator's run, so the thread of
a closed shell can still stop, sleep and start. A cluster command is external:
it takes effect or not, and its reply is good, an error with or without a result,
or an exception. `ServiceFailureSimulator.java:68` prints the result before it
looks at the error, so an error without a result leaves the run by a
`NullPointerException`, without cancel and without start (`StopThrows`).

*SubmitCommand.* The value of a parameter is the request that stated it, so that "this
job has the file of that request" can be said. A request is mapped in one step
(`mapAll`), its job is made in the next, and it is sent in a third; what another request
does to the fields in between is the interleaving of the three. `mapAll` may throw after
a part of the parameters (`MapFails`): the request has no job, but what it has set stays
in the fields. `properties` is one map that all jobs refer to until they are serialised,
so its values are those at `Send`, while file, words and description are those at
`Make`. `mapped`, `stated` and `clock` remember when each request was mapped and with
what, `overtaken` the requests that another was mapped after before they were sent. Two
calls of `mapAll` that themselves overlap would mix field by field; the model has them
one after the other. A member's answer may come after its caller's timeout (`Answer` of
a request that is `timed out`). The service can also refuse then, so a request has no
answer, one, or a late one. `Calls` gives every client its script;
`Assert.assertTrue(resp.success)` in the scripts is the guard `MayCall`. `MayCall`
guards `Map` only: a request runs to its end.

*ClusterDeploy.* A script is the sequence of its shell commands (`todo`), and `Exec`
executes the first: it takes effect on the servers it selects, or fails on some of
them, and the script goes on, since `SHELL.exec` only prints the error. Ports and
hosts are kept, because the properties are about locations. The servers that have
a role come from the start scripts. `InstallCommands` and `UninstallCommands` name the
modules one after the other, as `ClusterEnv` does.

*TestCluster.* The scheduler is the abstract `JobQueue`, which `JobScheduler`
implements (section 4), so its threads need not be repeated. An uninstall that
removes the RingBearer from its server stops the service: the queue is gone, what
it knew is `lost`. `Submit`, `Accept`, `Reject` and `Miss` are the steps of a
request, the second together with `Accept` of the queue.

*Screens.* A record per kind of screen says which blocks it has, whether they fold,
what can be opened from it, and in which order its refresh clears and asks. Each
screen has its components (`comps`) and what the browser shows of them (`page`):
the two differ when `onRefresh` has thrown, since it renders last. `RefreshFails(i)`
throws after `i` blocks of the new response, because the response lacks what the next
one is made of, and `i = 0` is a request that throws; `SearchFails` is a search
without an answer, which keeps the table of hits of the last one. The response of the
server is a number that grows with each change of what it tells. The rows of the tables
in the blocks are `UITable`. `Show` is the navigation, `ShowFails` one whose screen
cannot be made, `Push` opens a detail, `ToggleBlock` folds a block, `Select` is a crumb
or Back.

*UITable.* An event handler is one action, with every render, filter and count it calls.
A bean is a number with one filterable field. The page list has the array of the table
itself when there is no filter (`aliased`) and its own when there is one, which is what
makes `removeItemOnCurrentPage` delicate. The page size that is chosen goes to the page
list and to the `config` of the class (`UITable.js:239`): all its tables share it
(`SelectDisplayRowElsewhere` is the same in another one), and the next `setBeans` takes
it. Until then the table's own `pageSize` is the old one, which the filters use. The
rows the browser shows (`shown`) are a variable of their own, since a click names a row.
`Selection` is the loop of a filter: the items of a list at the positions it keeps, in
their order.

*Workspace.* Views and `UIBreadcumbs` are numbered as they are made. `bound` and
`listening` are the objects with handlers on the element of the workspace and
on the part below the crumbs, all of which share these elements. `pending` are
the callbacks of `require()` that have not run. The abstract `ViewStack` has only
the views, the names the crumbs show and the views that react. A crumb that no
view answers to is a step of its own there (`Miss`): the stack is lost, what was on
top still reacts.

*UIBean.* A tab is named `beanName_i` and renamed when one before it is deleted,
so `beanStates` is a sequence and a name is a position; a bean is an object, a
number whose fields are in `val`, and this is the difference the late timers are
about. `render()` makes new elements: it resets the text of the autocompletion,
hides its list, detaches the waiting searches, and gives a bean in edit mode a
first value of its multiple input. A plain input is entered, changed and left in
one step, as its value counts only at the blur; the autocompletion has its keys,
its list and its blur as separate steps. Of the validation the model keeps whether
the plain input is refused, and that a good text becomes a number in the beans whose
`Bound` value is one: OK stores the number (`OnViewMode`), and the blur of an input
that nobody has changed stores its text again (`OnLeaveNumber`, since `UIBean.js:280`
writes whatever the input holds). `setReadOnly`, the messages of the validation, `bind()`
of named beans and the test hook for texts that begin with `$@` are left out.

*UITableTree.* A node is the path its id is made of (`id-0-1` is `<<1, 2>>`),
`Render` writes the nodes in the order of the template's recursion: the `Place` of
a node is one more than the number of nodes that are written before it. `Toggle`
works on the rows alone, as the jQuery handler does. The class `expand` marks a
closed row (its icon offers to expand), so the variable is called `closed`.

## 3. Runs

| Run | Specification and bounds | What it shows |
|---|---|---|
| `scheduler_safety` | `Spec`: 3 jobs, 1 scheduler | runners do not overlap, at most one late take; what `getInfo` shows: no job as running and waiting, nothing missing that had begun, at most one job missing, although the queue moves under the iterator |
| `scheduler_refinement` | `FairSpec`: 2 jobs, 2 schedulers | nothing accepted is lost, an orphaned runner was interrupted; refinement of `JobQueue`; accepted jobs are finished unless stopped; a stop ends the thread |
| `sender_continuous` | `MainFairSpec`: 3 tasks, 2 workers, 2 messages | drivers are closed exactly by ended tasks; a command that ends early ran everything; it returns even if a `send()` hangs |
| `sender_periodic` | `FairSpec`: 2 tasks, 1 worker, 2 messages, timers late by 1 tick | the command implements `SendCommand` while timers catch up and the pool is stopped; no firing after the close, working tasks are told to stop and do end |
| `sender_total` | as documented by the option | **violated**, see section 6 |
| `failure_simulation` | `FairSpec`: 2 jobs, 1 simulator, 2 members | every stopped service is somebody's: the script's, a timer's or a failed command's; of the services whose stop took effect, at most one per earlier job runs again at the cleanup, and never the consumer; at most one late stop; an outage ends unless a command failed |
| `test_cluster` | `TestSpec`: 3 deployments, 2 installs each, commands for one module may fail; 2 clients with 3 requests on the `min` one | the locations that modules and jobs are given answer, with two exceptions that section 5 lists; a call of a script leaves a module everywhere or nowhere; what a job is made of, the order of the jobs, and that a call that succeeds is one job |
| `table` | `Spec`: up to 3 beans, 2 values, pages of 1 and 2 rows | rows and page list agree at every event, the popup's row is its bean, the pages cover what the page list counts, which is the list unless `_filter` threw, removed items stay removed |
| `workspace` | 2 plugins, 4 components, 5 objects, 2 callbacks each | the console implements `ViewStack`; stack, page and handlers agree; the selection is shown; what a crumb leads to |
| `bean_editor` | `Spec`: up to 3 beans, 3 inputs entered or left, 1 late timer of each kind | tabs and array agree through deletions; Restore gives back what was bound, where an original was kept; the text of an autocompletion is the bean's value, unless a late click left its flag; a late date goes to its own bean |
| `screens` | `ScreensSpec`: 16 kinds of screens, 2 members, 3 responses, lists of up to 5 applications | the page of a screen tells one story; a screen comes back as it was left, and what it is after a refresh that failed half-way; a detail tells what the screen below it tells |
| `table_tree` | `Spec`: every tree of up to 6 nodes | a node is displayed exactly when its ancestors are open |

Deadlock is checked for `screens` (a user can always select something else). The
others may rightly stop: all jobs done and nobody submits, the send command has
returned, no object or install is left within the bound.

Type invariants are in no run any more: those of `JobScheduler`, `MessageSender`,
`ServiceFailureSimulator`, `Workspace` and, as parts of their inductive invariants,
of `TestCluster`, `Screens`, `UITable`, `UITableTree` and `UIBean` are proved.

### Bounds

Each bound is a CONSTANT or the size of a constant set.

* `Job`, `Scheduler`: two jobs are needed for an order, an overlap or a late
  take, the third lets one wait while another one moves. Two schedulers are a
  restart. The schedulers share nothing but the service's field, so a third one
  repeats the second. The theorems remove this bound for all the safety
  properties.
* `getInfo` only reads, so `FairSpec` leaves it out; it is in `Spec`, which the
  theorems are about.
* `NumOfTasks` over `NumOfProcesses`: one task more than workers, so one waits in
  the queue while the pool stops. Two messages distinguish the first, the last
  and one too many. `MaxLag` is the number of ticks a late timer remembers: with
  1 there is one firing to make up for.
* `NumOfJobs = 2`: a simulator can reach over into the next job, whose script is
  the same; one of a third job would find the same situation. One simulator per
  job is enough for the run, since `DownIsAccounted`, `CleanupHitsOnePerJob` and
  `AtMostOneLateStop` are proved for any number; only `OutageEnds` is bounded by it.
* `Calls`: two requests of one script show their order and what the second takes
  over from the first, the one of another client comes between any two steps of
  these. One request names a file, two have words; one property
  (`MAX_DURATION`) stands for all, which are treated alike.
* `Deployment`, `MaxInstalls`, `MayFail`, `MaxFailed`: all three scripts; the second
  install begins with what an uninstall, or an install alone, has left. Commands
  for one of three modules fail, on any of its servers: one that others connect to,
  one with two servers, and the one that is used. The theorems remove the last three
  bounds: any module's commands may fail, any number of them, in any number of
  calls. `Tested`: requests are made on
  one deployment, since the scripts do not differ for the RingBearer but in its
  server.
* `NumOfMember`, `MaxResponse`, `MaxBlock`: two members give two blocks that could
  differ; with three responses a screen, the one below and the server can all
  differ; five blocks are several refreshes of a list of applications and at least
  as many blocks as any screen has. The theorems have no bound but the constants.
* `MaxItem`, `MaxBeans`: with pages of one row three beans make a first, a middle and
  a last page, with pages of two an incomplete last one. `RangeSize` is 10 in the
  code and 2 here, so that its ends are met with few pages; `SubRangeExists` is
  proved for every even size. The theorems of `UITable` hold for any number of items,
  any page sizes and any range.
* `MaxBean`, `MaxEdit`, `MaxTimer`, `MaxMulti`: the middle one of three beans can be
  deleted, and a bean added after a deletion. Three inputs entered or left allow a
  change, a restore and a late timer in any order. The first bean is bound with a text
  and the others with a number (`MCBound`), so that both kinds meet in one array. One
  search left behind by an earlier focus meets the current one; `MaxMulti` tells one
  value from two. The theorems remove all of these.
* `MaxNode`: six nodes give several levels with siblings, and every order of
  closing rows inside closed rows. The theorems remove this bound.
* `MaxObject`, `MaxPending`: a `UIBreadcumbs`, three views on it and one more
  object, or two `UIBreadcumbs`; two callbacks of one component.

### Fairness

* The threads of the scheduler and the runners: the JVM schedules runnable
  threads, and a *script is assumed to end*. Nobody is obliged to submit, start or
  stop; only a submission that has its id goes on to its offer.
* The clock ticks, and the thread of `run()` goes on; its interrupt is not fair.
  Nothing is assumed of the workers for `RunReturns`. For `TasksEnd` they are
  scheduled and a `send()` returns or throws.
* The scripts and timer threads of the failure simulator are scheduled and every
  command returns with some reply, since each has a `--timeout`; exceptions and
  further simulators are possible and not fair.
* `TestSpec` and `ScreensSpec` have no fairness: a user need not go on, and that an
  accepted job is finished is the business of `JobScheduler` (`AcceptedIsFinished`).

### Assumptions on what is outside

The script and the description of a job are read in one step, and two calls of `mapAll`
do not overlap each other; all other steps of two requests do, and `JobIsLastGiven`
says what a job then has. The container calls `start` and `stop` in turns. Fields
without `volatile` are taken as sequentially consistent, since the scheduler thread
passes through `sleep`, `take` and thread starts between two jobs. `offer` on an
unbounded `LinkedBlockingQueue` neither waits nor fails. JavaScript handlers run one
at a time and to their end, and the popup lies over the table.

## 4. Proofs

The modules `*Proofs` are checked by TLAPS from nothing. In each the invariant that
is proved by induction is `IInv` (in `TestClusterProofs` `SubmitInv`, `LineInv` and
`DeployInv`, for the tree table `TreeInv`),
a conjunction of named parts, with a lemma for every action, or for every part and
action where an action disturbs several.

*JobScheduler*, for every set of jobs and of schedulers, assuming only that
`NoJob` and `NoScheduler` are not among them. The properties are not inductive:
`OneRunnerAtATime` says nothing about where the thread is, so a step that starts
a runner could not exclude another one. `IInv` adds

* `RunnerInv`: a live runner belongs to the running job, and the thread polls,
  sleeps or has been interrupted; hence one runner at a time;
* `ThreadInv`: at each place of the thread, the state of the job in hand;
* `QueueInv`, `FinishedInv`: queued jobs have not been started, finished ones have
  ended, neither is the active one, no job is queued twice;
* `IdInv`: jobs of one scheduler have different ids, all at most the counter.
  This is why `put` never replaces a report (`PutFreshId`), and so why
  `NothingLost` holds although ids and offers may be in different orders;
* `LateTakeInv`, `InfoInv`: what is known after a late take, and at each of the
  three reads of `getInfo`.

`InductiveInvariant` is proved with a lemma per part (`InitX`, `NextX`) and a step
per action; the listed theorems follow. `SchedulerImplementsJobQueue` maps a
scheduler to `JobQueue` with `Active(s)` for the job in hand and the dead runners
for the executed scripts: `SubmitOffer` is `Accept`, `TakeJob` is `Begin`,
`CloseShell` is `Execute`, `PutFinished` is `Complete`, everything else stutters.

`InfoMissesAtMostOne` needs one more part, `KnownInv`. `getInfo` reads the running job,
the queue and the finished jobs one after the other. While it reads the queue, every job
it knew of that is still in the queue has been read or is ahead of the iterator. When it
is through, every job it knew of is in what it read, or in hand, or finished; there is
one job in hand. Finished jobs stay, so no further one gets lost. `ReportFollowsTheRun`
is about the report itself: the runner of a finished job is dead, so nothing writes its
output any more; that there is one is not stated, since `new Shell()` may have failed.

*UITable*, for any items, filters, pages and page sizes. `PagesCover`, `PagesDisjoint`
(every position is on exactly one page) and `SubRangeExists` (the offered pages exist
and hold the current one) are about the operators of `PageList`. The invariant of the
table has two lists in it, its own and that of its page list, which is the same array
without a filter and an older one with a filter:

* `ItemInv`: both hold nothing twice and nothing that was removed. A removal takes the
  item out of both, and this is why `RemovedStaysAway`; that they hold nothing twice
  is needed, since `splice` takes out one.
* `PageInv`: what was cut out last is the current page of the list *as it is now*, and
  the browser shows it (`RowsAreCurrent`). Every handler has to cut again after it
  changed the list, also when `_filter` throws. Then the page list can count less than
  it has (`thrown`); otherwise it counts all. `EveryItemHasAPage` says both: every item
  that is counted is on a page, and all are counted unless `_filter` threw. `SizeInv`
  (what the class's `config` holds is a page size) is needed by the next `setBeans`.
* `PopupRowIsItsBean` is a part itself (`PopupKeepsItsBean`): the popup is modal, and
  the saves that happen while it is open leave its row where it is.

A filter is a selection of positions (`Selection`). That such a selection exists, is
unique and keeps the order is `OrderExists` and the lemmas after it, by the
least-element principle instead of induction on the list.

*UITableTree*: `TreeIsShown`, for every tree. Two facts about the rows below a row,
`BelowIsTransitive` and `BelowIsNested` (blocks of rows contain one another or are
disjoint), give `ToggleKeepsShown`: for any rows with any depths, a click preserves
that a row is displayed exactly when it is below no closed one. The tree comes in
with `RowsAreWritten`: the rows are the nodes, and two rows are in the order in
which their nodes are written. That this order is total and transitive
(`BeforeTotal`, `BeforeTransitive`) makes the `Place` of a node a row of its own
(`PlaceFacts`), so `render()` establishes it. What is written between a node and one
below it is deeper (`BetweenFacts`), and before a node that is written later but is
not below comes one that is not deeper, if it is not so itself (`ApartFacts`). So the
deeper rows that follow without a gap are the rows of the nodes below (`BelowFacts`),
and the page can do without the tree.

*UIBean*, for any number of beans, inputs, keys and timers. `Tabs` says that the tabs
have different beans, all bound before, and the array is those of the tabs
(`TabsAreTheArray`); `OneSelected` that one tab is, which every deletion has to
restore. `Originals` is `OriginIsInitial` with what makes it inductive: an original is
taken when a bean is edited for the first time, and by then it has been given a value
of its multiple input, so a bean that is restored keeps it (`EditedHasMulti`). The beans
that were changed without an original (`slipped`) are outside of it, by dates, the
autocompletion, OK, or a number whose text was written back (`OnLeaveNumber`). A bean
that is not bound yet is what it will be bound with (`NewIsInitial`). `TextInv`
is about the selected tab only, and not while a key may have changed the text; the
flags that a late click leaves behind (`FlagsAreLate`) are known, so a blur
that takes one for a selection is known to spoil the text: `TextIsTheBeans` does not
speak of the text that such a blur leaves.
`LateDateFindsItsBean` is an action property: a waiting timer refers to a bean that
has been bound, whatever has become of its tab, and besides it only a Restore changes
a date, to that of the original.

*MessageSender*, for every set of tasks and every limit. `TaskInv` says of each task
that its driver follows its place, that its timer is cancelled before it is
finished, and that a timer that may still send is below the limit (one message when
the limit is 0, since the timer counts after the send); `SentWithinMax` and
`ClosedIffDone` follow at once, and the action property `NoFireAfterClose`
follows from it. `TerminatedRanAll` needs to know that every queued task is in the
queue, once (`QueueInv`), and how far the loops of `run()` have come, so that no
task is left to be created or submitted (`PhaseInv`). `ImplementsSendCommand` needs
all of it: `CreateTask` opens a connection that was never opened, because of
`PhaseInv`; `Fire` and `SendNext` are sends the abstract command allows and
`OnFinish` closes an open connection, because of `TaskInv`; `AwaitDone` is a complete
answer, because of the invariant after the step. `TimerSend` and `TimerSendFails` end
a send, and the clock, the queue and the sleeps stutter.

*ServiceFailureSimulator*, for every number of jobs, simulators and members.
`DownIsAccounted` is nearly inductive; `LateStopInv` adds that a
timer has stopped nothing late as long as its shell is open, or while it is between
`isClose()` and its stop; this is why there is no second one. `CleanupHitsOnePerJob`
is a bound on a number, and its invariant names who is counted. `TimerInv`: before the
script simulates failures, the timer of its job is idle and has nothing to do.
`StoppedInv`: a service that runs although the script has stopped it was started late,
by the timer of an earlier job which is idle again and whose last target it is
(`StartedLate`). The shell of that job is closed, so its timer begins no further run;
the services that run are therefore last targets of earlier jobs, at most one for each
(`ImageIsSmall`), and the consumer is the target of none. `missed` are
the services whose stop by the script had no effect; nothing is said of them.

*Workspace*, for any plugins, components and labels. `MadeInv` says that the views
on the stack and their owner are objects that have been made, so that a new one is
on no stack; without it, a push could give a view on the stack another label, and
`CrumbsMatchViews` would not survive. `CrumbsLeadHome` is about an action property: a
crumb with a label leads to the topmost view of that label, which is the crumb's own or
one above it, and what is below stays. With equal labels it need not be its own.
`ImplementsViewStack` rests on `CrumbsMatchViews`: the code searches the labels of
the views, the abstract stack the names on the crumbs, and the search for the label
of a view that is on the stack finds that view or one above it (`TopmostFacts`,
`ReturnImplements`). `back()` is the same step as a crumb, that of the view below.
`SelectionIsShown` needs `SelectionInv`: as long as selections did not overlap, one
callback is awaited at most, and it is of the component that was clicked last.

*TestCluster*, for any clients, scripts and parameters, assuming that `Calls` gives
a sequence of requests to each client and that a request is one call of one script.
`JobIsLastGiven` is about the past: each parameter of a job has the value that was last
put into the field by some moment between the mapping of its request and now, and by
the mapping itself if the request was not overtaken. `MappedInv` orders the mappings,
`FieldInv` says that each field has the value put in last, `BusyInv` that a request that
is mapped and not overtaken is the last one mapped, `MadeInv` what its job has then; what
was last at an earlier moment stays so (`LastGivenStays`), also when a mapping ends
half-way (`MapStep`). For the queue, `CallsInv` says that a
script has made no call past one that did not succeed; this is what turns the answer
of a request into an order of jobs (`ScriptOrder`). That the scheduler is a
`JobQueue` is `SchedulerImplementsJobQueue`.

*The deployments in it*, for the three scripts, whichever commands fail on whichever
servers, and however often the scripts are called. `CallsAreComplete` speaks of the end
of a call only, and `LocationsAnswer` of what runs, not of the commands that are left;
neither is inductive. `DeployInv` adds what is left (`todo`). `ReachInv`: where a module
runs and where `install` will still go is together all it has to reach, and `uninstall`
has still to go where a module runs; with nothing left this is `CallsAreComplete`.
`ConnectInv`: while a module runs, all the servers run that it was given. Its step needs
the order of the commands: on an `install`, when a module's turn comes no command is
left for those it connects to, and on an `uninstall`, when the turn of one of those
comes nothing of the module is left (`ConnectedRanks`: its place in `install` is after
theirs, its place in `uninstall` before theirs; the clients of Yara are the exception).
`InstalledInv` says at which port a module can be at all (`Possible`), from which
`Locations` concludes that only one answers, and `NobodyAnswers` that none does at
`kafka-2:9092` of `minimum-cluster-deploy.js`. A module for which a command has failed
is in none of these, and the proof shows that this does not spread: what is stated of
the others needs nothing of it. That the scripts are in the order of the ranks, and go
to all the servers, is proved of the commands themselves (`InstallScript`,
`UninstallScript`): `PartsJoin` puts two parts of a script together, `ByServerPart`,
`ByRolePart` and `UninstallPart` are about the commands of one module.

*Screens*, for any number of members, responses and blocks. `KindFacts` extracts
what is used of the sixteen records: only the list of applications appends, and a
screen made from the one below has no refresh. The second is why `DetailsBelong`
holds. `Agree` says how the components of a screen fit its page: they are the same,
or its refresh has thrown (`torn`), and then they are fewer than it has blocks and from
one response, or, of a search, still the hits that are drawn. A screen made from the one
below, and the list of applications, is never `torn`. What is on the page is of one
response in any case, because nothing is drawn before a refresh is through and a crumb
draws what `Agree` describes.

*Only model-checked*: liveness (`AcceptedIsFinished`, `StopEndsThread`,
`RunReturns`, `TasksEnd`, `OutageEnds`), which is out of the prover's reach.
`ReportIsFinal`, `SentWithinMax` (which `ImplementsSendCommand` implies),
`CrumbsMatchViews` (on which `ImplementsViewStack` rests) and the type invariants are
in no run and only proved. The safety properties of the runs are all checked and
proved.

## 5. What the properties exempt

Where the code does less than one might expect, the model does the same and the
property says so:

* `getInfo` can throw, and can miss one job that is between queue and
  `runningJob`. After a stop, queued jobs stay in a scheduler that nobody
  serves, and after a restart the runner of the old scheduler may still work
  next to the first of the new one. A runner whose shell cannot be made ends without
  an output, and its job is reported without one (`RingBeaderJobScheduler.java:100`).
* A send command that runs out of time drops the tasks in the queue and never
  closes their drivers; one whose driver cannot be made leaves the earlier ones
  open. A timer firing in progress may send on a closed driver.
* A failed command of the simulator, or of the script, can leave a service stopped
  (`broken`). A late start of an earlier job's simulator can come between the stop and
  the cleanup of the next script, which then removes the data of a running service:
  `CleanupHitsOnePerJob` bounds their number and does not exclude it, and exempts the
  services whose stop failed (`missed`).
* A request that states no file, words or description takes those of the request before,
  whoever sent it; once any request has named a file, words are ignored for good
  (`RingBearerCommandPlugin.java:40`). A request whose mapping fails half-way leaves
  what it has set to the later ones. A request that another is mapped in the middle of
  (`overtaken`) can take the other's parameters, though for what it states itself never
  those from before its own mapping. A request whose caller gave up can still become a
  job (`late`), and a job that was answered with true is gone when the module is removed
  (`lost`).
* `minimum-cluster-deploy.js` installs its second broker at port 9093 and names
  `kafka-2:9092` to those who connect to it; `LocationsAnswer` says that nobody answers
  there. The clients of Yara are uninstalled after their server, and nothing is said of
  their locations in an uninstall. `HttpCluster.js:54` uninstalls `HttpGateway`, where
  `Http` was installed, so Http stays. `installByRole` of `ElasticSearchCluster.js` says
  `module` for `--module` and installs nothing. A failing command leaves a module on
  some servers only.
* A refresh that throws leaves blocks on the page that are not those of the components
  (`torn`): `UIJVMInfo` and `UIMetric` clear before they ask, `UIJobScheduler` when it has
  a response, and all three add block after block before they draw. Folding a block
  without a component throws, and when the screen comes back it shows what is left, of
  the newer response. A search without an answer keeps the old hits, and the template
  throws when such a search comes back, so nothing is drawn. A list of applications gets
  one more block with each refresh.
* A popup that stays open adds a new bean again at each save. The page size chosen
  is forgotten by the next filter, and taken by the next `setBeans` of every table of
  the class. After `render()` the filter input is empty
  and the list still filtered. `_filter` throws on a bean without the field, with
  the bean added and the old pages kept (`thrown`). Removals and `setBeans` do not
  count again, so the counts have no property.
* Callbacks of `require()` are shown as they come (`overlap`). A crumb without a
  label (`"???"`) finds no view and empties the stack. `back()` stays where it is if
  the view below has the same label.
* Dates, the autocompletion, OK (the numbers it makes of texts included) and leaving the
  input of a number as it is change a bean without keeping its original (`slipped`), and
  a date that is stored after a Restore is in the restored bean. The list of a search
  can come up after the blur; a click in it leaves a flag that the next blur takes for a
  selection, and the text stays (`lateClick`, `spoiled`).

## 6. Finding

`sender_total`: the option `--max-num-of-message` is documented as "Maximum number
of message for all tasks" (`MessageSenderConfig.java:32`); each task counts for
itself (`MessageSenderTask.java:45` and `:86`), so two tasks with a limit of two
send three messages and more.

## 7. Plan and what is not modelled

Done, in this order: job scheduler with its abstract queue and proofs; message
sender; failure simulator; page list and table; workspace; bean editor; tree
table; submit command, deployment and their composition with the queue; screens;
the proofs of the message sender, the simulator, the workspace, the test cluster
and the screens; those of the table, the bean editor, the tree table and what
remained of the scheduler and the workspace; those of the deployments; the abstract
send command and the abstract stack of views, and their refinements. What is left of
the plan:

1. `bind()` of named beans in `UIBean`.
2. Two calls of `mapAll` that overlap each other, field by field.

Not modelled, because no state or order of it could be wrong in a way a model would
tell: the message drivers and REST clients (one call each), the command API screens
and the content block (text), the demonstration plugin, the start of the console,
job scripts that are the one in `ServiceFailureSimulator` without its simulators,
start scripts, Vagrant and Gradle. Of the modelled components: the column selector,
toolbars and `commitChange` of `UITable`; `UIBreadcumbs.render` with views on the
stack and `remove`, which nothing calls; `setReadOnly`, validation messages and the
test hook of `UIBean`; `setCollapse` of `UITableTree`; `remove` and
`setActionHidden` of `UICollapsible`; `metric()` and `submitRingBearerJob()` of the
`*Cluster.js` objects, which nothing calls. The libraries under `webapp/js/libs` and
`webapp/kibana` and the RequireJS plugins (`text.js` and others) are third-party
code. They are about four fifths of the lines of program code in the repository, and
nothing here is about them.

## 8. Running

    tlc -workers 2 -config MCJobScheduler.cfg MCJobScheduler
    tlapm JobSchedulerProofs.tla

and likewise for the other `MC*.cfg` files (the name of the module is the longest
prefix that is one; `MCScreens.cfg` goes with `Screens`, which needs no module of
model values) and the other `*Proofs.tla`. The largest run takes about three minutes,
the proofs of the scheduler and of the message sender a few minutes each.
