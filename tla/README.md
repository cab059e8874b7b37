# A verification development for Data Lifecycle Manager

Data Lifecycle Manager (DLM) is a Play backend (`src/dlm-app`, Scala) with an
Angular interface (`src/dlm-web`).  Every cluster that DLM manages runs a
*Beacon* server, which replicates data by *policies*; DLM talks to Beacons with
`src/clients/beacon-client`, to Ambari, to the Dataplane services, and to cloud
storage.  DLM keeps little state of its own, so most of what can go wrong lies
between calls: a request is a chain of `Future` callbacks, nothing serializes
two requests, and each call may fail before or after it took effect.  The
interface keeps a store that is filled by answers which come late, out of order
or not at all, while the user goes on.

The TLA+ modules here model the parts of DLM that keep state or coordinate
several servers.  TLC checks them on small instances, and the TLA+ proof system
(TLAPS) proves the theorems of section 5 for every value of the constants.

Sources are named by their file; those of the backend are in
`src/dlm-app/app` and `src/clients`, those of the interface in
`src/dlm-web/src/app`.

## 1. Inventory

### Backend

| Component | State | Operations | Interacts with | Module |
|---|---|---|---|---|
| DLM keystore, `services/DlmKeyStore.scala` | one serialized list of cloud accounts under one alias; a Guava cache in front of it | list, get, add, update, delete; reload event | Dataplane keystore library; every request about accounts | `DlmKeyStore` |
| Cloud credentials, `BeaconService.scala` 1103-1545, `CredentialStore.scala` | the account in the keystore; versioned copies of it on Beacons | add, update, sync, delete, unregister; a policy provisions a Beacon | keystore; all Beacons in parallel | `CloudCreds` |
| Pairing, `BeaconService.scala` 154-397, 764-862 | cluster definitions and pairings, on Beacons | pair, unpair, create the local definition | Dataplane, Ambari, two Beacons | `Pairing` |
| Policy submission, `BeaconService.scala` 565-755 | policies, on Beacons | create, test, update, delete | pairing (local definition), credentials (provision), all Beacons (same target) | `PolicySubmit` |
| Lists of all Beacons | none | policies, events, admin statuses, credentials with policies: ask all, merge, sort, cut into pages | all Beacons | `Listings` |
| Ambari and Dataplane clients, `AmbariService.scala`, `DataplaneService.scala`, `EndpointService.scala` | none | details, health and definition of a cluster; the list of Beacons | their services, by several calls each | `ClusterLookups` |
| Cloud storage, `CloudServiceImpl.scala` and its services | none | validity of accounts, files of a directory | keystore, clouds | `CloudStorage` |
| Requests passed on to one Beacon, `WebService.scala` and the clients | none | look the Beacon up, call it, make a result or an error of what comes back | one Beacon | `Relays` |

### Interface

| Component | State | Module |
|---|---|---|
| Requests: `async-actions.service.ts`, `progress.reducer.ts`, the effects | progress entities, calls under way, observers | `AsyncActions` |
| Policy wizard: steps, forms, validation, creation | the steps in the store, five forms, two requests | `WizardSteps`, `PolicyWizard` |
| Schedule step | form, errors as old as the last validation | `ScheduleForm` |
| Source step: cluster, super user, databases, tables | what was chosen and what was answered for which choice | `SourceCluster` |
| Source step: directory with its browser | field, verdict, browser, one listing for all | `SourceDirectory` |
| Advanced step: queue | queues in the store and in the form | `QueueChoice` |
| Page of policies: rows, filters, pages of the table | filters of the table and of the page | `PolicyRows` |
| Policies in the store, polling, commands of a row | policies, calls, confirmation | `PolicyStore` |
| Row details: jobs and files | one page of jobs for all rows | `JobsPanel` |
| Log dialog | log asked for, loop of the dialog | `LogViewer` |
| Event feed | events, `headId`, `tailId` | `EventFeed` |
| Clusters and their map | clusters, statuses, markers | `ClustersMap` |
| Jobs of the overview | jobs in two places of the store | `Overview` |
| Pages of pairings | pairings, choice of two clusters | `PairingPages` |
| Page of clusters | loads, submissions, menus | `ClusterList` |
| Page of cloud accounts | accounts, credentials, deletions | `AccountsList` |
| Dialog of an account | form, validation, saving | `AccountForm` |
| Session: user, roles, logout, time zone | storage, service, what is shown | `Session` |
| Messages about requests | toasts, their links, an effect that may end | `Toasts` |
| Views, selectors, pipes, styles | none of their own | none (section 7) |

### What is hard here

* *Interleaving.*  Every read-modify-write of the backend spans callbacks: the
  keystore's list, the definitions that a pairing found missing, the account a
  policy provisions with, the policies a new one is compared with.
* *Partial failure and lost responses.*  A change that goes to all Beacons may
  reach some of them; a call that is answered with an error may have worked.
* *Stale copies.*  The cached account list, copies of accounts on Beacons, lists
  of definitions, everything the interface has in its store.
* *Order of answers.*  `switchMap` cancels the call of an older request, `mergeMap`
  keeps it; forms, dialogs and rows take answers that were meant for what was
  open before.
* *Liveness.*  The backend completes a `Promise` by hand in every branch; loops
  of the interface go on only if each round ends.
* *Boundaries.*  Pages of lists, days of the week, first and last steps.

`PROJECT.json` lists forty hazards, each at its line, with the properties that
would catch it.  Against some of them the code does nothing: these have no property
but a note, and section 6 says what the models show of them, and of some more.


## 2. Modules

`Backend`, `PolicyPages`, `PollingPages` and `WebPages` each compose several
components.  Where components have no state in common, `part` names the one that
takes steps in a behaviour, and what one does to another appears in the other as
something that may happen at any moment (a call that may fail, a list that comes
although it was not asked for here).  Composing them any other way would only
multiply independent states.

| Module | Role |
|---|---|
| `CloudAccountStore` | abstract specification: what `DlmKeyStore` promises |
| `DlmKeyStore` | implements it under stated assumptions |
| `CloudCreds`, `Pairing` | checked on their own |
| `PolicySubmit`, `Listings`, `ClusterLookups`, `CloudStorage`, `Relays` | the parts of `Backend` |
| `WizardSteps`, `PolicyWizard`, `ScheduleForm`, `SourceCluster`, `PolicyRows`, `QueueChoice` | the parts of `PolicyPages` |
| `PolicyStore`, `JobsPanel`, `LogViewer`, `EventFeed`, `ClustersMap`, `Overview` | the parts of `PollingPages` |
| `PairingPages`, `AccountForm`, `AccountsList`, `SourceDirectory`, `ClusterList`, `Session`, `Toasts`, `AsyncActions` | the parts of `WebPages` |
| `SortedSeqs` | sequences in an order, for `Listings`, `EventFeed`, `ClustersMap` and `Overview` |
| `*Proofs` | the theorems about the module they are named after, and the lemmas they rest on |

An action stands for a whole handler with the calls it makes.  `PROJECT.json`
maps every definition to its lines.  A comment at the head of each module says
what is left out; what follows is how state and actions correspond to the code
where this is not obvious.

### DlmKeyStore

A caller is a request being served.  A writer has two steps after the one that
reads the list: `Write` (`saveCloudAccountsToKeyStore` up to the write) and
`Invalidate` (the callback that invalidates the cache).  `RefuseWrite` stands for
each way a writer ends with an error.  A reader takes the cached value, or loads
it (`Load`, `FinishLoad`), or waits for the load of another caller.  `Reload` and
`Notify` are a replaced keystore file and the event that invalidates the cache.
`seen[c]` is the list a callback closed over.  The keystore holds `NotFound`
until it is first written, and a read that fails gives the same value, because
`getCloudAccountsFromKeyStore` answers `Left` to both.

External and assumed: a keystore write that fails leaves the store alone; Guava
shares one load among the readers that miss, and loses an invalidation that
arrives during a load.  Deserialization succeeds.  `Overlap` FALSE says that
writers do not overlap, which the code does not enforce; it states the condition
under which the abstract specification is implemented.  What holds when they do
overlap is `LosesOnlyOverlapped`: a write makes one change to a list that was read
before, so it loses the changes made since, and nothing else.

### CloudCreds

`account[n]` is the account of a name in the keystore; `creds[b][n]` its copy on
Beacon `b`.  A handler goes through phases: `list` (`getAllCloudCreds`), `account`
(the keystore), `lookup` (`getCloudCredByName`) and `push` (create, update or
delete on Beacons); the calls of a phase are made in parallel, and `todo` holds
the Beacons still to answer.  Each keystore operation is one step, which is what
`ImplementsStore` shows of writers that do not overlap.  A lookup of Beacons
may fail, and the request is answered with an error, or never complete
(`pc` "hung").  A copy is a version
and a secret; what DLM shows as in sync (`getClusterCred`) is equality of
versions.  Which credential is first in a Beacon's listing is left open.

Left out: WASB and ADLS accounts, for which every branch answers an error or
nothing, and add requests that bring a version of their own.

### Pairing

`defs[b]` are the clusters that the Beacon of `b` has a definition of, `paired`
the pairs.  The calls to Dataplane and Ambari that precede a step are one choice
to fail in it (`NoDetails`, `FindClusters`).  Submissions and deletions are made
in parallel (`Submit`, `Remove`, one definition at a time).  A step that changes
a Beacon may also report a failure afterwards (`Outcomes`).  A CONFLICT is
forgiven to a pair request (`pairClusters` looks for errors with another code)
and not to a local definition (`checkAndCreateClusterDefinition` does not look).
`FindClusters` has a disjunct that goes to the phase `lost`: the second result of
`getDpCluster` is used although it is an error, which throws inside the callback.

Assumed of Beacons: they refuse a definition they have, a pairing without
definitions, and the deletion of a definition that has peers; both agree on what
is paired.  Requests that do not name two clusters are refused at once and left
out.

### Backend

* `PolicySubmit`.  `work[h]` is the request a handler serves, with what it was
  told of the Beacons; between any two calls the others go on.  Paths are the
  sequences of their names, and the check of targets is by prefixes.  Each Beacon
  lists at most `NumResults` policies (`List`), and at most `NumResults` of all they
  listed are checked (`Checked`): which ones is left open.  `Withdraw` is another
  request that deletes a credential.  `NeverAnswered` are the lookups whose
  exceptions nobody handles; a handler so left is `Hung`.
* `Listings`.  All Beacons are asked at once; each answers with what it has, or
  not at all, and one operator makes the list: merge, sort, cut.  The properties
  compare it with a reference definition over the union of what the Beacons have.
* `ClusterLookups`.  `lists` are the tables a request read, `answered` the clusters
  that Ambari was asked of, `lost` those whose call failed.
* `CloudStorage`.  The keystore is read twice in the same request, accounts may be
  replaced between, and either read may fail; the directory listing is an
  operator on object names, of which S3 gives one page (`MaxKeys`).
* `Relays`.  `came` is what comes back of a call (a status and whether there is a
  body that can be read), `given` what is made of it.

### PolicyPages

* `WizardSteps` has the reducer, each action an operator from steps to steps;
  `PolicyWizard` the forms, the effects and what the steps take from one another.
  All five forms live as long as the wizard, and late answers come to whichever
  wizard is open, as in the code.
* `ScheduleForm` keeps the errors of the last validation: Angular validates a
  control when it or its group is updated.  Dates are numbers.
* `SourceCluster` keeps calls that `switchMap` does not replace as a set, so that
  their answers come in any order.  `newest` numbers the choices of a cluster, and
  `told` is the choice that the last answer about the super user was asked for.
* `PolicyRows`: `applied` is what the filter component shows as tags, `filters` what
  it told the page, `shared` whether it changes the page's array in place.
* `QueueChoice` listens to the steps before it also while it is not shown.

### PollingPages

* `PolicyStore`: `known` are the policies whose jobs are in the store, `missed` those
  that a list no longer had.  The server's policies change at any time.
* `JobsPanel`: one page of jobs for all rows; maps hold what each row chose.
* `LogViewer`: `waiting` is the log whose policy is being listed first.
* `EventFeed`: `happened[id]` is the Beacon of the event; the reducer's merge
  (`headId`, `tailId`) is `Newer`/`Older`.
* `ClustersMap`, `Overview`: what is drawn or counted is derived from the store by
  the selectors, as operators.

### WebPages

* `AsyncActions`.  Requests are numbered in the order of their dispatch, so
  comparing numbers compares ages.  An action waits in `queue`, is reduced, and is
  then seen by the effects, in one step (`Reduce`), as ngrx does; observers that
  the new state completes dispatch their removals in the same step.  `Dispatch` is
  enabled while the queue is not empty: components react to states by
  dispatching.  `Respond` needs an empty queue, since a response is an event of
  its own.  `Merged` are the types with `mergeMap`, `Deletions` those whose effect
  may emit FAILURE and then SUCCESS (`deleteCloudStore$`).
* `PairingPages`, `AccountForm`, `AccountsList`, `ClusterList`: the calls of a page
  that a newer one replaces, with the server still doing what it was asked.
* `SourceDirectory`: a path is the sequence of its names; `debouncing` is the 500
  milliseconds after typing.  All listings of HDFS go through one effect.
* `Session`: the zone in the browser's storage, in the service, in moment, in the
  dropdown, and the one a time was last shown in.
* `Toasts`: `ended` are the requests that ended; `listening` is whether the effect
  is still subscribed.

## 3. Runs

| Run | Module | States | Checks and shows |
|---|---|---|---|
| `KeyStoreRaces` | `DlmKeyStore` | 590 110 | `TypeOK UniqueIds CacheCurrent LosesOnlyOverlapped`: overlapping requests, failing reads, a replaced file: ids stay unique, the cache is stale only in the windows the invariant names, a write loses only what was written since its list was read, or could not be read |
| `KeyStoreSerial` | `DlmKeyStore` | 190 595 | `ImplementsStore RequestsAnswered`: without overlap and failing reads the keystore is an atomic store of accounts; every request is answered |
| `CredsSerial` | `CloudCreds` | 216 302 | `TypeOK VersionsTellSecrets`: one request at a time, calls that change a Beacon fail in every way: a copy in sync is the account |
| `CredsRaces` | `CloudCreds` | 119 451 | `VersionsTellSecrets RequestsEnd`: two requests at a time, every call may fail, nothing is deleted: the same, and every request ends unless its lookup of Beacons never does |
| `CredsUnlisted` | `CloudCreds` | 682 542 | `SyncedWhenClean LeftoversReported`: two names, listings fail too: an update or sync answered without errors has reached every copy; a delete names each Beacon that may keep one, but those that deleted another credential in its place |
| `PairingRaces` | `Pairing` | 852 027 | `TypeOK DefinedBeforePairing PairErrorsHaveReason UnpairCleansUp`: two requests of any kind: no pairing without definitions, no failure without a reason, no definition left behind |
| `Backend` | `Backend` | 350 338 | `TypeOK RequestsFit AnswersFit AllAnswered`: targets apart unless the check could not know, policies with what they need, refusals with a reason; lists once, in order and in pages that agree; every request answered but for lookups that hang |
| `Wizard` | `PolicyPages` | 570 556 | `TypeOK OneStepActive SubmitsSaved EndsFit ChosenDay ShowsStore EditsVoidValidation`: steps, forms and late answers; the first day; rows, filters and pages |
| `PollingPages` | `PollingPages` | 123 638 | `TypeOK DeletedStaysAway LoopsRun JobsSettle ShowsOwn ListedFits CatchUp`: late, lost and crossed answers; loops go on; in the end the pages show what there is |
| `WebPages` | `WebPages` | 425 651 | `TypeOK SubmitsFit BusyForCall OutcomesFit ShownFits AllEnd`: pages and dialogs with requests that are cancelled, late or fail |
| `CredsWrongDeleted` | `CloudCreds` | violated | `OnlyNamedDeleted`: deleting one credential removes the first in the Beacon's list |
| `PairingHangs` | `Pairing` | violated | `RequestsEnd`: an unpair is never answered when the second `getDpCluster` fails |

The two violated properties state sentences of the source, which the comments of
the properties and the findings in `PROJECT.json` quote.

*Bounds.*  Two callers or handlers give every race between two requests, and no
property relates three.  Two Beacons tell "some" from "all"; two names tell the
named credential from another.  Two clusters make one pair; with three clusters
and two handlers the space is beyond TLC, and what a pair reads of a third
cluster's definition is nothing.  `MaxVersion` 2 (3 in `CredsUnlisted`) allows an
update of an update or an account added back; `MaxReloads` 1 replaces the file
once.  `MaxRequests` 3 allows a request cancelled by another that is cancelled in
turn, and in `Backend` two policies that check at the same time and one that comes
after; `NumResults` 1 makes two policies, of one Beacon or of two, more than the
check sees, and `MaxKeys` 3 makes a bucket of four objects more than a page.  `CredsRaces` uses one name and one Beacon: its property speaks of one copy
and one account.  In `Backend` one change of the clusters, and one account
replaced, between any two calls; in `PollingPages` two policies (the row left and
the row opened), events before and after the first list, more events than a page
has, two clusters at one place of the map, and a window of jobs smaller than their
number; in `WebPages` two dialogs opened (the answer for the first comes to the
second), four edits of a directory (three do not part the browser from the field,
section 6), two clusters to pair and three listed; in `PolicyPages` three policies
with two changes of filters, and days
before, on and after the chosen weekday, to the end of the week and beyond.
Other bounds (`MaxMoves`, `MaxPicks`, `MaxSaves`, ...) count what the user does, and
are in the configurations.

*Deadlock* is checked but where the system may stop by itself: a lost request
stays where it is (`PairingRaces`, `PairingHangs`, `Backend`), and pages whose
bounded inputs are used up wait for nothing.

*Fairness.*  In the backend, weak fairness of each request's own steps: a `Future`
that is running completes, since the HTTP client answers every call with a
response or, by its timeout and `recoverWith`, an error.  Requests need not come.
Lookups whose exceptions nobody handles are the exception: the host of a Beacon
(`EndpointService.scala:174`), the list of Beacons (`DataplaneService.scala` 141-162) and
what a cluster's definition is made of.  They have a step of their own that ends
in "hung" or "never", and `RequestsEnd` and `AllAnswered` say that each request is
answered or hangs in one of these.
In the interface the browser works off its queue, a call that is not cancelled
ends, and timers fire; neither dispatching nor unsubscribing is fair.  The
answers `PollingPages` asks for are those of calls made again and again; strong
fairness says that not every one of them is replaced, or fails, before it is answered, and it
is used by `CatchUp` alone.  `CatchUp`, `AllEnd` and `AllAnswered` have one formula for all
parts, of which a behaviour has one at work.

## 4. Abstract specifications

`CloudAccountStore` is an atomic store of accounts; `DlmKeyStore` implements it
when writers do not overlap and reads do not fail (`ImplementsStore`, checked in
`KeyStoreSerial`).  The code ensures neither, so this is no theorem: what is proved
holds without these conditions.  `CloudCreds` takes each keystore operation as one
step, as the abstract store does.  The pages take from `AsyncActions` which calls
are cancelled.  Pure algorithms have reference definitions as properties:
`Listings` (`PoliciesOnce`, `PagesAgree`, `CredsJoined`), `CloudStorage!FilesFit`,
`ScheduleForm!ChosenDay`, `PolicyRows` (`TagsTell`, `PagesReach`), `EventFeed!NewestFirst`,
`ClustersMap!MarkersFit` and `Overview` (`CountsLead`, `NewestShown`).

## 5. Proofs

`PROJECT.json` lists the theorems.  Each holds for every value of the constants
that satisfies the named `ASSUME` of the modules (types, finite sets, what the
sets a CHOOSE takes from contain) and for any interleaving and failure, with the
hypotheses named here and no other.  An invariant of a composition is proved
part by part: each part has an inductive invariant of its own, which holds
whichever part is at work, since a step of another part leaves its variables.

*DlmKeyStoreProofs.*  `TypeInv` is `TypeOK`, uniqueness of ids in every list that is
stored, cached, read or answered, and the fact that a caller about to write has a
write request; it gives `TypeCorrect` and `IdsStayUnique`.  `CacheInv` adds to
`CacheCurrent` that one load is under way at most (Guava's part) and what a load in
progress has read; `CacheCurrent` alone is not inductive, since `FinishLoad` caches a
value that was read earlier.  It gives `CacheStaysCurrent`.  `OverlapsBoundLosses` is
about any overlap of writers and any failed reads.  `BehindInv`: what a writer has
read agrees with the stored list in all accounts but those written since
(`behind`), so that the list it writes differs from the stored one by its own
change and in those only (`WriteIsChange`); every other step is one of
`CloudAccountStore` or a stutter.

*CloudCredsProofs.*  `TypeCorrect` needs `MineOK` (what a handler took is at most one
credential).  `VersionsAreEnough` assumes that "delete" is not requested.  Its
invariant `KnownOK` calls a credential *known* when some account of its name has a
version at least as high and, if the same, is the same; every copy and every
account a handler holds is known.  Accounts only grow (`GrowStep`), so a known
credential stays known.  The other theorems are about requests served one at a
time (`Serial`) with Beacons whose admin statuses always come.  `Progress` says for
each phase which Beacons have been heard, which copies are current, and that a
failure has left an error; it gives `SyncsAreComplete` and `DeletesAreReported`: a
Beacon that was asked to delete has lost the copy (`Cleared`), is among the errors, or
its list was headed by another credential, which is the one it lost.  `SerialVersionsAreEnough` also has deletes, and
accounts that are added back, when lists of credentials do not fail: `AllTold` says
that an account about to be added is above every copy there is.

*PairingProofs.*  `TypeCorrect` needs `PhasesOK`, which says in which phases a
request of each kind can be.  `DefinedBeforePairing` is about the last phase only, so
`DefinedWhenPairing` rests on two facts about the earlier ones.  `KnownIsDefined`:
what an undisturbed request was told is so, and while it submits, every definition
it needs is still to be submitted, or is there, or a call of the request has
failed; a CONFLICT counts as being there.  `UnpairsDisturb`: only an unpair deletes
definitions, and who works beside one is disturbed.  A step of one handler leaves
the notes of the others alone (`StepOf`).  `PairErrorsAreJustified` follows an error
from the call it came from to the answer, and `UnpairsLeaveNothing` a definition
without peers: an undisturbed unpair has noted it (`Noted`) from when it listed the
Beacon until it was removed, or reports an error.

*BackendProofs.*  `TypeCorrect` and `AnswersAreFit` (`RequestsFit`: all of `PolicySubmit`, of
`ClusterLookups` and of `Relays`, and the statuses of `CloudStorage`) and
`ListsAreFit` (`AnswersFit`: the lists of `Listings`, the files of `CloudStorage`).

* `SubmitInv`: while nothing else changed, what a request was told of the Beacons
  is so (`Knows`); when it submits, what it needs is there, unless its credential was
  deleted meanwhile (`Equipped`); and the phases it goes through are those of its kind (`Phased`).  That targets lie apart
  needs all three, since a check is made against what other Beacons *said*.
* `LookupInv`: the tables read are those there are, if nothing changed meanwhile
  (`TablesInv`); healths and definitions are made of what was read (`HealthInv`,
  `DefinitionInv`).
* `StorageInv`: while nothing goes wrong, an account that is not waited for any more
  has a status exactly if it should.  `RelayInv`: an answer fits what came back, or
  nothing came.
* `ListInv`: a Beacon answers from what is there, and the answer of the request comes
  after the last Beacon's.  `ListsAnswered` makes of it what the properties say of the
  list.  Of a page: a policy among the first of all is among the first of its
  Beacon's part, at the same place or before (`FirstOfPart`), so what each Beacon
  cuts off is not missed in the page.  Of lists without repetition: `Merges`
  says what a list is after the first elements of another went into it, and each
  step keeps it (`DeduplicatedIs`, `MergedIs`).  Of credentials: `Collected` says that each is there once, with
  the clusters and the policies of every Beacon that answered.
* `FilesFound`: only the account that is asked about is looked up, and a list that came
  is that of its cloud.  What `FilesOfS3` makes of a page of the objects below a
  directory, and `FilesOfAzure` of all of them, fits by lemmas about names (`BelowIs`, `NamedIs`, `FilesOfS3Are`).

The policies, queries, objects and configurations are definitions of `Backend`, which
no proof expands: of them, too, only what `BackendConstants` says is used.

*PolicyPagesProofs.*  All seven properties of `PolicyPages`.

* Steps: `Ordered` (one active, those before it completed, those after disabled) is
  kept by each operator of `WizardSteps`, so by every action; `OneStepIsActive` and
  `SubmitsWhatIsSaved` follow.
* Forms: `WizardTypes`, then `WizardFits` (what the destination takes from the source
  and from the steps fits them), which gives that a policy has one end in the cloud
  at most (`CloudHasOneEnd`), and `CredentialsFit` (a step that is valid by a
  validation has what was validated; it is void when edited), which gives the
  credentials.  `EditsVoid` is the action property, proved of each edit.
* `SourceInv`: the databases shown are of the selected cluster, a user who was found
  to be a super user is one on the cluster he was asked of (`UserKnown`), which is the
  cluster chosen when the last answer is that of the last choice.  `ScheduleInv`: errors
  are those of some earlier value, and a value without an error is on the chosen
  day; `ChosenDay` is arithmetic with remainders.  `RowsInv`: tags, filters and the
  filters of the page agree, but in the cases the property names.

*SortedSeqsProofs.*  The lemmas about lists that the proofs of `Backend` and
`PollingPages` cite.  `InOrderIs`: of a strict order on a finite set (`StrictOrder`)
`InOrder` makes a sequence that has each element once, those before it before it
(`StandsInOrder`); what comes before an element is counted, and the counts are a
bijection with the first numbers.  From it follow numbers ascending and descending,
the elements of a list that are in a set (`Those`), a list sorted by a rank
(`SortedBy`), the joined lists of several Beacons, and an element taken out.  The
library's induction theorems take an operator and cannot be used, so induction is
on sets of numbers: the smallest that is missing (`Smallest`), from which `UpTo`
and `StepByStep` give what each step of a recursive function keeps.

*PollingPagesProofs.*  All five invariants of `PollingPages`; `CatchUp` alone is left
to TLC.  `FeedInv`: `headId` and `tailId` are the ends of the list, which descends, as
does every answer when there is one Beacon.  `MapInv`: a map that is drawn has at each
place exactly the marker of the store's clusters there.  `PanelInv`: a job that is
listed is in the store, and one in the store has happened.  These give `ListedFits`,
and with `JobsTypes` and `StoreTypes` they give `TypeCorrect`.  `JobsInv`: what is loaded is of the row that was selected last,
and `jobsPolicyId` is the policy of the page in the store.  `LogInv`: while the dialog is
open it has a log to show, and its loop is that log's.  `StoreInv`: policies that were
missed are gone on the server, at most one list is under way, and a list that was
answered has no missed policy; with it `GoneStaysAway` survives late answers of
every other call.

*WebPagesProofs.*  All five invariants of `WebPages`, by `WebInv`, which has one invariant per
part: `PairingInv` (what can be chosen may be paired; no list comes while a pair is
made), `AccountInv` (a success is of keys found valid; a name without an error is
free; a button that spins waits for a call of its own), `AccountsInv`,
`DirectoryInv` (a field at rest is shown by the browser, whose listing is the last or
under way), `ClusterInv`, `SessionInv`, `ToastInv`, and `RequestInv` (of the calls that
replace one another only the newest is under way; completions in the queue are of
requests made before; an observer that was told was told of a request at least as
new as its own).

*Only model-checked.*  Every invariant and every action property of a passing run is
stated by a theorem.  The refinement of `CloudAccountStore` is left to TLC, since it
holds only under conditions the code does not ensure.  The liveness properties
(`RequestsAnswered`, `RequestsEnd`, `AllAnswered`, `CatchUp`, `AllEnd`) are not proved either:
fairness and ENABLED are out of reach of the prover.

## 6. Further behaviours the models have

Seen in counterexamples while the properties were stated, or found while the code was read for
them.  The properties name the condition that excludes them.

Backend

* Two overlapping adds of accounts: the second writes back a list it read before the
  first one wrote, and the first account is lost (`Overlap`).  A failed read is
  cached, and served as an empty list until the next write or reload; an add that
  meets one overwrites all accounts (`DlmKeyStore.scala:170`).  An invalidation that
  meets a load which has already read is lost (`missed`).
* A Beacon whose admin status fails is left out of `getAllCloudCreds` without notice,
  so an update may answer without errors although a copy is old (`StatusMayFail`).
  An account that is deleted and added back takes one more than the highest version
  *heard*; with a Beacon that missed one listing, an old copy may later have the
  version of the account and another secret (`BeaconService.scala:1146`, `1305`).  A
  policy installs the version it read before an update.  A delete takes the account
  out of the keystore before the copies, while the comment at
  `BeaconService.scala:1234` says the reverse.
* The check of targets knows 200 policies of the merged list (`BeaconService.scala` 436-440,
  518, 601): with more, of one Beacon or of several together, a policy that writes
  below another is accepted.  Two such policies checked at the same time are both
  accepted.  A credential that is deleted after it was found is not looked for
  again, and the policy is submitted without it.
* Where the lookup of a Beacon throws, a request about credentials or policies is
  never answered (`EndpointService.scala:174`).  S3 lists 1000 keys, and the code does
  not ask for more (`AmazonS3Service.scala:243`): the rest of a directory is missing.
* An unpair deletes definitions that had no peers when it listed them, though a
  pairing may have come to need them since, and then fails (`disturbed`).
* Of two requests that need the same local definition one fails with CONFLICT
  (`BeaconService.scala:777`, `815`).
* The order of a pair depends on which Beacons answered (`BeaconService.scala:124`),
  so the web store may hold it as "a-b" and as "b-a" (`pairing.reducer.ts:44`).
* The check for snapshottable ancestors skips every second one.  A cluster with HDFS
  and without Hive cannot be defined when Hive's configuration is asked for.
  Lookups of Ranger and of an endpoint's host, and the statuses of accounts, are not
  answered when an exception is thrown in a callback; nor is an ordered list that is
  empty.  An error with an empty body becomes 503; controllers answer 500 whatever
  the code in the errors.

Policies and their wizard

* Next is enabled by a validation that ends while another step is shown
  (`create-policy-wizard.component.ts:319`): with a preselected cluster that is taken
  back, a policy has credentials and no source cluster.  `CredentialsForCloud` is
  stated for wizards opened without one.
* The encryption and the super user's status of an earlier cluster may be applied
  to a newer one, and its database selected (`step-source.component.ts` 428-447, 568):
  with the status of one where he is a super user, a user is offered snapshots on
  one where he is not.  `SnapshotBySuperUser` excludes that case by `told = newest`;
  tables of a database asked for in quick succession are dropped and never asked
  for again.
* A directory that does not exist is accepted when the listing of an unlisted
  ancestor takes the place of the browser's own; the old path typed within 500
  milliseconds of browsing away leaves browser and field `apart`, and then even
  the root may be said not to exist, which takes four edits.
* The queue of a cluster stays chosen when the queues of the next cannot be loaded
  (`step-advanced.component.ts:162`).
* Validators of the schedule keep errors of an earlier unit or day; `validateTime`
  compares with a later date than its comment says (356); a closed wizard's success
  closes the next one.
* `deletePolicySuccess` removes the wrong key, so a deleted policy stays until the
  next list (`policy.reducer.ts:65`); a status that comes late makes a stub (79).
* While the page of jobs of a row that was just opened is loaded, the page of the row
  that was left may come, show under it and end its spinner
  (`policy-table.component.ts` 251-260); `JobsSettle` is about the time when no page is
  on its way.
* A schedule step that is left a second time counts the first day from the one it
  had set before, not from the date shown: with another day chosen in between it
  may be more than a week later (`ChosenDay` exempts it).
* Two policies suspended in quick succession: the answer of the first is dropped.
  A page of jobs that fails answers with the failure of another type
  (`job.effect.ts` 65-74).  The log dialog says that a policy no longer exists when
  its list failed (`log.service.ts:159`).
* `openJobsForPolicy` puts a name in the query where the page compares ids; the page
  still filters by a service whose button is not pressed after policies vanished.

Other pages

* The observer of a cancelled request is told the outcome of a newer request of its
  type, which may be about another account or path; a deletion that answers with
  errors makes its progress entity again after it was removed, and two event
  requests under way are both shown as finished by the first answer.
* Events of a slower Beacon are dropped between `headId` and `tailId`
  (`event.reducer.ts:66`); `PollingPages` has one Beacon.
* Pairs that other users unpaired stay in the store, so such a cluster is not
  submitted and its files are offered though its Beacon may not know it.
* A list of accounts that was served before a deletion brings the account back until
  the next list (`cloud-account.reducer.ts:76`; `unheard`, `early`).  Accounts that
  are in use can be deleted by an old list of credentials.  The legend
  of a cluster that vanished throws; the list of a marker that was clicked is old.
* A browser in UTC without a stored zone makes the constructor of `DlmComponent`
  throw.  The success of a logout reads headers of an answer that has none
  (`user.service.ts` 82-84), and its overlay stays when the logout fails.
* A failure whose body cannot be read ends the effect that shows messages
  (`notification.service.ts`); the ninth message removes the oldest error.

## 7. Not modelled

Views, selectors that only label, pipes and styles; `policy-details`, which lays out the
row opened by `policy-table`; `create-policy-wizard-summary`, which repeats the values
of saved steps; `cloud-container-browser`, which no page uses; `checkbox-list`,
`jobs-status-filter`, `issues-list`, `breadcrumb`, `search-input`, which only show or pass on; authentication, which is the Dataplane
library's; the destination's directory (`step-destination.component.ts` 675-720: a
verdict may be drawn from the completion of another listing) and the tables in a row
of the table of policies (`policy-table.component.ts` 203-243: loaded once, not
again when this fails).  WASB and ADLS accounts beyond their listings.  Of the
code of the backend what formats requests and answers.

## 8. Plan

1. The destination's directory, like `SourceDirectory`.
2. `EventFeed` with two Beacons whose clocks differ, stating what is lost between
   `headId` and `tailId` (section 6) as a property.
