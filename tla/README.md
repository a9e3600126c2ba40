# Verification of marketplace-dev-authenticated-resource

This directory holds TLA+ specifications of the shop-owner tier's GraphQL service, the TLC runs that check
them on small instances, and proofs that TLAPS checks for every size: of every safety property the passing runs
check but one, and of both refinements. The code is in `src/src`; a path below is relative to it, and `PROJECT.json` maps
every definition to its lines.

## The system

The service is one Node process. A shop owner, already signed in through another service, manages companies
and items through ten mutations and three queries. Its state is outside it: MongoDB holds owners, companies,
items and categories, Redis holds the sessions, the disk holds the items' pictures. Other programs write the
same stores: the admin service retires categories, the authorization services mint sessions.

| component | state | operations | interacts with |
|---|---|---|---|
| catalogue writes (`lib/item`, `lib/company`, `itemAdd`, `itemUpdate`, `itemDel`, `companyAdd`, `companyDel`) | items, companies and their `deleted` stamps | file, save, move, withdraw, retire | MongoDB transactions; the admin's `funItemCategoryDelete` |
| published flags and account closing (`*UpdatePublished`, `companyUpdate`, `shopOwnerDel`, `funShopOwnerDel`) | `published`, slug and public name, the owner's `deleted` | publish, withdraw, close | `unpublishOwnerStorefront` in the closing's transaction |
| item pictures (`storeItemImage`, the ends of `itemAdd` and `itemUpdate`) | temp and static files, `image` | upload, file, move | the card's `idCompany` names the folder |
| sessions and gate (`authorizationAuthenticatedResourceHandler`, `endEverySession`) | refresh and access sessions, the index | admit or refuse, revoke all | the authorization services |
| process lifecycle (`index.mts`, `disconnectAllDatabases`, `reportClamSignatureAge`) | boot step, connections, requests in flight, exit code | boot, serve, shut down | databases, clamd, Apollo, Sentry |
| validation and cards (`lib/validate`, `funCompanyUpdate`) | the company and item documents | check, normalise, `$set`/`$unset` | the collections' schemas |
| environment and test database (`checkRequiredEnv`, `ENV_SHAPES`, `vitest.mongo.mts`, `vitest.config.mts`, `globalSetup`) | one `.env` file, what a process read of it | boot or refuse, drop and migrate, run the suites | Redis and MongoDB by the names in the file; the admin |
| coverage file gate (`scripts/coverage-audit.mjs`) | git's list, the config, the last report, the exemptions | audit | vitest's coverage, commits |
| queries, GraphQL types, `instrument.mts`, build and lint | none that changes | | not modelled, see the end |

What is hard here is not in any one function. Every `await` is a point where another request runs. Guards
are read before the write they guard. Some writes share a transaction, which may run again from the start;
some do not. A file move or a Redis call follows a commit that no abort can undo. Several ways out of the
process may be under way at once. Outside the service, one file of names stands between a test suite that
drops a database and the database the service uses. `PROJECT.json` lists each hazard at its line, with the property that would
show it going wrong.

What makes each component correct:

* catalogue: no live item in a retired category; an item changes company only within its owner; each call is
  as good as one atomic step; nothing stays locked;
* storefront: a closing takes what was live dark and stamps once; only the caller's flags change;
* pictures: once public never lost nor doubled, never public before the card, in the folder the card names;
* sessions: a closed account has nobody left inside, the revocation's residue cannot refresh, tiers apart;
* lifecycle: exit code 0 means an orderly stop, databases outlive requests, a shutdown ends, and a boot as far as
  the code bounds it;
* cards: what is accepted is what was typed, is accepted again, and is refused by the collection in known cases only;
* environment: what boots is whole, what is refused can be mended, no suite drops the service's database;
* coverage gate: green exactly when every declared source is counted or exempt by name.

## Modules

`Catalogue` is the core; `Storefront` and `ItemPicture` take from it what they need in one step.
`Environment` and `CoverageAudit` stand apart.

| module | models | code |
|---|---|---|
| `Filing` | the abstract specification of the catalogue: add, save, withdraw, found, close and retire, each one step | what the calls promise |
| `Catalogue` | the same, one step per database round trip, with transactions, conflicts, retries and failures | `lib/item`, `lib/company`, their mutations |
| `Showcase` | the abstract specification of the shops: show, hide, edit and close, each one step | what the public site is promised |
| `Storefront` | published flags, the bulk flag, the closing of an account | `*UpdatePublished`, `funShopOwnerDel` |
| `ItemPicture` | cards and files | `storeItemImage`, the moves of `itemAdd` and `itemUpdate` |
| `Sessions` | gate, closing, revocation, against sign-ins and refreshes | `lib/auth`, `lib/db/authorization...` |
| `Lifecycle` | boot, requests, exits | `index.mts`, `disconnectAllDatabases`, `reportClamSignatureAge` |
| `Fields`, `Cards` | the field helpers, and the documents they end in | `lib/validate`, `funCompanyUpdate` |
| `Environment` | one `.env`, the service's boots and the test runs that read it | `index.mts`, `vitest.mongo.mts`, `vitest.config.mts`, `test/integration/globalSetup.mts` |
| `CoverageAudit` | the script's reading of the config, and its verdict | `scripts/coverage-audit.mjs` |
| `CatalogueProofs`, `StorefrontProofs`, `ItemPictureProofs`, `SessionsProofs`, `LifecycleProofs`, `CardsProofs`, `EnvironmentProofs`, `CoverageAuditProofs` | the inductive invariant of each and the theorems about it | |

Each `MC...` module extends its specification with symmetry or inputs for TLC. A definition with a suffix
(`Retry_KeepsLocks`) is a wrong variant of the one that follows it: the plausible bug which the property
named in `PROJECT.json` must catch.

### Catalogue

A call is a GraphQL resolver in flight. `pc[c]` is the round trip it makes next and `req[c]` its arguments;
`ids[c]` is the local variable that holds the answer of `shopOwnerCompanyIds`, and `before[c]` that of
`itemUpdate`. A step of the model is the code between two awaits, so calls interleave where the code lets
them. Guards outside a transaction read the store as it is; `throwIfShopOwnerDontOwnItem` reads companies
and items in two steps, as the code does.

A transaction is modelled as MongoDB's snapshot isolation, of which the code only sees its outcomes. The
first operation takes the snapshot: what later reads need of it is noted then (`ids`, `before`), and
`touched[c]` collects the documents that others commit since. Writing a document that another transaction
holds (`writer`) or that is in `touched` is a WriteConflict, on which `withTransaction` runs the callback
again (`Retry`). `holdItemCategory` and `holdCompany` are writes of one document that change nothing, made
for this conflict alone; the mutants that turn them into reads are caught. Writes outside a transaction wait
for the document. `Fail` is every other error at any point, and the death of the process.

The admin's `funItemCategoryDelete` is not in this repository: the comment of `holdItemCategory.mts` says
what it does (count the live items, stamp, in one transaction), and the model follows it. `companyAdd` is one
insert and one step. The slug's uniqueness is among the failures.

`deleted` stamps are modelled by which call wrote them, so that a second stamp is seen.

### Storefront

`published` and `linkable` (has a slug and a public name) are what the collection's `$expr` relates: a write that
breaks the rule is refused there and fails. Guards and writes
are steps as in `Catalogue`. `FlagItem` is one document of the `updateMany` of `funItemsUpdatePublished`: the
command is no transaction, and yields between documents. The closing's transaction is four steps: stamp,
companies, items, commit; its two updates are those of `unpublishOwnerStorefront`, external. An `updateOne`
that changes nothing writes nothing. `itemUpdatePublished` is `StartItems` with one item. The list of a bulk call
may repeat an id: `uniqueIds` is where each first arrives, and the guard compares its number with that of the
documents it counts. Deletions and transfers are one step each. Of what changes under an open closing, `touched`
keeps the documents the closing has still to darken: no other conflict can meet it. `late` records what was published since the owner's closing took its snapshot, and
forgets it when the closing gives that snapshot up:
`ClosedDarkUnlessLate` says that this is the only way something of a closed owner is live, and the violated
`ClosedIsDark` that it happens.

`Showcase` has no round trips, documents held, snapshots or retries: a shop's flag or card changes, and an account
closes with all its shop shows, each in one step. What it grants the code is the one thing the code does not prevent,
that something is shown between the closing's look and its end, or after it (`fresh`, which `late` maps to). So the
refinement says that a bulk command that yields and a closing in four steps are nothing but such steps, in some order.

### ItemPicture

A file is known by its item (its name is the item's `_id`) and its folder. Transactions are one step. The move
is a rename that fails without its source. The temp directory is the operating system's, which may take any file in
it at any time (`Reclaim`), as the comment of `itemAdd` says, also between the upload and the move. `crossed`, `failed`
and `reclaimed` record the items whose moves overlapped, whose move never ran, or whose temp file was taken. `PictureKept`
names all the places where the picture of a card can be: in one folder and nowhere else; in temp, with its first move ahead
or failed; or nowhere, having been taken from temp. The last is the case the comment writes down as accepted; what the
property excludes is any other way to it, and a picture lost or doubled by a transfer.

### Sessions

One account. The revocation belongs to a library; `test/endEverySession.test.mts` runs the real one against a
fake client and asserts its conversation: the index, the `accessKey` of each refresh session, the access
sessions, the refresh sessions, the index again. The model makes each of those calls a step, and lets
sign-ins, refreshes, expiries, another closing and a failure of Redis come between any two. Tokens are never
minted twice. A sign-in may complete after the closing, its service having read the account before. An account
that was scrubbed (401) is left out: it changes nothing here.

`doomed` records whom the closing must put out: the refresh sessions alive at its commit, the access sessions they name, and
the caller's own. A session that expires leaves it, and so does the access session that a refresh replaces or
whose refresh session is gone before it was read (`Overtaken`): no index leads there any more, and it lives its
minutes, which is the residual the comment of `endEverySession` accepts. `ClosedMeansOut` asks that nothing else of it is left
when the revocation is over, `SafeResidue` that whatever is left of a revocation cut short cannot refresh.

### Lifecycle

An exit is a path to `process.exit`: the failed boot, each signal, each uncaught error. `code` is what it will
leave with, `queue` the Sentry events not sent yet, `awaited` those its flush waits for. The disconnection
ends with both databases or with an error or the five seconds. `Killed` is a signal before the handlers
are installed. A flush resolves when what the queue held is sent, or after its two seconds (`FlushOverdue`); an event need
never be sent. `NothingUnsent` therefore speaks of exits whose flush did not run out and that no other exit at its own
flush could cut short; that one exit does cut another short is the violated `CauseIsReported`.

### Fields and Cards

A text is its trimmed length, the spaces around it, the kind of its characters, and how many of its UTF-16 units
are halves of surrogate pairs (`pairs`), since JavaScript's `length` counts units and the collection's `minLength`
and `maxLength` count characters. `Cards` keeps one field for each different rule: `contactPerson`, `administrator`,
`registryExtract` and `city` are checked as `legalName` or `street` is, with their own bound, and
`description` as `publicName` or `name`. The collections' validators are external, with the bounds the
code's comments say they share, and the `$expr` that `companyUpdatePublished` describes.

A write the collection refuses is a driver's error and answered 500 (`Reply500`), whichever clause refused it; `refused`
keeps what was to be written. `ServerErrorsAreKnown` says which two writes that can be: a published company without a slug or
a public name, left to the collection on purpose; and a tax code of 11 units with a surrogate pair, which is
fewer than 11 characters. The second is at odds with the head of `fields.mts` ("Every helper below raises a 400 naming
the field instead"). Every other bound is an upper one or a lower one of 1 or 2 after a pattern without such pairs, where
fewer characters than units do no harm.

### Environment

One file holds a name for each way a name is treated: the flag that decides what else is required
(`REDIS_IS_CLUSTER`), the name that is required at times (`REDIS_URL`), a URI that names a database, and a path; the
other hosts, ports and keys are treated as the path is, the credentials are required and have no shape. The test
block is its three names of the database and one for the four credentials. A value is empty, right, or of the wrong
kind; a URI is the database it ends in. `assertEnvShape` is a library's: `test/index.unit.test.mts` fixes that it names
every misshapen variable in one message and that an empty one is skipped.

`Boot` reads the file and serves or is refused; `Repair` is the admin, who mends one of the names the message
gives; `Retarget` is the admin pointing any name of a database elsewhere, with everything running. A test run reads
the file once (`StartTests`, vitest evaluating its config for both projects), so what it does later is held in `run`:
`dev` is the database it read to be the service's, `db` the one it drops, `url` the one its service dials (the
code rebuilds the url around the same name, so the two never part and no property says so). Every step
of a run may fail. `live` is the set of databases that hold what the service wrote. Whether a `MONGODB_URI` without a
path passes `assertEnvShape`, and so which database the driver would choose for it, is the library's and not modelled;
nor are two runs of one checkout at once.

### CoverageAudit

Comments and globs share their characters, so this module has texts as sequences of characters, over an alphabet in
which a name is one letter. A config is a list of pieces as its author means them: globs, in either quote, and comments
of any text, of either kind. `Render` is their text, and the script sees only that. The text begins inside
`coverage.include`'s brackets: the anchor that skips the test projects' own `include`, and `reportsDirectory`, are left
out, and so are escapes, of which no glob has one. The loop of `stripComments` and the repeated match of `coverageArray`
are functions of the number of turns taken; each turn passes a character at least, so the text's length is turns
enough. `globToRegExp` is what the regular expression matches.

What a glob means and what lies below the directory it declares are given as tables (`Means`, `Below`), written for
the globs of the run by what their author wants, so that `VerdictIsExact` does not rest on the script's own reading: TLC
compares the two, on files that tell them apart (a name that ends like a glob's without the `/` before it, for one).
A glob that begins with a wildcard declares no directory: the script drops the empty root, and the table says the same.

## Runs

Every passing run checks one type invariant at most, and each of its properties has a mutant of the code that
violates it.

| run | bounds | shows |
|---|---|---|
| `catalogue` | 2 owners, 2 companies, 2 categories, 1 item, 2 calls | the inductive invariant, categories, transfers, refinement of `Filing` |
| `catalogue_locks` | 2 calls, fair | no document is held for ever |
| `storefront` | an owner of 2 companies and 1 item, a stranger, 2 calls, lists of 2 ids | closing against publishing, saving, moving, deleting; whose flags change; refinement of `Showcase` |
| `pictures` | 3 companies, 2 items, 3 calls | files against cards, and against the temp directory's owner |
| `sessions` | 3 refresh sessions, 3 access sessions and a foreign one, 2 calls | revocation against everything else |
| `lifecycle` | 2 signals, 1 error, 2 requests, fair | exits against each other and against requests; a boot past its scanner ends, and a shutdown |
| `cards` | each field in turn at its bounds, with and without surrogate pairs, on two forms | saves and flags in any order |
| `environment` | 2 databases; files wrong in any of the service's names, or in any of the tests', then retargeted | boots, repairs and test runs on one file |
| `coverage_audit` | 5 files, 6 globs and 5 pieces beside them, 3 exemptions | the verdict against the declarations, after any commits |
| `catalogue_company_stamp` | 1 company, 2 calls | a company stamped twice (violated) |
| `storefront_dark` | as `storefront`, without the stranger | a publish after the closing (violated) |
| `lifecycle_cause` | 1 signal, 1 error, 1 request | an error's event dropped by a shutdown under way (violated) |

The conflicts are between two parties: a holder and a challenger, a closing and a publish, two moves. Two calls
give every such pair, and the proofs hold for any number: of all that is checked only liveness depends on the bounds,
and the coverage gate's verdict on the globs of its table. `pictures` has a third call for a move between two others.
Two companies are a source and a destination; a third lets a picture be moved twice without coming back. Owners only ever compare for equality. One item is enough for a bulk call's races, since each
document is flagged in a step of its own; its list still repeats an id, at the limit and beyond it. Two databases
are the service's and the suite's, in either role. The files of `coverage_audit` are one for each way to stand to a
root: matched, beside it with another extension, below a further directory, in a directory that begins alike, and one
whose name ends like a matched one's.

Deadlock is checked except where a run really ends: `pictures` when every `_id` is spent on an add that failed,
`lifecycle` when the process has left.

Violated properties state what a comment of the repository says and the code does not do. They are listed as
findings, each with its quotation: a second stamp on a company; a shop live after its owner closed; an uncaught
error whose event does not leave before the process dies. None says that the service is unusable: the first two need two
requests of one owner in the same instant, the third an error within the last moments of a shutdown.

Other ways the models reach what a reader may not expect are no run of their own. An item may be added under a
company retired since the guard (`CreateItem` after `funCompanyDelete`), and a company may be retired with live items.
Two `itemDel` past their guard both stamp the item, as two `companyDel` do. A bulk flag whose items move meanwhile is
applied to those that stayed and answered 500, as the comment of `funItemsUpdatePublished` says; `OnlyOwnFlags` bounds
what it may have changed. A boot whose flag is neither 0 nor 1 asks for `REDIS_URL` although the machine may be a
cluster's: the admin writes it for nothing, and gets there all the same (`ComesUp`). A picture may end in the folder its card
has left when two moves of it overlap (`crossed`). A revocation that Redis fails is not taken up again: the sessions it had not
come to live on until they expire, and a second closing from one of them is answered 410, which is the window the comment
of `funShopOwnerDel` names.

## Fairness

`catalogue_locks` assumes weak fairness of each call's own next step: the event loop runs a callback that is due,
and the driver answers or fails. It assumes nothing of a call that retries, nor that it ever commits.
`lifecycle` assumes only what the code or its libraries bound by a timer or do without waiting: the next step of the
boot where it waits for nobody (`checkRequiredEnv`, `createServer`, `listen`) or not without limit
(`reportClamSignatureAge` has a deadline); the end of each request once the server drains, which Apollo's plugin forces; and
the next step of an exit, its disconnection racing five seconds and its flush two. It assumes nothing of the connections, of
`assertRedisNamespace`, `setupFieldEncryption` or `initClamScan`, which `index.mts` awaits without a deadline: a boot may wait
there for ever, and `BootSettles` begins behind them. Nor of a database asked to disconnect, nor of an event on its
way to Sentry. Nothing
is assumed of the callers. `environment` assumes of its admin that a refused boot is mended by what it names and tried
again, which is what the messages are for; it assumes no edit, test run or stop away.

## Proofs

Each module of proofs extends the module it is about, defines its inductive invariant from named parts, has one
lemma per action that the action keeps it, and ends in the theorems. The properties are those of the runs, word for
word; only `ExactAsRead` is its module's own. Every one of the invariants was first checked by TLC on the instance of its run.

| module | theorem | states |
|---|---|---|
| `CatalogueProofs` | `TypeCorrectness` | `Spec => []TypeOK` |
| | `Invariance` | `Spec => []CatalogueInv` |
| | `NoItemInRetiredCategory` | `Spec => []CategoryIntegrity` |
| | `TransfersStayWithOwner` | `Spec => TransferIntegrity` |
| | `Refinement` | `Spec => ImplementsFiling` |
| `StorefrontProofs` | `StorefrontInvariance`, `StorefrontTypes` | `Spec => []StorefrontInv`, `Spec => []TypeOK` |
| | `ClosingDarkensTheStorefront` | `Spec => []ClosedDarkUnlessLate` |
| | `StampedOnce` | `Spec => ClosedOnce` |
| | `FlagsAreTheOwners` | `Spec => OnlyOwnFlags` |
| | `FreshInvariance` | `Spec => []FreshInv` |
| | `ClosingIsOneStep` | `Spec => ImplementsShowcase` |
| `ItemPictureProofs` | `PictureInvariance`, `PictureTypes` | `Spec => []PictureInv`, `Spec => []TypeOK` |
| | `LostOnlyFromTemp` | `Spec => []PictureKept` |
| | `NothingPublicBeforeItsCard` | `Spec => []PublicIsCommitted` |
| | `PictureFollowsItsCard` | `Spec => []InPlaceUnlessCrossed` |
| `SessionsProofs` | `SessionsInvariance`, `SessionsTypes` | `Spec => []SessionsInv`, `Spec => []TypeOK` |
| | `ClosingEndsEverySession` | `Spec => []ClosedMeansOut` |
| | `ResidueCannotRefresh` | `Spec => []SafeResidue` |
| | `OpenAccountsStaySignedIn` | `Spec => LoggedOutOnlyWhenClosed` |
| | `ForeignSessionsUntouched` | `Spec => OtherTiersUntouched` |
| `LifecycleProofs` | `LifecycleInvariance`, `LifecycleTypes` | `Spec => []LifecycleInv`, `Spec => []TypeOK` |
| | `NoRequestLosesItsDatabase` | `Spec => []DatabasesOutliveRequests` |
| | `SuccessMeansAsked` | `Spec => []ZeroMeansAsked` |
| | `LastWordsAreSent` | `Spec => []NothingUnsent` |
| `CardsProofs` | `CardsInvariance`, `CardsTypes` | `Spec => []CardsInv`, `Spec => []TypeOK` |
| | `RefusalsAreKnown` | `Spec => []ServerErrorsAreKnown` |
| | `CardsHoldTheLastSave` | `Spec => []HoldsWhatWasTyped` |
| | `SavingIsIdempotent` | `Spec => []SavingAgainChangesNothing` |
| `EnvironmentProofs` | `EnvironmentInvariance` | `Spec => []EnvironmentInv` |
| | `ServesNothingByDefault` | `Spec => []ServesWhole` |
| | `ShapesComeLast` | `Spec => MissingBeforeShape` |
| | `TestsSpareTheService` | `Spec => KeepsLiveData` |
| `CoverageAuditProofs` | `CommentsAreSkipped` | `Spec => []CommentsDeclareNothing` |
| | `GreenMeansExact` | `Spec => []ExactAsRead` |

Assumed of the constants, each where it is declared: `None` is none of the values it stands beside (`Catalogue`,
`Storefront`, `ItemPicture`, `Sessions`); an id names a document of one collection only, and a company has an owner
(`Storefront`); refresh tokens are no access tokens, and the foreign ones are among those (`Sessions`); signals, errors and
the boot's own failure are different exits (`Lifecycle`); no database has the empty name (`Environment`); what is typed is a
text or a position, as the GraphQL inputs say (`Cards`); a name holds no quote, line end or bracket, and a config is
a list of pieces (`CoverageAudit`). Sets are of any size, and nothing is assumed of fairness.

### Catalogue

`CategoryIntegrity` alone is not inductive: from a state in which a save is about to commit while its category is
already stamped, the next step breaks it. `CatalogueInv` adds what rules that state out, one conjunct per stage of
a call: past `holdItemCategory` a call is its category's only writer and the category is live (`CategoryHeld`);
past its count the admin's delete has an empty category, or one whose commit since makes the stamp a conflict
(`CategoryEmpty`); what a save read in its snapshot still stands, or is a conflict (`SnapshotStands`); the company
of a guard stays its owner's (`OwnCompany`); a minted `_id` is nobody else's (`ItemKnown`).

Four lemmas say what an action leaves to the others (`FinishKeepsOthers`, `RetryKeepsOthers`, `HoldKeepsOthers`,
`OthersKept`), so that each action's proof only treats its own call and cites them for the rest. `Refinement` then
needs a case per committing action: the invariant gives the guard of the abstract step, and every other action
stutters.

### Storefront

`ClosedDarkUnlessLate` speaks of the moment after the commit; why the commit can make it true is in the transaction.
`HoldsAccount`: a closing past its stamp is the one writer of an account that is open, and holds of the storefront
nothing but what its snapshot found published. That account stays open until it commits, which is also why a second
closing cannot commit (`StampedOnce`). `SnapshotDarkens`: all the time, what is published is either in that snapshot
or late; and what the snapshot has of companies, then of items, is held once the step that darkens it is behind, so that
at the commit the two cover the storefront. Saves and flags keep it because a published document that changes
under an open closing is either darkened by it or counted as late. `OwnCompany` and `OwnIds` carry what the guards
found out to the writes that rely on it.

For `ClosingIsOneStep` that is not enough: `Close` hides exactly what is shown and not fresh, so the commit must find
nothing darkened that a later call had shown again, and nothing late that its snapshot had. `FreshInv` says so:
of a closing's snapshot, what no other call has changed since is published still and not late, what the closing holds nobody
has changed, and only the owner of an account that is closing or closed has anything late. Every step is then
one of four: it writes outside of a transaction (`Outside`, one lemma for all of them) and shows, hides or edits one
document or nothing; it is the stamp, which looks; it is the commit, which closes; or the closing gives its
snapshot up. `OnePlaceEach` shows that `uniqueIds` is as long as its list has different
ids, which the guard compares with a number of documents.

### ItemPicture

A move may lose a picture if its source is not where the call believes, or if another call adds the same item.
`CallInv` says of each step what the call knows of its item: the temp file of an add is there, or was taken, until its own
move, and no second add has its `_id`. `TakenIsGone`: a file taken is not put back, a new `_id` never being that of an old
file. `OneMove` gives `InPlaceUnlessCrossed` its step: an item whose moves never
overlapped has one, to the folder of its card, from the folder that has the file.

### Sessions

`ClosedMeansOut` needs to know, while the revocation runs, which of the sessions alive at the closing it still has to
end. Of the refresh sessions, `IndexKnows`: the index has them all until the call reads it; and `Pass`: from then on the
call knows of all of them, and in its second pass whatever it has behind it is dead. Of the access sessions, `Noted`: one
still alive is the caller's, is among the keys the call has collected, or is named by a refresh session it has still to
ask; `OvertakeKeepsNoted` keeps it through refreshes and expiries. A failure at any step leaves less to show, and
`SafeResidue` is why the order matters: what the last steps leave cannot refresh. `OneRevoker` and `RevokesClosed` hold
because the account is stamped once; the two action properties rest on them, and on `OwnKeys`, by which the keys that a
call deletes were named by sessions of this tier.

### Lifecycle

`ZeroMeansAsked` and `NothingUnsent` speak of a process that is gone; `ExitInv` says of each exit under way what its code
and its flush will then be worth, by what began it: a flush that is not overdue still waits for whatever its exit
captured and Sentry has not got. `DrainedFirst` and `BootOrder` keep the databases: none is
disconnected while the service is up except after the drain, and a boot that has not come up has no signal to
handle and no request to lose.

### Fields and Cards

One lemma per helper of `fields.mts` says what it stores and that it takes what it stored (`requiredTextStores` to
`coordinateStores`); `toUpperCase` changes no length and no kind but letters. From them a validator that accepts is
`Wanted`, field by field, fits the schema but for a tax code with a surrogate pair, and accepts itself; `CardsInv` says
that a card is such a form. The
lengths and the pairs are all of `Nat`, so that the bounds of validators and schema agree at every one and not only at the
ends that the run tries.

### Environment

`KeepsLiveData` needs that a run of the integration project carries a database other than the service's from the file it
read (`OwnDatabase`), whatever the file says since. `MissingBeforeShape` needs `NothingMissing`: after a complaint of
shapes everything asked for is there, and mending a shape leaves it so, even that of the flag that decides what is asked
for. `CheckVerdict` is what `checkRequiredEnv` answers, as its callers use it.

### CoverageAudit

The invariant over states is small (`AuditInv`: a verdict is that of the files and config that are there); the proof is
about texts. `Induction` over sets of numbers, from the least element of a set, and `Recursion` (a function on the
numbers exists that has a given first value and given steps) stand in for the library's theorems, whose parameters are
operators. `FlattenDivides` says where each piece of a config stands in its text. `PieceScanned` follows
`stripComments` over one piece: `GlobScanned` through a string that none of the glob's characters ends, `LineScanned` and
`BlockScanned` over a comment whose first end is its author's. So `StripKeeps`: what is left is the globs, with a line's
end for a line comment, and the bracket. No bracket is left before that one, and `GlobMatched` has the match find a glob
between its own quotes, none standing before them: `IncludeIsLive`, from which both theorems follow. Which
files the gate then counts is `ReadGlobByGlob`: what each live glob matches, as `globToRegExp` reads it, and what lies below
its `globRoot`. `GreenMeansExact` is about those and assumes nothing of them.

## What is only checked, and what is left

TLC alone:

* `LocksReleased`, `StopsWhenAsked`, `BootSettles` and `ComesUp`: liveness under fairness, which TLAPS cannot do here;
* `VerdictIsExact`, in so far as it says that the regular expression of a glob, and the root read off it, are what its
  author means. It is checked for the globs of the table, one for each construct the script knows; there is no definition
  of what a glob means to prove it from, other than the script's own. `GreenMeansExact` proves the rest of it for
  every config.

Three things the proofs changed in the models. `LoggedOutOnlyWhenClosed` and `OtherTiersUntouched` used to look at steps
that change `pc`, and so said nothing of a revocation that visits one session after another in the same step of the
conversation; they now look at all that a call keeps. `Check` names the first missing variable by its
position in the list. `CoverageAudit` was recursive over texts and had a fixed set of comments; its loops are now
functions of their turns, and a comment has any text.

Not modelled: the queries (reads behind a guard that `Catalogue` has); the GraphQL types; Sentry's configuration
and redaction in `instrument.mts`; the scanning
and re-encoding of an upload, inside a library; the registration that reopens a closed account and the sweep
that scrubs it, in other services; the tests themselves, the lint rules and the mutation gate's tables.

Plan:

1. `Catalogue`, its refinement and its proofs: done.
2. `Storefront`, `ItemPicture`, `Sessions`, `Lifecycle`, `Fields`, `Cards`, `Environment` and `CoverageAudit`: done.
3. Proofs of their invariants and action properties, in modules of their own: done.
4. `Showcase`, which `Storefront` implements: done, checked and proved.
5. Not planned: to compose `Storefront` with `Sessions` and the gate would add little to `ClosedDarkUnlessLate` and
   `ClosedMeansOut`, and the product is large.
