# A verification development for Yoroi

Yoroi is a browser-extension wallet. This directory holds TLA+ specifications of the parts of it
whose correctness depends on the order of events, the TLC configurations that check them on small
instances, and proofs checked by TLAPS. Everything is translated from the code in
`src/packages/yoroi-extension` and `src/packages/yoroi-ergo-connector`; `PROJECT.json` maps each
definition to the lines it stands for.

    tlc -workers 2 -config dapp_sign.cfg MCDappConnector     # one run
    tlapm ContentScriptProofs.tla                            # the proofs of one module

## 1. Inventory

Paths are relative to `packages/yoroi-extension` unless they start with `yoroi-ergo-connector`.

| Component | State it keeps | Operations | Interacts with |
|---|---|---|---|
| **dApp connector, background page** (`chrome/extension/background.js`) | `connectedSites` per tab, each with its `pendingSigns`; `ports`; `dbAccessMutex` | connect requests, about 20 kinds of RPC, messages of popup windows | content scripts (ports), popups (runtime messages), the database, the whitelist in local storage |
| **dApp connector, popup windows** (`app/ergo-connector`) | the connection or sign request they fetched, the unload listener | fetch, accept, cancel, confirm, close | background page, whitelist |
| **content script, injected API** (`yoroi-ergo-connector/src/inject.js`) | the port, resolvers by uid and the next uid, lists of connect promises, flags of injected APIs | forward calls, answer pages, recreate the port | page, background page |
| **connector whitelist** (`app/api/localStorage`) | one list of sites in local storage | read (which writes back), replace | background page, popups, settings window |
| **Request, CachedRequest** (`app/stores/lib`) | result, error, flags, cache of `ApiCall`s, timers, executions in flight | `execute`, `invalidate`, `reset`, `cancel`, `patch`, responses, timers | every store; the API |
| **send page** (`TransactionBuilderStore`, `WalletSendFormRevamp`) | receiver, amounts, planned and tentative transaction, mismatch flag, three Requests | edit, submit, back, leave; reactions to the history and the slot | `TransactionsStore`, time store, API |
| **submitted transactions** (`TransactionsStore`, `ergo-connector/api.js`) | a list in memory and the list in local storage | record, load, persist, remove what the chain has | main window, connector, UTxO computation |
| **synchronisation** (`bridge/updateTransactions.js`) | transactions with status and block, UTxO marks, last sync info | sync, rollback | backend, database locks |
| **address discovery** (`lib/restoration`) | addresses, cut-off | scan with a gap | backend |
| **refreshes of the main window** (`TransactionsStore`, `WalletSettingsStore`) | `ongoingRefreshing`: a promise per wallet | refresh by timers and by the user, resync | synchronisation, submitted transactions |
| wallet creation and restoration, hardware wallets, delegation, voting, transfers, memos, prices, coin selection, cryptography, user interface | see `PROJECT.json` | | |

What makes them hard, and what makes them correct:

* **Connector.** One mutex serialises all handlers, and most handlers hold it while they wait for a
  user. The window they wait for is served by handlers that may need the same mutex. Windows are
  not told what to show: they ask, and get the first request nobody asked for. Uids are counted by
  the page, so they restart when it reloads. Windows answer when the user clicks and once more when
  they unload. Correct means: one holder of the database; a prompt belongs to the request that
  holds it; an answer reaches the request whose content the user saw; a page is told the truth about
  its connection; every request is answered.
* **Requests.** Their state is changed by timers and by responses of calls that may have been
  given up. Correct means: a cached result belongs to its arguments, what is shown is current, a
  request at rest does not look busy, every call that is let through ends.
* **Send page.** A transaction is rebuilt after each change, while the old build is under way, and
  a user reviews a copy. Correct means: the form at rest has its own fee; a review that is out of
  date is flagged.
* **Content script.** It answers some requests itself, with what it remembers of a port and of an
  injected API, while the background may be closing that port. Correct means: every promise of a page
  is settled; no page holds an API nobody allowed; a page gets the authentication it asked for.
* **Refreshes, submitted transactions.** One promise per wallet serves as a lock that several callers
  take, wait for and delete; two windows write whole lists. Correct means: the lock is never left
  behind and nobody waits for himself; a submitted transaction is shown until the history has it.
* **Whitelist.** Three windows write whole lists: no update is lost. Not modelled by itself (6).
* **Synchronisation.** Chains reorganise, pages are fetched side by side, the backend may lag and
  refuse, a rollback runs after the lock was released. Correct means: what is shown as confirmed is
  part of one chain; the marks of unspent outputs agree with it; after any reorganisation that is not
  deeper than the stable size, syncing again leads to the chain's state.

`PROJECT.json` lists the hazards one by one, at their lines, with the properties that cover them.

## 2. Plan

1. `DappConnector` with `DappConnectorProofs`: done. The core: concurrency, mutex and users.
2. `RequestOps` (operators on one request) and `Request`: done.
3. `TransactionBuilder`, composed with the `RequestOps` of the request it owns: done.
4. `ContentScript` (`inject.js`): done, for the Cardano protocol.
5. `TransactionsStore`: the refreshes of the main window and the submitted transactions of main window
   and connector: done. Left: `utxosWithSubmittedTxs` against a reference definition.
6. `Backend`, `TxSync` (`updateTransactions`, `rollback`, the scan of addresses with its gap), and the
   abstract specification `ChainView` it implements: done.
7. `ConnectorWhitelist`: read with write-back, stale snapshots. Left.
8. Proofs: every safety property and action property that a passing run checks, and the refinement
   of `ChainView`, in eight modules of proofs: done. Liveness stays with TLC (see 5).

The runs are one per question; a run that shows a disagreement makes room when a deeper one is found.

## 3. Modules

### DappConnector

The background page is single-threaded JavaScript, so an action is the code between two awaits.

| Model | Code |
|---|---|
| `rpc[r].pc`: new, queued, checked, selected, asked, answered, done | how far the handler of a message got: waiting for the mutex, whitelist read, wallet selected, waiting for the user, promise resolved, response posted |
| `dbQueue`, `Holds`, `Release` | `dbAccessMutex.runExclusive` in `withDb`: holder first, then the waiters in order |
| `connectedSites[t]`, `conn[r]` | the Map and its ConnectedSite objects; the object is named after the connect request that made it, because handlers keep a reference to it across awaits |
| `conn[r].pend`, `opened` | `pendingSigns` (a Map from uid, so `Ask` replaces an entry of the same uid) and `openedWindow` |
| `win[w]`, `job[w]` | a popup: what it fetched, whether its unload listener is active; the message handler that waits for the mutex on its behalf |
| `page[t]` | url, number of the load, next uid of that load |
| `whitelist`, `wallets` | local storage, database |

`Receive` is `handleInjectorConnect` up to its first await; `ReadWhitelist`, `ConnectWhitelisted`,
`ConnectSilentFails`, `ConnectAsks` are `confirmConnect`; `SelectWallet` is `withSelectedWallet`,
including the removal of a connection whose wallet is gone; `Ask` is `confirmSign`; `Finish` the
rest of a handler. `FetchConnect`, `FetchNoSign`, `FetchSign` are what a window asks when it is set
up, `ConnectResponse`, `SignRejected`, `ConfirmSign`, `SignJob` the message handlers, and
`SaveWhitelist` to `Unload` what users do. Only the kinds of requests that differ in control are
told apart: three ways to connect, five ways to sign, and `query` for all that need no user.
`CONSTANT Env` switches on disturbances: navigation, deletion of a wallet, removal of a site,
windows closed before their listener exists, a collateral reorganisation that fails.

Not in the model: payloads, the port (a page that is gone is answered into the void, which changes
nothing), errors of the database itself. `MaxLoad` bounds page loads; each `r \in Req` is used once.

### RequestOps and Request

`RequestOps` has no variables. Each operator maps the record of one Request or CachedRequest to the
next: `Execute`, `Invalidate`, `Reset`, `Cancel`, `Patch`, `Respond` (the wrapped method answers)
and `Fire` (a timer runs its `Callback`). Two details of the code matter and are kept: `isExecuting`
and the cached result are set by a timer of delay 0 and the response is applied by a timer of delay
1, which are ordered by delay and by age (`MayFire`); and an execution stays in
`currentlyExecuting` until its answer, whatever was cancelled, so late answers are applied. The n-th
call returns the value n, so a result tells which call it came from. `Request` is one such object
under any sequence of calls; `outdated` and `plain` are history variables for its properties and are
read by no action.

### TransactionBuilder

The form (`receiver`, `amount`), the history and slot that builds depend on, the Request
`createUnsignedTx` as a record of `RequestOps`, the planned and tentative transactions (named by the
build they come from) and `mismatch`. `UpdateAmount` and `HistoryChanges` run the reaction
`_updateTxBuilder` in the same step, since the awaits in it before `execute` end in the same task;
`ResultIs` runs the reactions to a new result. `UpdateReceiver` runs none, as in the code. `Env`
switches on an edit of the receiver after the amount, impatient users, failing builds and
overtaking builds; `regular` is a history variable: none of these happened.

Not in the model: the maximum that can be sent, the list of tokens, memos, self transactions,
signing and sending.

### ContentScript

A page, the scripts injected into it and the content script, with as much of the background as the
other end of its port does. A call of the page is used once; its promise ends as `resolved`, `auth`
(an API with the authentication) or `rejected`.

| Model | Code |
|---|---|
| `post` | `window.postMessage`: one queue of the page, read by the page's listeners (`PageReceives`) and by the content script's (`Skip`, `Connect`, `Rpc`) |
| `port`, `up`, `down` | `yoroiPort` and the messages under way; `closing` after the background disconnected it, until `onDisconnect` is heard |
| `icons` | connect requests between `createImgBase64Url` and its answer |
| `injected` | `cardanoApiInjected`, which outlives the port |
| `known` | the background has a ConnectedSite of the page |

`Skip` is the shortcut of `handleConnectorConnectRequest`, `Connect` and `IconFetched` its other
branch before and after the await, `Rpc` is `handleConnectorRpcRequest` with the port it makes for
`isEnabled()`, `ScriptReceives` the listeners of the port, `ConnectedListener` the listener that
settles all connect promises. `RemoveSite` is the background's `remove_wallet_from_whitelist`.
`Answer` includes the error path of `is_enabled/cardano`, which posts the refusal of a connect request
instead of a response. `linked`, `overlap`, `failed` and `removals` are for the properties; `MaxRemovals`
bounds removals. Not in the model: the Ergo protocol, scripts whose injection throws.

### TransactionsStore

The main window for one Cardano wallet. Each caller of `refreshWalletFromRemote` and the resync has a
step `pc` and a promise it `waits` for; `ongoing` is the entry of `ongoingRefreshing`, named after
whoever's promise it is. A promise that settles resumes in the same step all that wait for it
(`Settled`), and a resync that was queued takes the entry then (`TakenOver`). `StartResync`,
`RemoveDone`, `RemovalSettles` and `EndResync` are `clearHistory`, `removeAllTransactions` with the
refresh it calls, and the `finally` of `_resyncHistory`, which runs a timer later. `list` and
`stored` are `_submittedTransactions` and its copy in local storage; `Load` puts rebuilt entries before
those in memory; `ConnectorSend`, `ConnectorRecord` and `ConnectorNotify` are the background page's
`submit_tx`, with the read before and the write after an await. `Open` and `Close` are the window.
`displaced` is a history variable. Not in the model: what a refresh reads besides the history, and
that a history is fetched before its end: an end with an older one is an earlier end.

### Backend, ChainView, TxSync

`Backend` is what `TxSync` runs against: every chain the network agreed on (`forks`), how much of the
current one the backend has read (`served`), and its pool. Blocks are minted, up to `K` of them are
dropped by a reorganisation, transactions wait, fail by a conflict, or expire, the backend lags.

`TxSync` is `updateTransactions` for a number of refreshes that compete for the tables: `Begin` takes
them (`raii`), asks for the best block and compares it with `LastSyncInfo`; `RawScanAddresses`
discovers addresses with the gap; `Page` is the answer to one of the history requests that run side
by side, a refusal by the backend, or, with the last page, `UpdateTransactionBatch` with the marks of
inputs and outputs and the new `LastSyncInfo`; `Fail` undoes the transaction; `Rollback` runs after
the tables were released; `RemoveAllTransactions` is the resync's. Rows keep the block they had when
they fail, as in the code.

`ChainView` is the abstract specification, with three steps: the network moves, the confirmed
transactions grow to those of an initial part of some chain, or all from a height on are given up.
`FollowsOneChain` is `View!Spec` under the mapping `confirmed <- Confirmed`: pages of two chains are
never mixed and nothing of a failed refresh stays.

`BackendAssumption` numbers the transactions so that one spends only earlier ones, and puts into the
first block what a block can hold. `SteadyScan` is an assumption about the backend: between the best block and the scan of addresses it
does not go back, and nothing that waits pays to an address beyond the ones scanned when the pages are
fetched. Without it a transaction is stored whose address the wallet does not know, and its output is
never marked; a comment of the code names the race of the scan as one it accepts.

## 4. Runs

Deadlock is checked in `sync` and `store`. The other runs use `CHECK_DEADLOCK FALSE`: their requests,
calls, loads, slots, blocks and changes of the history are bounded and used once, so that every
behaviour of these instances ends.

| Run | Shows | Instance |
|---|---|---|
| `dapp_connect` | `TypeOK`, `DbExclusive`, `ConnectPromptKept`, `ConnectAnswerTrue` | 2 tabs, 2 sites, 1 wallet, 3 requests, sites removed meanwhile |
| `dapp_sign` | `DbSignPromptKept`, `SignedAsShown`, `NoSelfWait` | 1 tab, 3 requests, a settings window, a reload, every disturbance of signing |
| `dapp_live` | `NothingStranded`, `Answered` | 2 tabs, 3 requests, no disturbance, fairness |
| `request_cached` | `TypeOK`, `CacheKeyed`, `ShownIsCurrent`, `RestsWhenQuiet`, `Reissued`, `Returns` | 2 arguments, 3 executions, every operation |
| `send_builds` | `TypeOK`, `FormSettles`, `StaleFlaggedRegularly`, `Calculated` | 1 receiver, 2 amounts, 3 builds, 1 change of history, 1 slot, impatient users, failing builds |
| `sync` | `TypeOK`, `UtxoRight`, `SyncPointCovers`, `FollowsOneChain`, `RollbackAnswersRefusal`, `RollbackUndoesReorganisation`, `EventuallyInSync` | 2 transactions, one spending the other and paying to the next address; 2 refreshes, 1 reorganisation, height 3, `K` 1 |
| `store` | `TypeOK`, `EntryIsRunning`, `RefreshAlone`, `WaitsEnd`, `ShownOnceAlone`, `CallsReturn`, `Settles` | 2 callers and the resync, 1 transaction of each window |
| `port` | `TypeOK`, `ApprovedOnce`, `OwnAnswer`, `NothingLost`, `LostWithPort`, `Answered` | a connect request with and one without identification, `isEnabled()`, a method, 2 removals |
| `dapp_wallet` | violates `WalletAsSelected` | a tab that navigates from one site to another |
| `send_receiver` | violates `StaleFlagged` | the receiver edited after the amount |
| `sync_conflict` | violates `UtxoRightAlways` | 4 transactions, two of which spend one output; `K` 2, height 5 |
| `port_shortcut` | violates `SkipsOnlyConnected` | two connect requests, `isEnabled()`, 1 removal |

*Why the bounds are enough.* A conflict in the connector is between the request that holds the
mutex, one that connected the tab, and a third that interferes: 3 requests, with 2 tabs where tabs
matter and 2 sites where the url does. A uid collides with one reload. A late response of a Request
needs the call it belongs to, the call made since, and one more to show the damage: 3 executions of
2 arguments. The same count makes a form change twice during its builds. A synchronisation is
disturbed by one reorganisation, and its rollback by one other refresh; a second transaction that
spends the first makes marks depend on the order, and its address is behind the gap and in another
chunk of the history request. At height 3 a chain is replaced by a longer one after a rollback.
A conflict that leaves a failed row with a block takes two blocks more (`sync_conflict`). The
lock of a wallet needs somebody who holds it, one who waits and the resync. In `port`, 2 removals close
the port, and close it again after it was reopened.

*Symmetry.* `dapp_connect` and `dapp_sign` permute requests, tabs, sites and wallets; no definition
tells one from another, and `ConnectAnswerTrue` is a property of single steps stated for all
requests. Runs with fairness use no symmetry.

*Fairness.* `DappConnector`: each handler and message handler that can run is run (the event
loop), windows load, and a user who sees a window answers or closes it in the end. Nothing is assumed
of pages or disturbances. With close-early windows or failing reorganisations a request can
really stay unanswered, and everything behind it in the mutex queue with it; that is listed as a
hazard, and the liveness run is without them. `Request` and `TransactionBuilder`: calls of the API
end, with an answer or an error, and the oldest timer is run in the end. Nothing is assumed of users
or stores. `TxSync`: the main window polls, so some refresh always goes on. `TransactionsStore`:
promises settle, the timers call again and again, and a refresh that is tried for ever succeeds at
some time (strong fairness; the backend is not down for good). `ContentScript`: messages are
delivered, favicons arrive or fail, and the background answers, which is `Answered` of
`DappConnector`.

*Properties with a condition.*
`NothingStranded` is stated where requests open sign windows only: a connect prompt, or the
settings window, also fetches the first unopened sign request and cannot show it, which strands
that request.
`StaleFlaggedRegularly` is `StaleFlagged` as long as none of the four disturbances happened;
`send_receiver` shows that it fails with one of them. A failing build does the same: `_txMismatch`
keeps its last answer as long as there is no planned transaction.
`Reissued` speaks of invalidations made while no call waits for its answer.
`UtxoRight` excepts outputs spent by a failed row that still has a block; `sync_conflict` is why.
`RefreshAlone` holds unless a resync deleted somebody else's entry (disagreement 7).
`ShownOnceAlone` holds as long as the connector sent nothing: its messages make the window load the
whole list again, so that entries are listed twice, and `Settles` shows that this passes.
`OwnAnswer` is for pages that make connect requests one at a time, since every answer settles all,
and as long as no `isEnabled()` failed (disagreement 11).
`NothingLost` is for a user who removes no site; `LostWithPort` says what a removal may cost: calls
under way in the port that goes, never their answers, and later calls that find no port. Both except an
`isEnabled()` that failed, which is never answered.
`RollbackUndoesReorganisation` speaks of what is confirmed on one chain and of the chain that replaced
it: that a reorganisation takes at most `K` blocks is what the code counts on.
`Answered` of `ContentScript` excepts methods of an API whose port is closed (disagreement 9), what
was under way in a port when the background closed it, and an `isEnabled()` that failed.

### Disagreements between the code and its documentation

Four have runs:

1. `dapp_wallet`: `confirmConnect` keeps the ConnectedSite a tab already has, also one of another
   url, and reports the wallet of the whitelist entry: later calls are served from another wallet.
2. `send_receiver`: no reaction reads the receiver; going back to change it leaves the transaction to
   the former one planned, reviewed and unflagged.
3. `sync_conflict`: `rollback` makes the inputs of what it gives up unspent, by a comment that takes
   all cases to be covered. Rows that failed keep their block; when one is rolled back again later,
   an output that another transaction has spent meanwhile is marked unspent.
4. `port_shortcut`: the content script answers for the background when the API is injected and a port
   exists, "hasn't been disconnected"; `isEnabled()` opens a port after a disconnect and the API stays.

The others are told by the code and need no run:

5. An Ergo `sign_tx` waits for the user inside `withDb` (`background.js:412`), and `sign_confirmed`
   calls `signTxInputs`, which enters `withDb` too (`background.js:132`). The confirmation waits for
   the mutex its own request holds. With `"tx"` among the kinds `DappConnector` violates `NoSelfWait`.
6. A response of a CachedRequest clears the invalidation made after its call began
   (`CachedRequest.js:61`, `:88`), so that the next `execute` is served what was fetched before.
7. `_resyncHistory` deletes the entry of `ongoingRefreshing` in its `finally`
   (`WalletSettingsStore.js:255`), a timer after the removal's promise settled: the entry may be that of
   a refresh begun meanwhile, and another refresh starts beside it, which `TransactionsStore.js:275`
   says cannot be.
8. The late response of a build given up is applied (`TransactionBuilderStore.js:326`), so that Next of
   the send form is enabled by the fee of another amount (`WalletSendFormRevamp.js:684`).
9. "Wallet disconnected" is answered without a protocol (`inject.js:553`); the page's listener takes
   only answers of its own, and the promise stays.
10. Entries loaded by the window have no `usedUtxos` (`TransactionsStore.js:915`), and once the window
    records a transaction of its own they are stored so; the connector's computation of UTxOs
    (`api/ada/index.js:2447`) throws at such an entry.
11. When `is_enabled/cardano` throws, the background posts `yoroi_connect_response/cardano` (`background.js:960`).
    The content script makes `connector_connected` of it: every pending `enable()` is rejected and the promise of
    `isEnabled()` stays. The answer to the `enable()` that was rejected still comes and settles the next one,
    so that a request for an identification resolves without one: without `failed = {}`, TLC finds this violation
    of `OwnAnswer` in `port`.

## 5. Proofs

Every theorem is for all values of the constants that satisfy the assumptions of the module it is
about: any number of tabs, requests, windows, calls, builds, transactions, reorganisations and
refreshes, and any disturbances. None of the properties is inductive as it stands. Each component has
an inductive invariant, a conjunction of named parts, that TLC checked on the instance of its run;
the proofs go action by action, over lemmas about the operators the actions are made of.

| Module | Theorems (with the property of a run they state) |
|---|---|
| `DappConnectorProofs` | `Inductive`, `TypeCorrect` (`TypeOK`), `MutualExclusion` (`DbExclusive`), `PromptKept` (`ConnectPromptKept`) |
| `DappSigningProofs` | `SigningInductive`, `SignsWhatIsShown` (`SignedAsShown`), `DbSignFindable` (`DbSignPromptKept`), `WindowsDoNotBlock` (`NoSelfWait`), `ConnectAnswersTrue` (`ConnectAnswerTrue`), `NothingIsStranded` (`NothingStranded`) |
| `RequestOpsProofs` | the lemmas about `RequestOps` that the next two rest on |
| `RequestProofs` | `RequestInductive`, `RequestTypeCorrect` (`TypeOK`), `BusyEnds` (`RestsWhenQuiet`), `KeyedByArguments` (`CacheKeyed`), `CurrentIsShown` (`ShownIsCurrent`), `InvalidationCounts` (`Reissued`) |
| `TransactionBuilderProofs` | `SendInductive`, `SendTypeCorrect` (`TypeOK`), `FormHasItsBuild` (`FormSettles`), `StaleIsFlagged` (`StaleFlaggedRegularly`) |
| `ContentScriptProofs` | `PortTypeCorrect` (`TypeOK`), `Approved` (`ApprovedOnce`), `AnswersOwn` (`OwnAnswer`), `PortLosesCalls` (`LostWithPort`), `CallsAreNotLost` (`NothingLost`) |
| `TransactionsStoreProofs` | `RefreshInductive`, `EntryKept` (`EntryIsRunning`), `OneRefresh` (`RefreshAlone`), `WaitingEnds` (`WaitsEnd`), `StoreTypeCorrect` (`TypeOK`), `ShownOnce` (`ShownOnceAlone`) |
| `TxSyncProofs` | `SyncInductive`, `SyncTypeCorrect` (`TypeOK`), `SyncPointIsKept` (`SyncPointCovers`), `RollbackIsAnAnswer` (`RollbackAnswersRefusal`), `RollbackIsDeepEnough` (`RollbackUndoesReorganisation`), `SyncExact`, `UtxosAreRight` (`UtxoRight`), `SyncFollowsOneChain` (`FollowsOneChain`) |

### The mutex and the connect prompts (`DappConnectorProofs`)

From `ConstantsAssumption` alone. Releasing the mutex takes the tail of `dbQueue`, which is only a
sequence, and only the right one, if the handler that releases is its head and nobody is in it
twice (`Distinct`, `Queued`); that it is the head is `DbExclusive` of the state before. A window
answers for the ConnectedSite of a tab at that moment, not for the one it was opened for, so one must
know that a pending ConnectedSite is that of the one request waiting (`Prompt`) and that windows and
PendingSigns refer to requests that arrived (`Windows`, `Signing`, `Arrived`). `IInv` is the
conjunction. An action changes handlers in one of three ways: one moves on, one arrives, one is
answered; there is a lemma for each way and each part of `IInv`, which the lemmas of the actions cite.

### Signing (`DappSigningProofs`)

A window answers with a tab and a uid, and the background page looks the request up again. `SignInv`
says why it finds the one that was shown: uids are new in every load of a page (`Uids`); windows, their
messages and the answers given carry the tab and uid of what was shown (`Confirmed`); a ConnectedSite,
its PendingSigns and the handlers that refer to it are of one tab, and no two PendingSigns of it have
the same uid (`Sites`); a handler in `withDb` has the ConnectedSite of its tab as long as it waits
(`Captured`), because whoever could remove it needs the mutex or, like the settings and the deletion of
a wallet, closes what waits; so its PendingSign can still be found (`Findable`), unless the uid was taken
again after a reload. `SignInv` is inductive on top of `IInv`.

`WindowsDoNotBlock` assumes that neither of the two kinds of Ergo transactions is among `Kind`. The
assumption is needed: disagreement 5 is what happens with them. `ConnectAnswersTrue` is an action
property: it is proved for each step from `IInv` and `SignInv`, and needs that a handler which was
answered by the user still has the answer's ConnectedSite, since only handlers end requests.

`NothingIsStranded` assumes `Alone`, what `dapp_live` is an instance of: finitely many requests, no
disturbance, no settings window and no connect prompt (`connect_silent` still connects). A window does
not know which request it was opened for, it fetches the first one no window has fetched. So the
invariant `Served` counts: the windows that have not fetched are as many as the requests not fetched
(`Counted`), hence a window that fetches finds a request. The rest of `Served` is what keeps the count:
sites stay connected and no page is loaded again (`Undisturbed`), so that uids tell requests apart; a
PendingSign is exactly a request that waits (`Prompts`); a window shows a request that was fetched
(`Shows`); and every request fetched has a window, or the message of one, that will answer it
(`Attended`).

### Requests and the send page (`RequestProofs`, `TransactionBuilderProofs`)

From `OpsAssumption` and `NullAssumption`: `NULL` is neither an argument nor a number of a call.

A Request looks busy from a timer or from `execute` on, and the response that ends it comes by another
timer. `Sound` says, for every use of a request, that there is a response to come for everything that
looks busy or will when its timer fires, and this order of the timers is what `BusyEnds` needs. The
other three are about requests that are executed and invalidated only. Then there is one call at a
time, and its response stands behind the timer that shows the cached result (`Serial`). `Keyed` says of
every cached result which arguments it was fetched for; `Shown`, that the result is the current one or a
timer is set that will show it; `Fresh`, that `_isInvalidated` stays set until a response of a call made
after the last invalidation at rest.

The send page uses `Sound` of the request it owns through `RequestOpsProofs`, instantiated with drafts as
arguments. Builds may be abandoned and their late answers are applied all the same, so `FormSettles` is
about an order: without the disturbances of `Env`, the builds that are answered, under way and still to
be answered were made in this order (`Rising`), so the last answer is that of the last build, which is
for the form as it is (`Form`). `Compared` says that `mismatch` was computed from what is planned now.

### Content script (`ContentScriptProofs`)

From `CallsAssumption` (a call is of one kind). `TypeOK` goes with the type of every message
(`Messages`) and that the message which closes a port is its last (`Closing`). `ApprovedOnce`: the
shortcut answers because an API was injected, the API was injected by an answer, and an answer that says
success was made by a background that knows the site; `Allowed` states this of every message on its way.
`OwnAnswer`: an answer does not say whose it is. Without overlap and failed `isEnabled()` a connect request is in at most one of
five places, once (`OneEach`, `OneInAll`), and whatever is there is of the one pending request
(`Owned`). A request lost in a closed port is in none.

`PortLosesCalls` follows a call through the places of `OnWay`: request, favicon, port, background, answer.
It is an action property, with one lemma for each group of actions (`PageWay`, `RequestWay`, `IconWay`,
`ScriptWay`, `BackgroundWay`): an action moves a call on, settles it, or loses it in one of the ways `Lost` names.
`CallsAreNotLost` adds that without removals the port is open before anything has to go through it:
`PortFirst` says so of every favicon that is fetched and of every method of an API, which the page has only
from an answer.

### Refreshes and submitted transactions (`TransactionsStoreProofs`)

From `StoreAssumption`. A refresh deletes whatever entry there is when it ends, so `IInv` says that the
entry is its own unless one was `displaced` (`Own`), and that a removal has its entry while it removes
(`Removes`).

A resync refreshes under its own removal, whose promise was the entry, so it could wait for itself.
`WaitsEnd` says that this never happens and that nobody waits for a promise that is settled; it rests on
the entry being of what runs (`Entries`) and on `RemoveDone`, which deletes the removal's entry before the resync
looks for one.
It is the safety core of `CallsReturn`: what is left for TLC is that what runs ends.

The list shown is put together from three places, so that nothing is twice in it (`ShownOnce`) is a
statement about all of them, `Apart`: without the connector at most one load is under way, the one of
`setup`; the load, the list and the copy in local storage have nothing twice each; a load has nothing in
common with the list it will be put before or with what is about to be recorded. The connector breaks
the first two of these. `NotIn`, the loop that takes confirmed transactions out, is a recursive function;
that it has a value, leaves only entries there were and doubles none is proved over the least index at which it
would not (`KeptExists`, `NotInList`), again without induction.

### Synchronisation (`TxSyncProofs`)

From `BackendAssumption` and `SyncAssumption`. The first five theorems need nothing else; `Base` is
their invariant, whatever the backend does in the middle of a refresh. A hash names one chain up to its
block (`SameHash`), so that a best block the backend confirms fixes everything below it; what is
confirmed is on one chain and not above the sync point, and a null point means that nothing is confirmed
(`Cover`); the pages of one refresh, although asked for one by one while the chain changes, are all of
one chain up to the best block (`SyncSeen`); nothing is confirmed before the backend has read a block
(`Fresh`). Transactions are finitely many numbers, so that the greatest and least ones the code takes
exist; `LeastOf` gets them from the well-founded order of numbers, without induction.

`RollbackIsDeepEnough` is about a count. A rollback gives up what is at most `K` blocks below the best
confirmed transaction, while the network replaced `K` blocks of a chain that may be longer than that
transaction is high. `Shallow` says of every replaced chain that the next one has all of it but the last
`K` blocks. What survives the rollback is low enough to be in that part (`Cover` places the confirmed rows
and `OnlyRollback` says that no other step takes a refused refresh back to idle).

`SyncExact`, `UtxosAreRight` and `SyncFollowsOneChain` need that what the wallet fetches is all there is
for it, which the code takes from two things outside: that the scan is steady (`SteadyScan`, see 3), and
that addresses are used in order with gaps of at most `Gap` (`GapKept`), which is the rule of BIP-44 by
which every wallet derives them and without which no wallet finds its transactions. `GapKept` is about
the backend's state, so it stands as `[]GapKept` beside `Spec`; it holds in all states of the instance of
`sync`. Both are needed: without one of them a transaction stays unknown, its row is never added, and the
output it spends stays unspent.

`RowsFull` is the invariant then. `Exact`: what is confirmed is all that an initial part of one chain
has. `Unspent`: an output marked spent is spent by a confirmed row, and one that is unspent is spent by
none, unless by one that also stands against a row that was given up. The difficult part is what a
rollback leaves behind: rows given up keep their block, and are given up again when they are in reach
of a later rollback, which marks their inputs unspent once more. That this harms no confirmed row, except
those `UtxoRight` excepts, is `LooseGone`: if a row that was given up stands against a confirmed one, then
the network has dropped its transaction for good, so it will never be confirmed itself. `SyncFull` says
the same of the pages that are fetched and not stored yet.

`SyncFollowsOneChain` is the refinement: under the mapping `confirmed <- Confirmed` the initial states are
initial states of `ChainView`, and every step is one of its three steps or a stutter: a last page makes
`Confirmed` grow to a longer part of the chain it was part of (`SameHash` and `SyncSeen` say that there
is one), a rollback cuts it at a height (`Cover` and `Exact`), and the others leave it alone.

### Only model-checked

* All liveness (`Answered` of both connector modules, `Returns`, `Calculated`, `EventuallyInSync`,
  `CallsReturn`, `Settles`): the prover has no means for liveness under fairness. Their safety cores
  are proved where they have one: `WaitsEnd`, `NothingLost` and `LostWithPort`, `BusyEnds`, `NothingIsStranded`.
* The properties of the four runs that show a disagreement: they do not hold.

None of the modules with theorems declares or reaches a RECURSIVE operator.

## 6. Not modelled

* `ConnectorWhitelist`: three windows read and write the list of sites in local storage. Its effect on
  the connector is in `DappConnector` (`SaveWhitelist` and removals, as single steps); the lost updates
  of the list itself are hazards without a property.
* `utxosWithSubmittedTxs`: a computation over two lists, to be checked against a reference definition.
* Of the synchronisation: the pages of one chunk (`_batchHistoryByTransaction`). The answer of a chunk is one
  step of `Page`. What it says of confirmed transactions is fixed by `untilBlock`, whatever happens between two
  of its pages, and refusals between chunks show the races there are. A full page with nothing in a block makes the
  code throw, which is a `Fail`; that it would throw again as long as so much waits is outside `EventuallyInSync`.
* Also of it: a backend that goes back between best block and address scan
  (`SteadyScan`), external addresses of the internal chain, token and certificate rows, and the
  copies of the code for Ergo and Jormungandr, which have the same control.
* The database: a transaction of it is taken to be atomic and its locks exclusive, which is what the
  wrapper around lovefield promises.
* Linear flows of dialogs, pure I/O, cryptography, coin selection and presentation have no control of
  which a model checker would find out more than a test; see the notes in `PROJECT.json`.

Outside the repository, and modelled from how the code uses them: the order of timers of the browser
(`MayFire`), and the backend and the chain (`Backend`). `Built` and `SlotBegins` stand for code of the
repository of which the model allows every outcome: the API calls a Request wraps, and the slot of the server's time.
