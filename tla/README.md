# A verification project for Schule als Staat

`Schule als Staat` ("school as a state") runs the currency HGC of a school that plays a
state for a week: a node.js API server over MongoDB keeps accounts, payments and
the presence of the students, and a set of web clients (app, user terminal,
businesses, entry check, registration, administration) uses it.
This directory holds TLA+ specifications of the server, of the services around it
and of the pages that people pay, register and check with, TLC configurations
that check them on small instances, and proofs for instances of any size, checked
by TLAPS.

    tlc -config QueueSafe.cfg MCQueueImplementsBank  # the runs are listed below
    tlapm TransactionQueueProofs.tla

Paths below are relative to `src/`; `actions/` and `db/` are
`server/api/actions/` and `server/api/db/`.

## 1. The system

| Component | State it keeps | Operations | Module |
|---|---|---|---|
| Payment queue, `actions/transactions.js:207-269`, `db/transactions.js` | `pending_transactions` in every worker; collections `pendingtransactions`, `transactions` | announce an intent, ask for permission, read the balance, write, remove the intent, transaction_delete | TransactionQueue |
| Payment requests, `actions/transactions.js` | the variables of one `transaction()` call | transaction, transaction_taxfree, master_transaction, spawn_money, destroy_money | TransactionRequest, Tax |
| Polls, `actions/polling.js`, `client/app/www/js/common.js` | array `polls` in every worker; `last_sync`, `polling_active` in the app | transactions_poll, interval, timeout, notification | Polling |
| Students, `actions/students.js`, `db/students.js` | collection `students` | register, edit, delete, passwords, appear | Students, Accounts |
| Configuration, `config/index.js`, `db/config.js`, `actions/config.js` | collection `configs` (a log), one copy in every worker | load, set, del | ConfigSync |
| Database connection, `db/index.js` | `failedstate`, interval, connection | connect, DB_error, open, disconnect | DbConnection |
| Cluster and envelope, `server/api/main.js`, `monitor.js`, `actions/index.js`, `server/common/cert.js` | workers, open requests, `perfdata` | fork, die, accept, check, run, answer, report | ApiCluster |
| Client queries, `client/common/api.js` | the addresses still to be tried | ping, fall back, query with a timeout | ClientQuery |
| DNS failover, `network/dns/main.js` | the pool of working addresses | heartbeat, answer | DnsFailover |
| Batch payments, business and bank pages | the table of payments with their states | add, identify, start, answer, remove, make pending, down- and upload | Batch |
| Payment forms of the app, `send.js`, `receive.js` | amount, person, handlers | confirm, back, submit | AppForm |
| User terminal, `client/userterminal/site` | globals, sections, confirm button | load a page, identify, confirm | Terminal |
| Registration, terminal and bank | picture, form | upload, register, preload | Registration |
| Student list of the bank | `studentlist`, the open profile | load, open, edit, delete, change | StudentList |
| ID cards, `idcards/scripts.js`; `server/webcam/main.js` | `passpics_to_load`, the PDF; picture files | make a PDF, load pictures | IdCards |
| Entry check and presence | the `appear` log, scanned cards | scan, check in and out, compute presence | Presence |
| Other app pages, transaction list, configuration page, terminal images, network, scripts, tests | none of its own, or files | single queries, shell | not modelled |

How they interact.  A page calls `client/common/api.js`, which finds a server that
answers a ping and posts one action; the worker that accepts it runs
handlers whose database calls are callbacks, so the steps of all requests of
all workers interleave at every call.  Requests meet in three places: in
MongoDB; in the arrays `pending_transactions` and `polls`, which intervals walk
over; and in the worker's copy of the configuration.  There are no
transactions or locks in the database: a payment is made safe by announcing an
*intent* first, letting only the sender's earliest intent go on, and reading
the balance after that.  The answer, if there is one, reaches a callback of the
page, which may by then show something else.

What is hard about it:

* **payments** - several workers debit one account; the balance is three
  queries; the interval starts a new chain of callbacks for an entry whose last
  chain may still run; intents carry client-side timestamps; a TTL index
  removes intents; every call may fail, or succeed and be reported as failed;
  workers die between any two steps.  Correct means: no overdraft, no double
  payment, no refusal without a reason, the answer tells the truth, and
  everybody gets one.
* **requests** - the students collection changes between the lookups of one
  request; amounts are floating point numbers that are rounded after a
  division.  Correct means: the account that is debited is the one whose
  password was checked, and the split of an amount neither makes nor loses money.
* **polls** - the answer of a query belongs to polls that may be gone when it
  arrives; the time of a poll is the time of a payment, not of its becoming visible.
  Correct means: everybody is told of every payment to them, once, and of no other.
* **students** - read, change in memory, answer, save: with anybody's commands in
  between.  Correct means: what payments rely on (one owner per QR-ID, one change
  at a time), and no confirmed check-in is lost to an older copy.
* **services** - connections closed under the commands of others, loads that
  overtake changes, probes that overtake each other, reports after the entry
  has expired.  Correct means: everything recovers and agrees in the end.
* **pages** - globals that are set by one event and read by another, indices into
  lists that were replaced, buttons that are bound, unbound and enabled by answers
  that come late, twice or never.  Correct means: what is paid, shown, deleted and
  printed is what the person at the page saw.

`PROJECT.json` lists every component with its status and every hazard with its
line and the properties that would catch it.

## 2. Modules

    Bank <--- QueueImplementsBank ---> TransactionQueue <--- MCTransactionQueue
                     ^                        ^              (and MCQueueImplementsBank)
                     |                        |--- TransactionQueueProofs
                     |                                        ^
                     +-------------- QueueImplementsBankProofs
    Tax, Accounts <--- TransactionRequest <--- MCTransactionRequest
              ^               ^--- TransactionRequestProofs
              +--- Students, Presence <--- MCStudents
                          ^--- StudentsProofs
    Polling <--- MCPolling
       ^-------- PollingProofs
    ClientQuery, ConfigSync, DbConnection, DnsFailover, ApiCluster <--- MCServices
                                                                           ^--- ServicesProofs
    Batch, AppForm, Terminal, Registration, StudentList, IdCards <--- MCPages
       ^--- PaymentPagesProofs <--- BankPagesProofs ---------------------^

**TransactionQueue** is the payment protocol from the end of `transaction()` to
the removal of the intent.  `phase[r]` says where a request is (`queued`: its
entry is in its worker's `pending_transactions`); `at[r][k]` is the callback
chain that firing `k` of the interval started for it
(`checkWritePermission`, `onWritePermission`, `getBalance`, `transaction_write`);
`intents` is the collection `pendingtransactions`; `income`, `payments` and
`taxincome` are the three sums over `transactions` that `getBalance` asks for,
which is all this code ever reads of them.  Where a step of somebody else
between the execution of a database command and its callback could be noticed,
the two are different actions: `Write` and `WriteDone`, `SaveIntent` and
`Queue`, the three `GetBalance` and `BalanceKnown`.  `written`, `deleted`,
`short` and the histories of section 3 are history.  Amounts are whole smallest units.

**Bank** is what a client is promised: a payment happens in one instant, only if
the sender has the money at that instant, at most once, and is refused only if
the money was seen to be lacking.  **QueueImplementsBank** maps the protocol to
it: the instant of a payment is the insertion of its document.  What the code cannot rule out is a step of
Bank as well: it may lose track of an account (mapped to `unguarded`), pay again what it told its client
an error of, and have money taken back.

**Tax** is `HGC_roundup`, `gross2tax`, `net2tax` over integers: `Unit` of the
model's smallest amounts make one unit of `hgc_decimal_places`.  The floating
point error is a choice: a quotient that should be a whole multiple may be
rounded up by one more unit (0.05 HGC net at 10 % is), no other quotient is
affected.  **Accounts** is the students collection as a payment sees it.
**TransactionRequest** is one payment request from its arrival to the announced
entry: the checks in the code's order, the password, the three lookups (tax
recipient, sender, recipient), the split, with any other handler changing the students
between the lookups.  `EntryGuarantee` is the assumption (`EntryAssumption`)
that TransactionQueue makes of its entries.

**Polling** has the workers' arrays `polls`, the queries under way
(`asked` is the copy of the polls the closure of one firing of the interval
keeps, as positions), and the app: where its request waits, the response on its way,
`last_sync`.  The array only grows, so a position is reused by the model only when no poll, query
or client refers to it.  A page that is left, a broken connection and an expired
request are one action (`Disconnect`): the server keeps the poll.

**Students** has the commands that the handlers send to the collection: `Find` and
`Save` (the document is changed in memory and the request is answered before the
save), `CheckFree` and `Add`, `addAppear`.  mongoose saves the paths that were
changed, and the index on `qrid` refuses a QR-ID that is taken: both are in `Save`.
It implements **Accounts**, which TransactionRequest composes with, so
that the payments' view of "any other handler" is what those handlers do.

**ConfigSync** is the log with the clocks of its writers, and every worker's overlapping
loads; **DbConnection** the interval that closes and opens the connection, driven
by events, by failing commands and by the load of the configuration;
**ApiCluster** a request from its arrival to its last callback (its action runs once for
every file of hashes its certificate is in), the timers that fork workers again, and what the master hears of it; **ClientQuery** the addresses one query tries; **DnsFailover** the
probes and the answers that clients keep for their TTL.

**Batch** is both pages with a table of payments: `calls` are the payments sent, each with
the index (`tid`) its answer will be written to.  **AppForm** has the handlers of
the two buttons as counters, since `.one` and `.click` add and remove them.
**Terminal** has the pages loaded into its frame (`loads`), the scripts
that arrive after them and bind to the confirm button of the page that is
shown then, the globals `current`, what the sections say, and the messages that enable the
button again; the box after ok covers nothing, the page goes on (`common.css:652-665`).  **Registration** has attempts that
go from picture to data to preload, and requests that a server executes after their page gave them up, **StudentList** the list, the rows that were rendered
from it and the changes with whom the page showed (`shown`) and whom the server
found (`hit`), **IdCards** the PDFs with the places of their cards.
**Presence** has the cards at the gate, which look `PRESENCE_SINCE` back (twelve hours in the code), and `calc_checkin_time` as a recursion over the sorted log
(`Stays`: what is known after each check). The sort is taken to be stable, which it is in today's
engines and, for short arrays, was in older ones. The reference definition, the time inside
counted moment by moment, is in the property.

The `MC*` modules give the constants values.  `MCPages`, `MCServices` and `MCStudents` hold
several small, unconnected machines: TLC chooses one in the initial state, the
others keep their initial state.  The definitions next to a
definition that are not used by `Next` (`FirstNewest`, `HearNow`, `WholeDocument`, ...) are
deliberately wrong versions of it, used by the mutants of `PROJECT.json` to
show that each property would notice.

## 3. Environment

What the surroundings may do is a constant of TransactionQueue:

| Constant | Meaning | In the code |
|---|---|---|
| `Round` | firings of one interval whose callback chains may overlap | a chain that takes longer than `transaction_interval` meets the next firing |
| `EarlyExpiry` | the TTL index removes the intent of a payment that is still worked on | `pending_timeout` is the string "180" by default (`config/defaults.json:11`) and is passed to mongoose as it is (`db/transactions.js:62`); nothing ties it to the time a payment takes |
| `LostReplies` | a command is executed and reported as failed | connection lost between the two; DB_error closes the connection under the other commands |
| `Deletions` | administrators delete transactions | `transaction_delete` |
| `MaxFailures`, `MaxCrashes` | bounds on errors and crashes | |

The intents of a sender get any timestamps and become visible in any order, in every run:
`Date.now` is evaluated in the worker, the insert is asynchronous, several servers have several
clocks. `queue_safe` checks all the properties with all of this allowed, and the theorems
about the queue hold in it; the one assumption they make is `SingleRound`, that firings of the interval do not
overlap for one entry, and `queue_overlap` shows what happens without it.
In `Polling` transactions appear with any stamps and in any order, and `PromptTimeout` says that a poll may time
out before any query made for it was handled (`poll_timeout` is 40 s by default, against an
interval of 1 s).

Some of what may happen does harm, and nothing in the code prevents it.  The properties do not
assume it away: a *history* variable records exactly whom it has happened to, and the property holds
of everybody else.

| History | Records | Excepted in |
|---|---|---|
| `unguarded` (TransactionQueue) | senders of whom an intent overtook a payment that had permission, or expired under it | NoOverdraft, SenderExclusion, NoFalseRefusal, Bank |
| `reclaimed` | what `transaction_delete` took from an account | NoOverdraft, NoFalseRefusal |
| `misreported` | documents that were inserted and reported as failed | PaidAtMostOnce: one more document for each |
| `late` (Polling) | transactions that appeared with a time that others of their recipient had already | NoGap, SinceLastRefresh, EventuallyNotified |
| `cut` | transactions that a query found and `poll_max` cut off | NoGap, EventuallyNotified |
| `again` (Batch) | how often a row was sent while its answer was awaited | RowPaidAtMostOnce, TableIsTrue: one more payment for each |
| `strayed` | rows whose answer was written to another row, or to whose place another's was | RowPaidAtMostOnce, TableIsTrue |
| `told` (Terminal) | messages on a page that do not refuse one of its own payments; each enables the confirm button | FormPaidOnce: one more payment for each |
| `crossed` | a script or an answer came to a page that did not wait for it | NamedIsMeant |
| `freed` (StudentList) | accounts that lost their QR-ID, which others may have been given since | ActsOnShown |
| `alone` (IdCards, of a PDF) | no picture of another PDF was under way, and no other PDF was begun while it waited | ShownIsComplete, for the pictures |

So each of these properties says two things: that the recorded events are the only way to the
harm, and how much harm one of them does.  People at the pages click anything at any time; no
patience or care is assumed of them.

ConfigSync takes the times of two changes of one key to be different, and clocks of
the workers that agree on their order; equal milliseconds leave the choice to MongoDB.

## 4. Runs

| Run | Instance | Checks | Shows |
|---|---|---|---|
| queue_safe | 2 payments of any kind (also spawned money) on 2 workers, two opposite senders, intents in any order and of any life, lost replies, deletions, 1 error, 1 crash | TypeOK, NoOverdraft, SenderExclusion, NoFalseRefusal, OkMeansPaid, PaidAtMostOnce, NomoneyMeansUnpaid, SettledIsFinal, ImplementsBank | with one firing at a time nobody overdraws and payments of one sender exclude each other across workers unless that sender's own intents lost their order, a refusal had a reason although the three sums are read at three moments, answers tell the truth, a retried payment is written again only after its inserted document was reported as failed, and every step is a step of Bank or invisible |
| queue_live | 2 payments, 2 workers, 1 error whose command may have been executed, 1 crash, fairness | QueuedIsAnswered | intents that crashes and failed removals leave behind delay the sender and do not block them for ever |
| queue_overlap | 1 payment, 2 overlapping firings | PaidAtMostOnce *violated* | section 5 |
| request | 3 accounts and QR-IDs, payloads of all five kinds with every sort of amount, 1 database error | TypeOK, EntryGuarantee, InDubioProCentralBank, DebitsCheckedAccount | whatever is registered, renamed and deleted between the lookups, the entry is sound |
| poll_safe | 2 accounts on 1 worker, 3 positions, 2 queries under way, 1 fault, 3 payments, two with one time, in any order, `poll_max` = 2 | TypeOK, OnlyOwn, NoGap, NotifiedOnce | answers matched by position to a changed array reach their accounts, `last_sync` skips nothing but what was late or cut off |
| poll_live | 1 app, 2 workers, 1 fault, fairness | SyncAdvances, EventuallyNotified | every payment that is neither late nor cut off is shown in the end, the date never goes back |
| poll_limit | `poll_max` = 1, 2 accounts | SinceLastRefresh *violated* | section 5 |
| pages | each page alone: 2 rows per site, 2 queries and 1 reset; 2 persons at the app; at the terminal 2 persons and any 5 of clicks, persons not found and pages (which count twice); 3 attempts to register; 2 lists and changes of 2 pupils with 3 QR-IDs; 2 PDFs of 3 cards | PagesTypeOK, RowPaidAtMostOnce, TableIsTrue, OneHandler, ShownAsTyped, FormPaidOnce, NamedIsMeant, PictureOfOwner, ActsOnShown, ShownIsComplete | what a page pays, shows and acts on is what its user entered and the server did, but for what the histories of section 3 record |
| start_again | the table of payments, 4 queries | StartPaysOnce *violated* | section 5 |
| terminal_unavailable | the terminal alone | UnavailableMeansUnpaid *violated* | section 5 |
| services | each service alone, fairness: 2 queries, 2 gateways; 2 workers, 2 changes, 1 restart; 2 outages; 2 servers, 2 probes each; 3 requests, one of them accepted twice and one that ends its worker, 1 more death | ServicesTypeOK, ResultIsTrue, NoOrphan, WorkerRecovers, WorkersConverge, PoolFailsOver, ClusterRecovers | queries end with a true status, workers and pools recover, the configuration converges, all workers run again |
| students | 3 accounts, 2 QR-IDs, 6 requests on them, 1 fault; a log of 3 checks with times up to 3 | CheckinsKept, ImplementsAccounts, PresenceIsMeasured | the interleaved commands are what payments expect of them and lose no check-in; the presence is the time inside |

Why the bounds are enough to be interesting: two payments are the least that make the exclusion of a
sender's payments, the reading of sums while income arrives, and a wrong refusal possible, and they
may be of one sender, of opposite senders or spawn what the other spends;
two workers are the least for intents of a dead worker to block a
living one; one error allows a retry; one crash is placed at every
step.  Three positions and two queries allow a poll to end and a new one to begin
while two answers for the older ones are under way.  Three QR-IDs and accounts
allow a QR-ID to pass from the sender to a newly registered student during a request.  The
amounts include one below the smallest unit, one below what a payment may state, as a number and as text, whole units, whole multiples after
the division (where floating point goes wrong), negative numbers and strings;
what holds for all amounts is proved.  Two pages with a click, or one with three, let answers, scripts and messages arrive
at the page that is shown by then and a form be confirmed again; two lists let rows of one stand beside the list
of the other; two probes of one server let their answers change places; a load
may overtake two changes; two workers may be down at once; six requests of every kind meet at one QR-ID.  The log of checks contains
every order of types and times that three checks and four moments allow,
equal times included.

Deadlock is not checked: a system in which every request has been answered
stops, and so does one whose bounds are used up.

Symmetry is used in safety runs only, and in `students`, whose properties are safety.
Also in `pages`, where the two persons at the terminal are alike.  The requests, workers, rounds, positions, queries and unnamed accounts are interchangeable; the queue's accounts and
the clients are not and are not permuted.  Liveness runs have none.

## 5. Findings

Each is a run that TLC ends with a counterexample; `PROJECT.json` quotes the
comment it contradicts.

1. **queue_overlap** - the interval asks for permission for an entry whose
   previous chain is between permission and write; both chains write.  The
   guard `if (pending_transactions[i])` in `onWritePermission` only helps after
   the entry was deleted, which happens after the write.
2. **poll_limit** - `poll_max` limits the query made for all polls of a worker;
   what is cut off is older than the `last_sync` that clients then store and
   is never sent.
3. **terminal_unavailable** - after 1.5 seconds the terminal tells its guest that the
   currency system is not available and to try again; the payment was
   received and is made all the same.
4. **start_again** - the button that starts all pending payments is enabled again after a second
   (`business/site/scripts.js:270-274`), whether or not they were answered, and sends every row that still
   waits a second time; the server pays it twice.  The bank's page has the same button (`maketransaction/scripts.js:365-370`).

Seen in variants of the instances or while reading, and not kept as runs:

* an intent with an older timestamp that lands later gets permission, too, and an intent that
  expires under its payment lets the next one in (`actions/transactions.js:361`,
  `db/transactions.js:62,83`): without the exception of `unguarded` senders `NoOverdraft`, `SenderExclusion` and
  `ImplementsBank` fail;
* a document that was inserted and reported as failed is written again; without its exception
  `PaidAtMostOnce` fails (`actions/transactions.js:233-242`);
* `HGC_roundup` (`actions/transactions.js:9-12`) adds one unit to quotients that are whole
  already but are not as floating point numbers; `EntryGuarantee` without its condition on
  rounded amounts fails for the administrators' actions, which do not check decimal places;
* a transaction whose second has passed already when it becomes visible is never sent, since a poll asks for
  `time > last_sync` (`late`, without which `NoGap` fails); a poll that a left page leaves on another worker makes the
  app show payments twice, and so do two apps with one account (a query takes the oldest date of
  its account's polls for all of them, `polling.js:99`); an app that is not logged in when it starts to poll sets
  `polling_active` and never polls (`common.js:122`);
* `profile_edit`, `password_change` and `student_delete` answer ok before the save and
  whatever becomes of it (`actions/students.js:57-98`); a QR-ID taken in between is such a case;
* a query that cannot be decrypted ends the worker with an exception
  (`actions/index.js:123-125`), and a restarted worker is not attached to the monitor
  (`main.js:52`, `monitor.js:26`);
* the reconnection reads `settings.mongodb_reconnect_interval`, which does not exist
  (`db/index.js:17`): it tries again at once, and so all the time, until the connection is open;
* every message of the terminal enables the confirm button again (`userterminal/site/common.js:47`), also that a person
  was not found, after the answer ok, which covers the page with nothing: the globals still name the old persons, and the next click pays
  the form again. `FormPaidOnce` counts such messages (`told`), and fails if it counts only those of missing answers;
* answers that are outstanding while rows are removed or a file is loaded are written to other rows
  (`business/site/scripts.js:259`); a page that loads behind another binds its handler to the wrong button, and one click
  sends two queries (`userterminal/site/index.js:45`); two PDFs made at the same time share a counter, and
  one is shown without its pictures (`idcards/scripts.js:255`);
* a certificate whose hash is in two of the files of an action runs it twice (`server/common/cert.js:28-34`);
* when nobody is found for a name the bank's page enters a row without that person
  (`maketransaction/scripts.js:253`);
* `config_del` of `transaction_tax_percent` leaves every tax undefined until the next start
  (`actions/transactions.js:429`).

## 6. Fairness

`Fairness` in TransactionQueue: every callback of a living worker runs, every
command is executed, every interval fires, the TTL index sweeps.  Node and MongoDB
promise this.  Almost all of it is weak: each of these steps, once possible, stays
possible until taken or taken away by a crash or an error, which are bounded.
`BalanceKnown` needs the three reads, which are one fair step together because each can happen
once.  Permission alone is granted by a strong fairness: of two intents with one timestamp the query may return
either, but not for ever the one that is not asked about (MongoDB returns equal keys in the order of their
index, which is stronger).  Clients are not obliged to ask, nothing is obliged to fail.
The property is about requests that reached the queue: before that the request
is one insert, which either fails (answered) or is queued.

`Fairness` in Polling: the app's interval opens a poll, responses arrive, the
poll's timer runs out, the worker's interval sends queries and the database answers.  `poll_live`
sets `PromptTimeout = FALSE`, since a poll that always times out before the
first query is answered tells nobody anything; the 40 s of `poll_timeout` against 1 s justify it.

`services` takes the fairness of the part that was chosen.  `ConfigFairness`: entries are
saved, every worker keeps loading, and again and again a load is
answered (strong: any number of loads may be lost, but not all for ever).  `DbFairness`: the driver
reports, the interval ticks, the configuration is loaded regularly
and ends.  `DnsFairness`: heartbeats go out, a server that is on answers, kept answers
expire after their TTL.  `ClusterFairness`: the timers that fork workers fire.  Each is a timer or an event of node; outages and deaths are bounded, never obliged.

## 7. Proofs

TLAPS checks these for every number of requests, accounts, workers, entries,
polls, payments, checks, rows, pages, pictures, errors and crashes.  Every invariant a passing run
checks is proved; so are the action properties `SettledIsFinal` and `SyncAdvances` and the
refinements `ImplementsBank` and `ImplementsAccounts`. What the liveness properties of the
services and of the queue rest on is proved, too: that what has been reached is kept.
The theorems about pages, services, students, requests and most of those about polls assume nothing but the named
assumptions on constants; what a property excepts is recorded by a history (section 3), never assumed away.

| Theorem | States | Needs |
|---|---|---|
| `TransactionQueueProofs!TypeCorrect`, `OkIsTrue` | TypeOK, OkMeansPaid | nothing |
| `EndIsAnswered` | an entry ends with an answer, which is not taken back | nothing |
| `AtMostOnce`, `NomoneyIsTrue`, `AnswerIsFinal` | PaidAtMostOnce, NomoneyMeansUnpaid, SettledIsFinal | `SingleRound` |
| `RepeatedByErrorsOnly` | one document more per database error at most, a second one only after "error" | `SingleRound` |
| `Solvency`, `Exclusion`, `RefusalHasReason` | NoOverdraft, SenderExclusion, NoFalseRefusal | `SingleRound` |
| `QueueImplementsBankProofs!Implementation` | ImplementsBank | `SingleRound` |
| `TransactionRequestProofs!TypeCorrect`, `GuaranteesEntry`, `FavoursCentralBank`, `DebitsChecked` | TypeOK, EntryGuarantee, InDubioProCentralBank, DebitsCheckedAccount | nothing |
| `EntryIsAssumed` | `EntryAssumption` of TransactionQueue, of every announced entry of a rounded amount | nothing |
| `PollingProofs!TypeCorrect`, `OwnNewsOnly`, `SyncAdvancesTheorem`, `NoGapTheorem` | TypeOK, OnlyOwn, SyncAdvances, NoGap | nothing |
| `NotifiedOnceTheorem` | NotifiedOnce | `OneAppPerAccount`, `[]NoneElsewhere` |
| `NotifiedOnceByOneWorker` | NotifiedOnce | `OneAppPerAccount`, a single worker |
| `StudentsProofs!StudentsTypeCorrect`, `CheckinsAlwaysKept`, `AccountsImplemented` | StudentsTypeOK, CheckinsKept, ImplementsAccounts | nothing |
| `PresenceTypeCorrect`, `PresenceAlwaysMeasured` | PresenceTypeOK, PresenceIsMeasured | nothing |
| `ServicesProofs!ServicesTypeTheorem`, `ResultIsTrueTheorem`, `NoOrphanTheorem` | ServicesTypeOK, ResultIsTrue, NoOrphan | nothing |
| `ReconnectionTheorem`, `ConfigTheorem`, `DnsTheorem`, `ClusterTheorem` | the safety below WorkerRecovers, WorkersConverge, PoolFailsOver, ClusterRecovers | nothing |
| `PaymentPagesProofs!HandlersBalanced`, `ShowsWhatWasTyped` | OneHandler, ShownAsTyped | nothing |
| `RowPaidAtMostOnceTheorem`, `TableIsTrueTheorem` | RowPaidAtMostOnce, TableIsTrue | nothing |
| `NamedIsMeantTheorem`, `FormPaidOnceTheorem` | NamedIsMeant, FormPaidOnce | nothing |
| `BankPagesProofs!PagesTypeTheorem`, `PictureOfOwnerTheorem`, `ActsOnShownTheorem`, `ShownIsCompleteTheorem` | PagesTypeOK, PictureOfOwner, ActsOnShown, ShownIsComplete | nothing |

`SingleRound` says that `Round` has one member: a chain of an entry ends before the interval starts the next one
for the same entry; the chains of different entries overlap as they like. The code does not
guarantee it (finding 1), and without it the theorems that need it are false.

How the arguments go:

* **Payment queue.**  `TypeOK` is inductive with `Announced`: a request
  that is past `new` has an entry and an owner, and callbacks run only for
  requests that entered the queue with a real sender.  `AtMostOnce` needs
  `Chained` (a chain runs for a queued entry only) and `Once` (a written payment
  is gone, lost or about to run `WriteDone`, unless it was misreported); no order of intents is needed.
  `Solvency` and `Exclusion` use `SafeInv`, about senders that are not `unguarded`: their intents
  have different times (`Distinct`) and belong to announced requests (`Placed`); whoever
  is between permission and release has the strictly earliest intent of its sender
  (`Permitted`), hence is alone; what a chain counts with while it reads the sums one by one (`Hope`: the
  sums already read count as read, the others as they are now) never exceeds what the sender would have if nothing had been taken back
  (`Worth`, in `Cautious`), since nobody else debits the sender;
  before the write that covers the amount (`Covered`).  `NoOverdraft`
  alone is not inductive: a state with a covered balance and two writers satisfies it.
* **Answers.**  `OkIsTrue` rests on `Truthful`: who is told ok, or is about to be,
  has a document.  `NomoneyIsTrue` and `AnswerIsFinal` rest on `Settled`: the answer and
  the end of the entry come together.  Where replies are lost a document may exist although the
  callback heard of an error, so `Settled` alone is not inductive; `Tried` adds that every document
  but the one being written cost a database error, whose client has the answer "error" for good.  `EndIsAnswered` needs
  `Concluded`: no callback runs for an entry that was lost with its worker.  The invariant of `RefusalHasReason`,
  `Enough`, follows `Hope` from the other side: income of the
  sender only adds to it and nobody else debits the sender, so it never falls
  below what it was at the first read, unless money was taken back.
* **Bank.**  Every action is mapped to a step of Bank (`Write` and `WriteSpawn` to `Pay`, a
  reading that finds too little to `Notice`, a crash to the loss of its worker's
  pending payments, a lost order of intents to `LoseTrack`, ...) or to a stutter, with all invariants above; `StatusIs` says what a request is to
  the bank.
* **Requests.**  `IInv` adds which payloads got past the checks
  (`Accepted`), what the lookups found at each step (`Found`) and whose
  password was checked (`Authorised`); lemmas on `CeilDiv` and `HGC_roundup` bound the tax
  and say that it is a multiple of the unit.
* **Polls.**  `Linked`: a poll, and every copy of it that a query under way took, belongs to the
  client that listens at its position and has that client's `last_sync`.  `Answers(c)` is the set of lists that
  `c` may be sent next: the response on its way, and what the database has found for its poll.
  `SyncInv` says that they hold own payments (`Real`) and, when they are not
  empty, one that is not older than `last_sync` (`Synced`); this is inductive even though an answer may be
  cut and may be wider than what was asked.  `GapInv` adds that they lack only what is newer
  than all of them (`Complete`) among what was neither late nor cut.
  `OnceInv` says instead that all polls an app has at its worker have its present `last_sync`, also in the
  copies that queries took (`UpToDate`), so that an answer holds only what is newer than
  everything shown (`NewOnly`); news end all polls of their app at once.
* **Students.**  `Progress` says that a request between find and
  save has the `_id` of a document that existed (it may have been removed since, and never
  comes back), `OneOwner` that QR-IDs are unique; `CheckinsKept` needs both, since a save is
  applied to the document as it is then.  Each command is then mapped to `Register`, `EditQrid`, `ChangePassword`,
  `Delete` or to a stutter (`View` hides the log).
* **Presence.**  `PresenceAlwaysMeasured` is an induction over data without the library's induction
  theorems: `LeastElement` takes the least member of a set of naturals from the
  well-foundedness of strict inclusion, `AllUpTo` is induction over a set (a constant, not an
  operator), and `Recursion` says that what `Stays` defines by recursion exists and satisfies its
  equation.  `RankStrict`, `RankOnto` and `Positions` say that the ranks of the checks are a
  permutation that orders them; `InsideIsLast` says that who is inside is told by the last check
  up to then.  Along the sorted log the time counted so far is then the number of `Moments` inside up
  to the check.
* **Services.**  `QueryInv` couples how far the client is with what the server has done
  (`Unposted`, `Answered`).  `ClusterInv` says that there is one timer for every worker that is down, and that no action runs with a
  worker that does not (`Hosted`).  `DbInv` says that the interval
  runs exactly while the connection counts as failed, which makes it the only one.  Each of `ReconnectionTheorem`, `ConfigTheorem` and `DnsTheorem`
  has a state of rest that no step leaves unless the world changes: `Undisturbed` (needs `Noticed`: a
  closed connection counts as failed), `Synchronized` (loads under way bring exactly the newest
  entries; needs `Stamped`, one newest entry of a key, and `FoundInLog`), and `Accurate` (probes under way have
  found what is so; needs `OnlyProbed`).  That it is reached is what the liveness runs check.
* **Forms of the app.**  `Asking` and `Sending` name the one query that a missing handler
  waits for; `Shown` says that while the window is open nobody is identified,
  which `ShownAsTyped` alone does not and needs.
* **Batch.**  `Matched`: rows are distinct in the table and in the file, and what is still identified is in neither.
  `Counted` bounds the calls that were made for a row by the times it was set back or sent again while its answer was awaited,
  and one more unless `start` is due to send it.  `Truthful` says what each state of a row says of its calls (`Honest`).
  All but types and distinctness is of rows outside `strayed` only: an answer that finds its own row proves its index right, and one that
  does not puts both rows into `strayed`.
* **Terminal.**  `NamedInv`: as long as nothing foreign came to the shown page, its sections name nobody before its script, and after it
  its own script's handler is in force, so that every answer goes to the global of its section.
  `PaidInv` counts: the payments of a form that are made or may be (`Hot`) are at most the messages on its page that refuse none of them,
  and one more when the button cannot be clicked; a refusal enables the button and takes a payment back at the same
  time (`RefusalCools`).
* **Registration, list, ID cards.**  A name of a picture has one owner and who is beyond the upload, or has left
  it behind, has stored it (`RegistrationInv`).  Lists, rendered rows, profile and orders hold the QR-ID of their
  pupil unless that one has lost it since (`Current`, `Meant`).  A PDF that waits alone is the last, the counter is the number of pictures it
  lacks and no picture of another is under way (`AloneInv`); the places are shown apart by arithmetic (`PlaceInjective`).

Invariants that were not inductive at first changed what the project says: some histories of section 3 were found
as counterexamples to stronger properties, and a row that is typed again after it was removed or saved to a file is
another row in `Batch`.  The invariants were checked by TLC before they were
proved.

Assumptions on constants are named `*Assumption` and are evaluated by TLC in every run.

Only model-checked:

* liveness (`QueuedIsAnswered`, `EventuallyNotified`, `WorkerRecovers`, `WorkersConverge`,
  `PoolFailsOver`, `ClusterRecovers`), which is out of the prover's reach: that the states that `EndIsAnswered`, `NoGapTheorem`
  and the four theorems on services without a property speak of are reached. `QueuedIsAnswered` is checked without early expiry: an
  entry whose intent expired before its turn is never answered by this code;
* what the findings of section 5 refute, of course, is not proved. `NotifiedOnce` is not claimed of apps that share an account or that
  left a poll behind at another worker: they do show payments twice (section 5).

## 8. Not modelled

* **Cryptography and parsing** of the envelope: a body can be read or not, a certificate
  has files that hold its hash or not.
* **Floating point drift** of sums: amounts are whole units, tax percentages whole numbers; the one place where rounding
  matters is in Tax.
* **Growth** of `pending_transactions` and `polls`: entries are only ever set to
  undefined; memory is no state the other parts read.
* **Rendering**, statistics, sounds, the exchange calculator, printing of names.
* **User terminal**: its radio, the presets (one more way to identify somebody), and the
  two pages that are loaded at its start (`index.js:82-83`), whose load is like any other.
* **Other pages** of the app, the list of transactions and the bank's configuration page: each shows the
  answer of one query and keeps nothing; the changes they send are modelled at the server.
* **Terminal images, network and installation scripts**: shell and system configuration.
* **Test programs**: read for how the interface is used.

The modules of pages do not contain the payment protocol: for them a payment is made once,
refused or lost, at any moment, which is what `queue_safe` and Bank say of it.
