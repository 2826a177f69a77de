# A verification of pageserv

pageserv is a paging server: people hand it short messages over SNPP (RFC 1861),
a "classic" line protocol or a web form, it keeps them in a spool directory, and
a delivery daemon dials the paging terminals and sends them with TAP.  These are
TLA+ models of its core, TLC configurations that check them on small instances,
and proofs, checked by TLAPS, of the properties that hold for every instance.

* [The system](#the-system) - components, state, operations, what is hard
* [Modules](#modules) - which module models what, and how
* [Runs](#runs) - what TLC checks, with which bounds
* [Proofs](#proofs)
* [Disagreements with the code's own words](#disagreements)
* [Not modelled](#not-modelled) and [the plan](#plan)

To repeat everything, in this directory:

    tlc -config pair.cfg MCPageQueue        # any run of the table below
    tlapm PageQueueProofs.tla               # and the seven other *Proofs modules

## The system

One binary, many processes.  The main process (`main.c`) accepts connections and
forks a child for each; at the start it also forks the delivery daemon,
`deliveryd_main`.  Processes share no memory: they meet in files.

| component | state | operations | meets the others through |
|---|---|---|---|
| page spool (`pageserv/queue.c`) | `q*` files, one for each page; `l*` lock files with a pid | storequeue, listqueue, readqueuefile, readytodeliver, q_lock, q_unlock, dequeue, readyqueue, dofarkle | everybody |
| queue runner (`delivery/misc.c`) | list in memory, terminal, TAP session | runqueue, cleanmylocks, del_sigint | spool; forked by deliveryd or started with `-q` |
| server and delivery daemon (`pageserv/main.c`, `signals.c`, `sockets.c`, `kids.c`) | pid file, port, the pid of deliveryd | detach, writepid, resetservtraps, getservsocket, deliveryd_main, deliveryd_checkmom, killserver, rehash | spool, runner, user database; a second server, the command that kills it |
| SNPP server (`snpp/`) | pagers, message, priority, hold time, login, tries | PAGE, MESS, DATA, SEND, RESEt, HOLDuntil, LEVEL, LOGIn, SHOWQ, DEQUE, QUIT | storequeue, dequeue, user database |
| classic protocol (`protocol.c`, `login.c`) | one `queuent` | epage, mash, farkle, login, quit | storequeue, dofarkle, user database |
| web server (`http/`) | one request | send a page, a user's form, administration | storequeue, user database |
| user database (`userdb.c`, `parseusers.c`) | records: password, statid, hours; each a second time under the pager id | u_exists, getuser, storeuser, deleteuser, eraseuserdb, dump, parse | login, web forms, root's commands, rehash; storequeue (check_time) |
| terminal database (`termdb.c`, `parseterms.c`) | records: number, port, protocol | list, find | runner |
| terminal drivers (`delivery/tap.c`, `modem.c`, `serial.c`, `network.c`) | a port, its lock file, a TAP session | p_lock, p_openport, p_unlock, checklocks; s_openhost, s_modem_connect, s_tap_init, s_tap_send, s_tap_end | runner; other runners through the lock files |
| clients (`clients/client.c`, `parsemail.c`, `pushqueue.c`) | one connection, the sum of the replies | snpp_connect, sendAPage, hold, quit, destroy | SNPP server; the mailer that runs them again |

What makes it hard:

* Every step of the spool is a system call, and none is atomic with the next: a
  page is checked for a lock and then locked; a queue file is created and then
  written; it is read and, minutes later, transmitted from the copy.
* Five kinds of process remove pages: runners, deliveryd and `pageserv -p`
  (expiry), DEQUE, farkle, and any reader that takes a file for invalid.
* A runner may end anywhere: `alarm(120)`, a signal, a kill, a dropped line, an
  abort.  The locks it leaves keep its pages from everybody else.
* Terminals answer late, wrongly or not at all, and no answer says which page it is for.
* A port, a pid file and a user's record are looked at first and taken, written or
  stored later; nobody locks anything but with a file that is made the same way.
* A client that loses its connection does not know what became of its SEND, and is
  run again.
* A SEND to many pagers, and a long message cut into parts, fail half way; a write to a
  full disk fails and nobody looks.
* A hold time goes from a number to text and back, through two time zones.
* Hours wrap around midnight; the difference of two times is divided and
  truncated; hours are converted between a mask, a form and a text file.

What makes it correct, component by component:

* **spool and runners**: no page is in the hands of two runners; a lock stays
  until its owner gives it up and goes with its owner; an acknowledged page is not sent
  again; a page leaves the queue once, for a reason that is true; every
  page leaves; every runner ends.
* **SNPP session**: the array of pagers has room; "queued" and "failed" are true;
  nobody is paged twice without a "failed" in between; a session is limited - the first
  two as far as writes that fail unseen and texts that are cut off allow.
* **hours and times**: a pager's hours are those that were typed, whatever form
  and dump they go through; a page is due, and expires, when it should, and its
  phases follow each other in one direction.
* **terminal drivers**: what a runner believes of a page is what the terminal said of it; a
  port is used by one runner; its lock goes when the port is closed; every wait ends.
* **accounts**: no change of a record is lost, no deleted user returns, both copies of a
  record agree - or the reason is one that is named.
* **daemon**: the pid file is that of the server that serves; a deliveryd whose server is gone
  ends, or serves another one that has written the pid file since; a server has one again and
  again.
* **clients**: "successful" is true, as far as the server knows it; a run that exits with 75 has
  not queued the whole message, though parts of a long one may stay in the spool; the page is
  held as long as was asked for.

`PROJECT.json` lists the hazards line by line with the properties aimed at each.

## Modules

    PageLedger          what the spool promises for each page
        ^ implemented by (Ledger, KeepsLedger)
    PageQueue           the spool, runners, checkers, clients  <- phases justified by PageTimes
    PageQueueInv        its inductive invariants
    PageQueueProofs     theorems            MCPageQueue   instances
    QueueText           order of a list, wrapping of a message  (evaluated by MCPageQueue)
    PageTimes           hours of a user, hold time and lifetime of a page
    PageTimesProofs     theorems            MCPageTimes   instance
    PortLock            runners and the lock files of serial ports
    PortLockProofs      theorems            MCPortLock    instance
    TapLine             one call to a terminal, word by word
    TapLineProofs       theorems            MCTapLine     instance
    SnppSession         one SNPP connection
        ^ composed with (Session)
    PageClient          parsemail and pushqueue at its other end
    SnppSessionProofs   theorems            MCSnppSession instance
    PageClientProofs    theorems            MCPageClient  instance
    Accounts            records of users, everybody who stores them, rehash
    AccountsProofs      theorems            MCAccounts    instance
    Daemon              servers, pid file, deliveryds, killserver
    DaemonProofs        theorems            MCDaemon      instance

PageQueue has one step for a whole call to a terminal and takes any of its results;
TapLine opens that step, and PortLock the one before it (`OpenTerm`, `OpenFail`).
PageQueue's `Checkers` are the deliveryds of Daemon; that two of them may run after a
restart is why the run `pair` has two runners.

Definitions called "Mutant of ..." state a plausible mistake in the definition
that follows them.  No action uses them; they show that a property notices.

### PageQueue

State: `file[m]` is the queue file (`absent`, `partial` between fopen and fclose,
`full`, `gone`), `lock[m]` the content of the lock file, `writers[m]` who has it
open for writing, `age[m]` what `readytodeliver` makes of the clock.  The rest is
the memory of each process: `todo` (rest of an open directory), `list` (the array
of `listqueue`), `cur` and `res` (page and answer in hand), `term`, `online`,
`first` (`i == 0` in `runqueue`), `mine` (the stale pid in `cleanmylocks`).
`fate`, `aired`, `acked`, `cut`, `told`, `clash`, `deaths`, `torn` are history:
no guard but that of a bound, and that of `StoreClose` (the writer's descriptor
outlives the name), reads them.

| code | actions |
|---|---|
| `storequeue` (queue.c 604-665) | `StoreOpen`, `StoreClose`, `StoreUnwritten` |
| `listqueue`, `readqueuefile` | `ListSweep`, `ListSkip`, `ListRead`, `ListTake` |
| `gq_checkit`, `readytodeliver` | `ListDecline`, `ListExpire`, `ListPick` |
| `q_islocked`, `q_lock` | guard of `ListPick`; `LockOpen`, `LockWrite`, `LockFail` |
| `runqueue` | `StartRunner`, `ListEmpty`, `ListReady`, `OpenTerm`, `OpenFail`, `TapInit`, `TapInitFail`, `Send`, `Settle`, `Defer`, `Relist`, `Hangup` |
| `cleanmylocks`, `del_sigint`, `exit` | `StartCleaning`, `CleanLock`, `Exit`, `Signal` |
| `deliveryd_main`, `readyqueue`, `pageserv -p` | `Wake`, `CheckStart`, `CheckEntry`, `CheckFork`, `CheckEnd`, `CheckWait` |
| `dofarkle` | `Wake`, `FarkleTake`, `FarkleNone` |
| `snpp_delUserQ` | `UserRead`, `UserDequeue` |

What the model simplifies, and why nothing is lost by it:

* A directory scan returns the names present when it opened, and may or may not
  return one created while it runs; a name removed meanwhile fails to open.
* `dequeue` unlinks the page and its lock in one step.  In between, the only
  thing a second process can do is to find the page gone, as it does after both.
* In `readqueuefile` an empty file is found and unlinked in one step, and in
  `gq_checkit` the clock and the lock are read in one step.
* A list is a set, taken in the order of `queuecompare`; equal pages in either
  order.  That `queuesort` computes that order is `ListsAreSorted` of QueueText.
* s_tap_send's results -1 (too long) and ESC are handled by `runqueue` exactly
  like a NAK (deferred), and are that here.
* Locals that are dead in C (a freed list, an old answer) are reset.
* After a hangup the list is freed a second time (misc.c 163 and 184).  The C
  library may abort, which is `Die`, or not, which is `Hangup`.
* A signal inside `q_lock` leaves a lock file open and empty; `cleanmylocks`
  cannot recognise it and `exit` flushes the pid into it (`torn`).
* The farkle client takes the first page; on an empty list it dequeues an unset name, which
  is no file.
* A full disk (`DiskMayFill`) leaves an empty file, whose sender is told that it is queued
  (`StoreUnwritten`); the next listing removes it.  A file cut in its middle is as invalid as an
  empty one, or lacks a part of its text, which no property of the spool speaks of.
* Pids are not reused while a lock with that pid lies around, names of pages are
  not reused, and signals during `cleanmylocks` itself are left out.

The excuses in the properties are history, not escape hatches: `clash` holds a
page only after its lock was taken over an existing one, taken for a page
already gone, could not be created, or was removed by `cleanmylocks` under a
writer; `cut` only pages whose runner was stopped between the
answer and `dequeue`, and each such stop excuses one repetition.  `CleanLocking`
shows that with deliveryd alone `clash` stays empty.

### SnppSession

State: the globals of `snppmain.c` (`snpp_pageid` as `pagers` and `room`,
`snpp_message`, `snpp_priority`, `snpp_holdtime`, `snpp_lastsend`,
`snpp_logname`), the tries, and the loop of `snpp_send` (`next`, `good`).  SEND is
one action per pager, so that a dropped line or the alarm may come in
between.  `StoreFails` leaves any number of parts of a long text behind, as
`_splitsq` does.  `StoreSucceeds` is a `storequeue` that returns 0, which says no more than that
the files could be created: `written` is whether fprintf and fclose did what they should, and
nobody looks.  A text too long for a page is wrapped or, if `tuning.wrapMessages` is not 1
(`wraps`), cut off and stored as a success (`Truncated`).  What can go wrong is the
environment's choice.  Lines are the commands they parse to.

`whole`, `partial` and `unwritten` record what the spool was given for each pager.
`QueuedForAll` and `FragmentIsReported` say how much "queued" and "failed" are worth, with the
writes that failed unseen and the texts cut off as the only exceptions.

### PageTimes

State: a clock in seconds, a user's mask as the set of its bits (32 of them:
"always" sets them all), a page's priority, hold time and stamp.
Actions: typing hours, a line of the user file that ends before the hours (an empty mask),
the web form returned unchanged, dump and reload,
`check_time`, the stamp (a later reading of the clock), `readytodeliver`.
Division truncates towards zero as in C.  An hour is 3600 s after a
midnight: no daylight saving time.  `p_mash` hands over a hold time from
uninitialised memory: any member of `Garbage`.

`since` is what a record went through since its hours were typed; `Slips` are the hours it
opens beyond those.  `wished` keeps both for the moment `check_time` looked.  The lifetime is
in minutes here as in the code; the sample configuration says seconds.

`PhasesAdvance` is what PageQueue relies on when `Tick` only moves forwards.

### QueueText

Not a state machine: `QuickSort` is both quicksorts, with the place where each scan
stops, and the late exchange that is taken back; `Split` is the loop of `_splitsq`.
`AlgorithmsAssumption` of MCPageQueue, which TLC evaluates in every run of the spool,
compares them with what they are for: lists of up to four pages come out sorted and
complete, whatever the unbounded scan reads below the array (`ListsAreSorted`); of a
text of up to seven characters nothing is lost but a blank between two pages
(`TextIsKept`).  These hold of bounded inputs only.

### PortLock

State: `lock[p]` is the lock file of a port, the pid in it and who has a stream on it;
`pc[r]` is the next system call of a runner, `at` its terminal, `port` and `pid` the
locals of `p_lock` and `checkpidfile`, `unread` the rest of the directory in
`checklocks`.

| code | actions |
|---|---|
| `runqueue` (misc.c 79-191) | `Start`, `Skip`, `Call`, `Talk`, `TalkInVain`, `Finish` |
| `p_lock`, `checkpidfile` | `Look`, `Refused`, `Stale`, `Remove`, `Create`, `CreateFails`, `Write` |
| `p_openterm`, `p_openport`, `any_closeterm` | `OpenPort`, `OpenFails`, `PUnlock` |
| `checklocks`, `exit` | `SweepNext`, `SweepAway`, `Exit` |
| `del_sigint` | `Signal` |

A port that cannot be opened keeps its lock file (serial.c:187); that is not repaired here but
named by `broken`, and `LeakIsAFailedOpen` and `ExitsClean` say that nothing else leaks
and how long it lasts.  `raced` holds a port only after two runners were inside
`p_lock`, or `p_lock` and `checklocks`, for it at the same time.

### TapLine

State: what the runner waits for (`pc`), its list (`queue`, `todo`, `first`), what is
written and not yet read in either direction (`asked`, `line`).  Each word the far side says
carries the number of the packet it answers: nobody reads it but the properties, and
the runner cannot.  The far side replies to each request, or the reply is lost; it may
answer late, say a word nobody asked for (`Stray`, at most `MaxStrays`) and hang up.
`WaitFails` is a timeout of `_waitondesc`: the word it waited for may arrive later and is then
read by the next wait.  `HearNothing` is the 'X' of a dropped line; `Outcome` is what
`runqueue` makes of a result.  `MaxSends` bounds the packets of a call, since a page
that is always refused is sent again for ever; `Killed` is the alarm that ends that.

### Accounts

State: the records of the dbm file, and for each session and for rehash the copy it
holds.  A step is one call of the dbm library, so `storeuser` with `userdbrhash` is
`Save` (or `Add`, `Parse`, `StoreRestored`) and then `StoreAlias`.

| code | actions |
|---|---|
| `p_login`, `login_usermain`; `_http_auth_require`, `_http_moduser_process`; `changepasswd` | `Ask`, `Fetch`, `Save`, `Leave` |
| `_http_doadduser`, `_http_dodeluser` | `AskNew`, `Add`, `AskDelete`, `Delete` |
| `rehash_main`, `parseusers` | `StartRehash`, `CachePassword`, `Erase`, `Parse`, `StartRestore`, `Restore`, `StoreRestored`, `EndRehash`, `KillRehash` |

A password or a set of hours is named for the session that chose it, so that a record
shows whose changes it has.  `current[n]` is what the changes so far add up to; a user is
in `clobbered` only after a store of a copy that somebody else had overwritten
meanwhile, or a rehash that was interrupted or not alone.  So `ChangesStick` says exactly when a
change can be lost, and the same for `split` in `AliasAgrees` and `vanished` in
`NobodyIsNameless`.  A session that found the user by the pager id excuses a difference, and
what it changed under that key alone and a later store under the name overwrites is not
counted as lost; rehash, which restores the password under either key, does not: that it makes the two records
the same again is part of `AliasAgrees`.

### Daemon

State: the pid file and who has it open, and for each server its parent (in `writepid`),
itself and its last deliveryd; killers (`pageserv -k`).

| code | actions |
|---|---|
| `detach`, `writepid` | `Start`, `Look`, `Active`, `Stale`, `Create`, `CreateFails`, `Write` |
| `resetservtraps`, `getservsocket`, `serv_sigint` | `Trap`, `Bind`, `Terminate`, `Leave` |
| loop of `daemon_main`, `deliveryd_main` | `ForkDelivery`, `ForkFails` |
| `deliveryd_checkmom` | `LookAgain`, `Adopt`, `Check` |
| `killserver` | `FindServer`, `Signal`, `LookForFile`, `NotShutDown`, `ShutDown`, `Remove` |

`ForkFails` is faithful: after a fork that returned -1, `deliveryd_main` goes on in the
server, which has closed its sockets (`turned`).  `since[x]` are the servers that wrote their
pid after `x` last looked at the file.

### PageClient

Extends the state of SnppSession with the program at the other end: `client` is the
command it is at, `result` the sum that `sendAPage` returns.  Each command is an action
of the session (`ServePage`, `ServeDraft`, `AnswerHold`, `ServeSend`, `Store`, `AnswerSend`)
together with its reply; `Connect` is a new child of the server, connect() and its greeting in
one step, so that a host that never accepts is not covered.  The connection may end at any
time, which `recv` answers with `abort()` (`Abort`).  `EndKilled` is the second
`destroy` of parsemail, which may or may not kill it.  `Again` is the mailer.

A hold is followed from the argument of `pushqueue -h` to `snpp_holdtime`.  `Parsed` is what
mktime makes, in the server's zone and without summer time, of the text gmtime made;
`FindGMTOffset` is added to it, and `HeldUntil` is the sum.  The answer (`AnswerHold`) is
`ServeHold`, in summer or not; `RefuseHold`; `IgnoreHold`, no reply at all, for a sum that is
not after 1970; or `GarbleHold`, since the digits of the year are not terminated.  `pages`
records the priority and the hold of every page that was stored, and `heard` how the server had read
the hold; `lost` is that in this run a write failed unseen.

## Runs

| run | instance | shows |
|---|---|---|
| `live` | deliveryd and its runner, 2 terminals, 2 pages (one held; one urgent and for an unknown terminal), one kill, fairness | a lone deliveryd never takes or steals a lock (`CleanLocking`), leaves none behind (`NoOrphanLock`, `IdleSpoolIsUnlocked`), expires no page that was delivered (`ExpiredWasNotDelivered`); `EveryPageLeaves`, `RunnersFinish` |
| `pair` | 2 runners started by hand, 2 pages, locks that cannot be created | `OneRunnerPerPage`, `ListedIsLocked`, `AckedOnce`, `LocksAreRespected` |
| `takers` | 1 page; runner, `pageserv -p`, farkle and DEQUE | the spool implements `PageLedger` (`KeepsLedger`) |
| `ports` | 2 runners, 2 terminals on 2 ports, signals and crashes at any call | `LockIsOwn`, `AloneUnlessRaced`, `LeakIsAFailedOpen`, `ExitsClean`, `RunnersEnd` |
| `tap` | a call over the network, 3 pages, one too long, 1 stray word, 4 packets, no flush | `DeliveredWasAccepted`, `AcceptedOnce`, `ShiftIsBounded`, `OneGuessPerCall`, `LoginEnds` |
| `snpp` | one session, 4 pagers, short and long text, wrapped or cut off, 3 SENDs, writes that fail seen and unseen | `RoomForOneMore`, `QueuedForAll`, `OneCopyEach`, `FragmentIsReported`, `TransactionsAreLimited` |
| `client` | parsemail or pushqueue, no hold or one of two, summer or not, a priority, a text of 2 parts, 3 attempts | `SuccessIsStored`, `CopiesAreExplained`, `SentAsAsked`, `RunEnds` |
| `times` | 10 instants on both sides of every boundary, 6 pairs of hours and none, lifetime 1 min | `HoursAsTyped`, `NormalPagesComeInHours`, `DueInItsWindow`, `PhasesAdvance` |
| `accounts` | one user with a pager, 2 sessions of any kind, a rehash | `ChangesStick`, `AliasAgrees`, `NobodyIsNameless` |
| `daemon` | a server started twice, one killserver, one crash or failed fork | `PidFileIsTaken`, `OrphansEnd`, `DeliveriesGoOn` |
| `dequeued`, `swept` | as small as possible | one violated property each: [disagreements](#disagreements) |

Bounds and why they are enough:

* `MaxDeaths = 1`: a dead runner's locks are all alike; one leaves one on every page
  it had, and its slot runs again afterwards.  In `daemon` a second crash only adds a second
  server that is gone.
* Two runners, two pages: every conflict over a lock is between two runners over
  one page; the second page lets `cleanmylocks` carry a pid from one file to the
  next and gives a list an order.  The proofs drop both bounds.
* `Young` (in `pair`): no page outlives its lifetime there; expiry is in `takers`
  and `live`.  Runners and pages are symmetric in `pair`, which checks no liveness: the pages are
  equally urgent, so that a list is taken in either order, which covers every order of
  two that are not.
* Two runners, two ports: a race over a lock file is between two; the second port lets a
  runner leak one and go on, and `checklocks` carry a pid from one file to another.
* Three pages and one stray word in `tap`: the word shifts the answers of two packets, and
  the long page comes back in every list.  4 packets: two pages and both once more.
  No flush, as where `I_FLUSH` is not defined; with it the shift ends at the next packet.
* One user in `accounts`: records of different users meet only where one pager id
  belongs to two, which `AliasAgrees` excepts.  Two sessions and rehash: each may
  overwrite the other two.
* `MaxPagers = 5` lies beyond `MaxBroadcast = 4` and 4 is the size of the first
  array, so it grows.  `MaxSends = 3`: two failures and a success,
  or with `MaxTries = 1` more successes than tries.
* `FewFailures` (in `snpp`): after two failed SENDs no more than two pagers.  What a failure
  leaves behind is there with one failure for up to four pagers, what two of them add with two.
* `DiskMayFill` is TRUE in `live`, `pair` and `takers`; FALSE in `dequeued` and `swept`, whose
  violation is not to be a full disk.
* `MaxAttempts = 3` in `client`: a run that was cut off, one that failed and one that succeeds.
* `GmtOffset = 3600` and holds of 3600 and 10800: standard time an hour ahead of GMT; the
  first hold is past 1970 in winter and not in summer (no reply), the second in both.
* Instants: six and seven o'clock, a second and a minute before and after, the end of
  the lifetime, 23:00.  Hours: in order, across midnight, from 0, to 0,
  impossible.

Deadlock is checked in every run of PageQueue, whose daemons never stop, and switched
off where an SNPP session, a call, a run of a program, all sessions or all servers have
ended and where the last instant has come.

Fairness:

* PageQueue: the clock advances (`Tick`); deliveryd is
  scheduled; a runner is scheduled except where it waits for its terminal
  (`~Waiting(r)`); and SIGALRM arrives, since `runqueue` sets
  `alarm(120)` once, before its first listing.  Nothing is assumed of terminals, lines or clients: a
  terminal may be silent for ever.  `EveryPageLeaves` takes a hold time that comes: with
  the uninitialised one of `mash` it may not.
* PortLock: system calls return (`Step`; not `Talk`, which reads from the port), and
  SIGALRM arrives.
* TapLine: the runner's own steps, timeouts among them, and nothing else: the wait for
  the answer to a page has no timeout and no fairness.
* PageClient: the client's steps and the server's alarm; not the session's, the server may be
  stuck.
* Daemon: parents, servers and deliveryds go on.  Killers need not.

## Proofs

All by TLAPS, for every value of the constants that the named assumptions admit
(`SlotAssumption`, `DataAssumption`; `SessionAssumption`; `TimesAssumption`;
`PortAssumption`; `DaemonAssumption`; `LineAssumption`; `ClientAssumption`;
`AccountsAssumption`, `RecordAssumption`): disjoint sets of processes, functions of the
right domains, at least one terminal, a finite set of pages in a call, hold times that are
not 0.  Every safety and action property that a passing run checks is stated by a theorem;
two of them, `CleanLocking` and `ExpiredWasNotDelivered`, hold of a deliveryd
alone with its runner and are proved from that hypothesis.

**PageQueueProofs.**  `TypeCorrect` is inductive alone.  `OneRunnerPerPage` is not:
it speaks of lists, and a step that adds to a list looks at a file.
`LockInv` closes the gap with where a copy may come from (`CopiesAreWhole`), who
has a lock file open (`LockFiles`) and that a page in hand is behind a lock,
written or about to be (`HandsAreLocked`).  The proof has one lemma per kind
of step, grouped by what they disturb: steps that touch no lock, steps that
remove one, the three of `q_lock`, `Send`, `Defer`, `cleanmylocks`, `exit`, signals.
On top of `LockInv`: `OrphanInv` (a lock names a live runner that will clean it)
gives `LocksAreCleaned`; `AnswersAreKept` (an acknowledged page still in the spool is
held by the runner that has the answer) gives `NoSecondDelivery`.  `ListsAreLocked`
and `QueueInvariant` state what the same induction gives for `ListedIsLocked` and for
`IInv`, the conjunction of all.  `LocksRespected` is an action property: each step that
changes a lock file is one of those `LocksAreRespected` names.  `IdleIsUnlocked` follows from
`OrphanInv`, for any number of runners.

`LedgerIsKept` is the refinement of PageLedger, step by step: a step of the spool is
the step of the ledger for the page it creates, stores, delivers, expires or removes, and a
stutter otherwise.  The ledger asks for the grounds on which a page leaves, and the
process that removes it acts on a copy; `HandsAreRecorded` says that what a process holds in its
hands is on record (a page whose answer it has was sent, and accepted if that is the answer).

`LoneDaemonLocksCleanly` and `ExpiredWasUnanswered` assume `LoneDaemon` of the constants: one
deliveryd, the runner it forks, no farkle, no DEQUE, lock files that can be created - the
instance of the run `live`, with any pages, terminals and stops.  `AloneInSpool` is their
invariant: while the child runs deliveryd is in `wait`, and what the child has read,
locked or listed is still in the spool.

**SnppSessionProofs.**  `QueuedForAll` and `OneCopyEach` need to know what the loop counters of
`snpp_send` stand for at every moment of a SEND: `Bookkeeping` says that pagers before
`next` have what the counters say and those after it what the last SEND left;
`Tries` relates RESEts to answers.  Theorems: `SessionInvariant`,
`ArrayHasRoom`, `RepliesAreTrue`, `QueuedIsTrue`, `FragmentsAreFailures`,
`TriesLimitTransactions`.  They hold of a disk that may fill at any page and of texts that may
be cut off: these are exceptions of the properties, not assumptions of the proofs.

**PageTimesProofs.**  `KnownMask` says that every mask a user can have comes from
one of a few forms of `PackTimebits`, for any two integers typed, or is empty; the lemmas
`ScanOfPacked`, `PackedHours`, `PackedAgain` and `EmptyMask` say what one trip through
`getnormtimes` does to each, and `HoursSurvive` follows.  `PassedInHours`
carries `check_time`'s answer to the moment of sending (`PagedInHours`).
`PhaseInSeconds` turns the truncated minutes into bounds in seconds, for
`WindowIsKept` and `PhasesOnlyAdvance`.

**PortLockProofs.**  Two invariants, for any number of runners, ports and terminals.
`RaceInv`: as long as a port is not in `raced`, one runner at a time is between its
first look at the lock file and its last touch of it, a runner that will change the file does so for
a port nobody holds, and a holder's pid is in the file.  None of these is inductive
without the others: that `Create` finds no file rests on the look before it.
`TrackInv`: where a file with a runner's pid can be at each of its calls, and who has a
stream on it - a file it leaked is in `broken`, a file `checklocks` has not come to is
in `unread`.  `RaceStep` and `TrackStep` go through the actions.  Theorems:
`HoldersOwnTheirLock`, `OneDriverUnlessRaced`, `OnlyFailedOpensLeak`,
`RunnersExitClean`, `PortTypes`.

**DaemonProofs.**  `DaemonInv` relates what a parent or a killer has read to the file:
the pid there is the one it read or was written since (`HasSeen`), and once it has been
judged stale its process is gone (`Judged`) and does not come back.  So whoever creates or removes
the file of a serving server looked before the pid was in it, which is
`WhoTakesThePidFile`, for any number of servers and killers.

**TapLineProofs.**  `LineInv` counts: `Books` says that of the words that may be taken for a
packet or an answer no more are under way, in both directions, than the line has added,
and one for the page the runner waits for.  `ShiftBounded` follows at once.  On a line that
adds nothing the count is the argument that an answer belongs to the page it is taken for;
`Straight` says what that means for the pages - an accepted one has left the spool or is the one
waited for, and nothing under way refuses it - and gives `DeliveredAccepted` and
`NeverAcceptedTwice`.  `GuessesOnce` rests on the call being over once a page is guessed.
The counts are cardinalities of positions in a sequence, with lemmas about taking a word off
either end.

**PageClientProofs.**  `ClientInv` ties the two ends together: at each command of the
client the state of the session that its last reply stands for (`Exchange`), one pager of the one
who is paged (`OnePager`), the wishes the session has heard (`Wishes`: a hold in it is
the one asked for, or what `heard` says of it), and between SEND and
its reply how far the store has come (`Sending`).  `Unexplained` is the count behind
`RetriesCopyOnlyWhenUnsure`: every whole page beyond the runs that ended unsure belongs to the
run that has its answer.

**AccountsProofs.**  Nobody locks a record, so the invariants say what a copy is worth.
`StickInv`: the copy of a session is the record unless somebody wrote it since (`Fresh`), nobody works on
a record that is not there (`Found`), and a user whom only rehash writes has, line by line and
password by password, what it will have been given at the end (`Parsed`, `Restored`); these
give `ChangesAreKept` and `NamelessOnlyByRace`.  `AliasInv`, on top of it, is about the second
record: who is between its two stores and with what copy (`Between`), that otherwise the
records agree (`Agreed`), and the same through a rehash, which must keep the same password for both
keys (`Kept`, `KeptTwice`), although a session may be between its stores when it takes
them down: that one is seen when the line of the user is parsed, and excused (`ParsedTwice`,
`RestoredTwice`).  `PagerFindsItsUser` follows when rehash has ended.

Only model-checked:

* liveness (`EveryPageLeaves`, `RunnersFinish`, `RunnersEnd`, `LoginEnds`, `RunEnds`,
  `OrphansEnd`, `DeliveriesGoOn`), which like ENABLED is out of the prover's reach;
* `ListsAreSorted` and `TextIsKept`, whose operators are RECURSIVE and whose proof would be an
  induction over data.

## Disagreements

The first two are properties of a run that TLC finds violated.

1. `dequeued` - *a page its owner removed is sent all the same.*  snpp_delUserQ
   mails "User requested dequeue (page not sent)" (snpplogin.c:211) without a look
   at the lock, while a runner transmits the copy it read before (misc.c:126).
2. `swept` - *a page is lost that was acknowledged as queued.*  A listing between
   fopen and fclose of storequeue reads an empty file and unlinks it as
   invalid (queue.c:366); the sender reads "Queued to ..., thank you" (queue.c:647).

The others were met while modelling; the models have what the code does, and the
properties name it.

3. *"Queued" for a page that was never written.*  storequeue does not look at
   what fprintf and fclose return (queue.c:635, 643): on a full disk SEND is answered
   "250 Message queued successfully" (snppmain.c:325).  TODO:14 knows: "Check the return value
   of all system calls."  `QueuedForAll`, `FragmentIsReported` and `SuccessIsStored` name it.
4. *A hold ends an hour early.*  findGMTOffset takes an hour off in summer
   (utility.c:101), for a time that mktime has read as standard time (snppmain.c:153): the
   "holduntil based on a time_t" of HISTORY:11 is not that time_t.  Nor is the offset the one
   "including DST" its comment speaks of, which has the other sign.  `SentAsAsked` names it.
5. *Seconds that are minutes.*  "Maximum number of seconds a message can sit in
   the queue" (sample/pageserv.conf:129); readytodeliver divides by 60 first (queue.c:453).
   `DueInItsWindow` states the lifetime in minutes.
6. *Pages outside a user's hours.*  pack_timebits turns an early of 0 into 23
   (utility.c:248).  `HoursAsTyped` also names two more slips: a late of 0 comes back
   as 24 from a dumped database and then means always, and so do no hours at all, after a dump or
   a form.
7. *A page nobody held is held.*  p_mash does not clear its
   `queuent` (protocol.c:62); the hold time is what the stack held.
8. *The terminal's own limit is never used.*  get_maxlen looks it up in a user that
   nobody has filled in (queue.c:592); `MaxLen` of QueueText.
9. *queuesort reads below its array* whenever the pivot sorts first (queue.c:263); the
   quicksort of utility.c has the bound.
10. *A second start takes the pid file of the running server away* (main.c:54, signals.c:23),
    and its deliveryd exits; `PidFileIsTaken`.
11. *"Successful" for a user who was not deleted* (admin.c:123), and the record under the
    pager id is never deleted; `Delete` of Accounts.
12. *parsemail destroys its connection twice* (parsemail.c:131); a run killed there has
    queued the page and is run again; `CopiesAreExplained`.
13. *A year of five digits.*  snpp_holduntil never terminates the four it copies
    (snppmain.c:133); `GarbleHold`.
14. *A hold that gets no reply* because it is not after 1970 (snppmain.c:168); `IgnoreHold`.

Smaller observations, kept in the properties: two runners may both send a page, with no
failure at all, when one reads it before the other has dequeued it or both find no lock
(`clash` in `AckedOnce` and `OneRunnerPerPage`; `CleanLocking` is why deliveryd alone is safe); a page counts as ready up to 59 s before
its hold time (queue.c:453, `DueInItsWindow`); only RESEts count as tries, and
SENDs that fail are not limited (`TransactionsAreLimited`); locks of a killed runner
are never broken, so its pages only leave by expiry, DEQUE or farkle (`EveryPageLeaves`).

## Not modelled

* SQL, LDAP and NIS back ends: queries to external servers behind the
  same table of functions.
* readconfig.c, module loading, string helpers, allocation tracing: no state to reason about.
* records of terminals (termdb.c, parseterms.c): read and written by one process at a time.
* http request parsing and templates, logging, the text of replies; how client.c
  cuts replies out of its buffer.
* speeds and modes of a serial line, the checksum of a TAP packet; taptest, and
  pushqueue.pl, which speaks the classic protocol.
* the select loop of the server, which forks a child for each connection and keeps
  nothing of it; debug mode.

`PROJECT.json`, under "components", has the whole list with its status.

## Plan

Done, in this order: PageQueue with its ledger, inductive invariants and proofs;
SnppSession; PageTimes; PortLock with proofs, TapLine, Accounts, Daemon with proofs,
PageClient, QueueText; proofs about TapLine, PageClient and Accounts, the refinement of
PageLedger, the lone deliveryd.

Next, most important first:

1. **TapLine as the terminal of PageQueue**: an abstract call with PageQueue's four results
   that TapLine implements, step by step.
2. **PageClient as SnppSession with a client**: that every step of it is a step of the session, or of
   nobody, so that the theorems of SnppSession carry over.
3. `TapChecksum` and `NewTmp` in QueueText.
