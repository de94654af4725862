# kakel in TLA+

kakel is a terminal emulator and window manager written in Go: panes with shells in
them, file panes and a queue of file work, SSH machines and tunnels, a vault of
secrets, windows that show the panes of another machine's window, and agents that are
handed a pane. This directory holds TLA+ models of the parts of it where goroutines,
processes, failing calls and files meet, the TLC runs that check them, and proofs
that hold for every size of them.

Paths below are relative to the repository's `src/`.

- [The system](#the-system) is the inventory: parts, state, interaction, what is hard.
- [The modules](#the-modules) says what each module models and how it maps to the code.
- [The runs](#the-runs) lists the bounds and what each run shows.
- [Fairness](#fairness), [Proofs](#proofs), [Where code and words part](#where-code-and-words-part),
  [What is left out](#what-is-left-out) and [Plan](#plan) say the rest.

To check a run: `tlc -config MCJobQueue.cfg MCJobQueue`. To check a proof:
`tlapm QueueAndHopsProofs.tla`. `PROJECT.json` lists every run, the faulty variant of the
code that breaks each property, and the lines each definition stands for.

## The system

One process is one window. Its own goroutine (`app/app.go`) draws, and takes
functions from a channel of 64, `app.events`; everything that happens elsewhere,
in a pane's loops, a job, a server or an agent's connection, reaches the window's
state by putting a function on that channel. The other parts keep their state under
locks of their own.

| component | state it keeps | operations | who it meets | what must be true |
|---|---|---|---|---|
| **Watching a pane** `screen/watch.go`, `ui/term/watch.go` | the list of a pane's watchers; each watcher's queue of 256, `behind`, `done`, `over` | Watch, Write, Screen, Resync, Read, Close, Ended | the pane's read loop feeds it with the emulator's lock held; a session served to another window reads it | feeding never waits; nothing lost or shown twice unless a whole screen follows; the end is read |
| **A pane and its programs** `ui/term/term.go` | the run in the pane, whether it exited, its status, the input waiting, the agent's ask | Send, loops' finish, collect, Restart, WaitForSecret, EndSecret | two loops per run, one collector, the window's goroutine, agents | input, ends and statuses stay with their own run; every ask is answered; a program's end is heard of |
| **The queue of jobs** `jobs/jobs.go` | listed, waiting, running, leaving | Start, Cancel, Drop, DropFinished, CancelAll, WaitFor | a goroutine per job, the window | the limit; no job lost; WaitFor tells the truth |
| **A job of file work** `jobs/run.go`, `ask.go` | the plan, the files half made, what was skipped, the count | copy, move, delete | file systems that fail, other programs, the user who answers | no half file at a name; a move loses nothing; nothing replaced unasked |
| **This window served to others** `serve/server.go`, `control.go`, `app/serving.go` | connections arriving, clients, watchers and their mailboxes | accept, handshake, drop, publish, kick, Close | a goroutine per connection and per channel, a timer, the window | nobody outlives Close; gone means gone; no wake-up lost |
| **The file of secrets** `secrets/vault.go`, `file.go` | the file; each window's memory of it, its count of saves | Create, Unlock, Refresh, Put, Remove, keys | other windows on the same file, with no lock | nothing saved is lost; one maker |
| A window that works in another `serve/client.go` | the connection and its channels | open, attach, close | its server | a broken connection ends everything on it |
| Who may connect `serve/authorized.go`, `identity.go` | key files | read, add, forget | | |
| **Agents given a pane** `agent/server.go`, `app/agents.go` | the share, the hand-overs in it, connections, asks | share, take back, use, open a pane, ask for a secret, Close | a goroutine per connection, one that accepts, the window | it listens while it shares; who is said to work works; an ask stands while somebody waits, and no longer; nobody waits for who waits for it |
| The agents' tools `mcp`, `steps` | none beyond a call | tool calls | the agent's wire | |
| **Remote machines** `remote/conn.go`, `machines/hops.go`, `app/connect.go` | connections, what rides on each, who goes through which | dial through hops, share, count, let go, close | SSH, the window | riders are closed first; a hop closes once nothing goes through it, and not before; a server is reached as it was saved |
| Unlocked keys `remote/ring.go` | keys, one question per key | Unlock, Lock | several askers, the dialog | one question a key; Lock clears |
| **Tunnels** `remote/tunnel.go`, `tunnel`, `app/tunnels.go` | the sockets held, the closers, the row shown | listen, accept, carry, Close | a goroutine per stream, the connection, the window | the limit; Close leaves nothing open and returns; the row is true |
| Synchronized updates `ui/term/syncupdate.go` | bytes held back, a timer | scan, flush, time out | the read loop, the timer | once, in order |
| The terminal emulator `vt`, `grid` | the screen | write, repaint | under one lock | |
| Local sessions `session`, `shells` | a process and its terminal | Read, Write, Wait, Close | the operating system | |
| The program's goroutine `app` | the window, `events` | post, select | everything | never waits for one that waits for it |
| Machines and file systems `machines`, `vfs`, `meter` | the registry of machines (JumpHosts), open clients | the calls of a file system | jobs, file panes | |
| The file panes `ui/files` | a listing, a selection | list, read | one goroutine per reading | a late answer is dropped |
| Settings, keys, themes, logs | files read at the start | load, save whole | | |
| Keys of the vault `vaultkeys`, `secrets/seal.go` | key slots | wrap, unwrap, dialogs | VaultFile | |
| One program, installing, updating | a lock file, a socket, the binary | hand over, put in place | the operating system | |
| Views and widgets `view`, `ui`, `look` | layout | draw, keys | the window's goroutine | |
| Text helpers, clipboard, notifications | none | | | |

What is hard here: goroutines that hold one lock and wait for a channel or another
goroutine (a feed under the emulator's lock, `finish` on a full channel, a tunnel and
its connection closing each other); two owners
of one moment (a handshake's timer and its success, a program's end and its restart,
`WaitFor`'s clock and the last job's end, a share taken back while a pane is opened
into it); state looked at under a lock and used
after it (copies of the watchers' list, an ask made after the pane was looked at); calls that fail
in the middle of many (a move that copies, then removes, a dial through several
hosts); and processes that share a
file and nothing else (the vault). `PROJECT.json` lists 40 such places under
"hazards", each at its line with the properties that watch it, and says of those
without one why.

## The modules

Each component has one module; the module that EXTENDS it for TLC is named `MC...`,
its proofs `...Proofs` (`QueueAndHopsProofs` is of JobQueue and JumpHosts, apart from each
other). What one goroutine does between two locks, channel operations
or calls of the operating system is one action. A definition marked "faulty variant"
is a bug somebody could write; nothing uses it, and each property in a run is broken
by putting one of them in the place of the definition that follows it.

### ScreenWatch

The watchers of one pane. What the program writes is numbered chunks; a screen is the
number of the last chunk painted on it; `picture[w]` is what watcher `w`'s own emulator
was given. `feed` is the holder of the emulator's lock and the watchers' lock: who, the
item handed out, the watchers still to get it, and the phase of `feed.Screen`
(`offer`, `drain`, `put`). A watcher reads its queue without a lock, so `Take`, `Check`
and `Resync` fall between any two steps of a feed.

| action | code |
|---|---|
| `Output`, `SendScreen` | `readLoop` writing to the emulator and telling its watchers; `SetPalette` repainting |
| `WriteFits`, `WriteFull` | `watched.Write`: room in the queue, or the queue is dropped and `behind` set |
| `ScreenBegins`, `Drain`, `DrainEnds`, `PutScreen`, `PutNil` | `watched.Screen`: empty the queue, then the one send that may not block; the empty wake-up after an overflow |
| `Watch`, `WatchLate`, `Close`, `Unwatch` | coming to watch, coming after the end, going |
| `Check`, `Resync`, `Take`, `SeesOver`, `ReadEOF` | `Read`: the mark, the repaint, the select, what is left once the program went |
| `ReadEnds`, `WriteFails`, `Ended`, `Revive` | the program's end told to each watcher in turn, and a restart |

### JobQueue and JobBoard

`Queue.jobs`, `running`, `waiting`, `leaving`, and where each job's goroutine is. An
operation that takes the queue's lock is one step, what it does outside of the lock
another: `Finish` inside `WorkEnds` and `HandOn` (the place handed to the next) are apart, `Drop` is
`DropCancel`, `DropLists`, `DropWaiting`, and `CancelAll` cancels one by one
(`CancelOne`) what it listed. Cancelling is not stopping (`jobs/jobs.go:238-242`, 420-425): a job
in a call of a file system that has stopped answering is `stuck` (`Hangs`), cancelled or not,
until the call gives up (`Answers`), which may be never. `JobBoard` is the promise: work is taken up once, never more
than `Limit` at a time, and what is over stays over. `IsABoard` maps a job that waits,
is refused or was dropped to "queued" until it is done.

### TerminalRuns and PaneLife

A pane, the programs it runs one after another, and the goroutine that starts them
again. `loop[<<r, "read">>]` and `loop[<<r, "write">>]` are the loops of run `r`, each
going through `finish` (`asks`, `ask`, `tell`: whether this run's end is news, the ask
it ends, the notice to the window). `collect[r]` waits for the status. `app` is where
the program's goroutine is in `Restart` and `adopt`; `notices + others` is how full its
channel is. A write in `out` has the run it was typed at and whether it was late: queued when
`Restart` had already thrown away what was typed at that run. `kind` is what the pane runs, a
shell here, a command, or a shell on a server or in another window, which decides whether a
session is started there and then or on a goroutine (`starts`), and who hears of a start that
fails: `Unstarted` and `Unrestarted` say for each kind, and for who wanted it, whether the question goes
back up ("asked"), the user is told (`app.failed`, "said"), or neither ("left"); `amiss` keeps that
for the restart under way. `asking`, `picked` and `unasked` are the question, the choice made at it and on its
way, and that its user was told instead.
`PaneLife` is what a pane promises of its programs,
with nothing of the goroutines: each goes once, the window is told of it once, its status
is kept while no other has the pane, and the next begins when that was said. `LivesInTurn`
maps a run to the first of those moments that its two loops and its collector have passed.

| action | code |
|---|---|
| `Types`, `TypesReturn`, `PastesLine` | keys and pastes here, and the line that answers an ask |
| `PeerLooks`, `PeerSends`, `AgentTypes` | a watcher's `Write`, which looks whether the program ended and sends after that; an agent's |
| `Writes`, `Stops`, `ReadEnds`, `WriteFails` | the two loops |
| `LooksForAsk`, `EndsAsk`, `Tells` | `finish`: in its order, the last waiting for room on the channel |
| `Collects`, `StatusIn`, `TellsStatus` | `collect` |
| `PaneEnded`, `OtherHeard`, `OtherPosts`, `Close` | the program's goroutine: a notice heard, the question asked, the pane closed |
| `Picks`, `TakesDown`, `HearsClose` | a choice made at the question on the window's goroutine, which is posted, and takes the question down after that |
| `StartAgain`, `StartFails`, `StartBegins`, `StartReturns` | `startAgainOr` and `runAgain` for the user, an agent (`agentWindow.Restart`) or another window |
| `Restarts`, `RestartCloses`, `RestartWaited`, `RestartRefused`, `Revives`, `Adopts` | `Restart`, `adopt`, `begin` |
| `AgentAsks`, `WaitForSecret`, `StopsAsk`, `TakesBack` | `WaitForSecret`, its stop, and what an agent does before and after |

### FileJob

Copy, move (by renaming, or by copying and taking away) and delete of a small tree. Names
lead to inodes, since a half-made copy is written under another name and renamed; `data`
says of each part of a file whose write it is. Every call on a file system may fail, the
user may cancel before any, and another program may take a name between the look at it and
the call. `InOrder` lists a set of names parents first, as the plan does. `Looks`/`Answers`
are the question and its answers (replace, beside it, skip, for this one or for all),
`Creates`/`Writes`/`Lands` the copy, `AfterCopy`/`Narrows`/`Removes` what follows.

### ServeServer

The server's connections from accept to gone, and what tells them what is open.
`conn[c]` is where the connection's goroutine is, whether its socket is open and whether
the handshake's timer ran out; `arriving`, `clients` and `taken` are the two lists and what
`Close` took off them. `watcher[c]` is the mailbox of one snapshot, its wake channel of
one and the goroutine that writes from it. `pub[p]` is what a goroutine is publishing:
the window's, or a control channel's own (`ReadsOpens`, `TellsOpens`).

### VaultFile

The file of secrets and any number of windows on it. A window's operation that writes
is two steps, reading the file and changing its own memory (`Put`, `Remove`, `AddKey`, ...),
then the rename that lands (`Renames`) or does not (`WriteFails`); between the two any
other window may do the same. `disk.turn` counts renames and is what a memory was read
at; `ought` is what all saved changes add up to; `torn` marks that a window wrote over
a file it had not read, the case `secrets/vault.go:441-448` gives up on.

### Tunnel

A connection `Far` made through the connection `Near`, a tunnel over `Far`, and the row
the window shows of it. Each of the three is closed by up to three callers at once: the
user, what carries it, and itself. `closer[r][by]` is how far each has come in `Close`,
`riders`, `taken` and `closing` are what each connection's lock guards, and a caller that
finds another closing waits for `finished`. A stream is the goroutine `carry`, with
the socket it accepted and the one it dials; `live` is the set the limit counts, `cut`
what `closeAll` took out of it and has yet to close.

| action | code |
|---|---|
| `UserCloses`, `TransportEnds`, `RowCloses` | a connection or a row closed by hand, a transport that drops |
| `Begins`, `HangsUp`, `StopsListening`, `Cuts`, `Waited`, `Drops` | `closeRider`, `stopListening`, `closeAll`, the wait for who is closing already, `dropRider` |
| `Connects`, `Opens`, `Listens`, `Registers`, `ClosesTunnel` | `OpenTunnel` and `connect`: asked for, made, and registered or too late; handed to the window or closed by it |
| `Accepts`, `AcceptPasses`, `AcceptsAgain`, `ListenerBreaks`, `AcceptFails`, `Stopped` | `serve`: a stream, a failure that passes, one that does not, and `onStopped` |
| `HoldsNear`, `Counts`, `Asks`, `Dials`, `Answers`, `HoldsFar`, `HalfEnds`, `Releases` | `carry`, in its order: hold the socket, look at the limit, ask SOCKS what for, dial, answer, hold, copy each way, let go |
| `RowStops`, `WaitReturns`, `RowDies` | the window hearing of a tunnel's end, and of a connection's |

### AgentShare

The share of panes with agents: the state of `app/agents.go` on the window's goroutine,
`agent/server.go` on goroutines of its own, and the channel of functions between them
(`events`, in order). One counter numbers shares and hand-overs; `by[p]` is the
hand-over of a pane, `hand[n]` what it was. `window` is free, inside `Server.Close`, or
inside a request's `WaitForSecret`; `talk[a]` is where the goroutine of agent `a` is.

| action | code |
|---|---|
| `SharePane`, `UnsharePane`, `StopSharing`, `ClosePane`, `SetAgentMay` (`UserDoes`) | what the user does; `Drop` is the whole of `dropHandover`, with the asks it ends and the server it closes |
| `TakesUse`, `TakesOpen`, `TakesHand`, `TakesSecret`, `TakesStop`, `TakesMark`, `TakesError` | the function at the head of the channel, run by the window |
| `WaitForSecret` | the ask put to the pane, one at a time |
| `Accepts`, `AcceptFails`, `SaysSo`, `AcceptEnds`, `Closed` | the goroutine that takes agents, and `Close`, which waits for it |
| `Asks`, `Used`, `Refused`, `PaneOpens`, `Hands`, `AskIsOver`, `Leaves`, `Left` | an agent's connection: what it asks, what it does with the answer, the time that runs out, and the end |
| `Types`, `Exits`, `Finishes` | the user answers an ask; a program ends and its `finish` looks for one |

### JumpHosts

The registry of what goes through what. A connection is a number with the server it is to,
the login used and the connection it goes through; `users`, `hops` and `routes` are the
registry's maps. A dial is a record on the window's goroutine (`Connect`), then a step per
hop elsewhere (`DialStep`), then back on the window (`DialDone`, or `DialFailed` at any
step). `Released` is `Release`: what it lowers, what it forgets, what it closes on another
goroutine (`Closes`). `Way` follows a connection through what it goes through. `HopsSpec` is
the behaviour. `Saves` is the server saved with another login while all this goes on,
`Drops` a transport that ends, `WaitReturns` the window hearing of it.

## The runs

| run | instance | properties |
|---|---|---|
| `screen_watch` | 2 watchers (exchangeable), queues of 2, 3 chunks, 1 repaint; 1.2 million states | `NeverBlocks`, `NothingLostNorTwice`, `HolesAreRepainted` |
| `screen_watch_live` | 1 watcher, 4 chunks, 1 repaint, 1 restart; 42 thousand | `TailIsRead`, `CatchesUp`, `EndIsRead` |
| `job_queue` | 3 jobs, 1 place, 1 job that may be refused, 2 cancelled or dropped by hand, any of them stuck; 302 thousand | `KeepsToLimit`, `NoneLost`, `StoppedEnd`, `WaitIsTrue`, `IsABoard` |
| `terminal_runs` | 2 runs of each kind of pane, 2 asks, 1 write queued, room for 1 on the channel, 1 other event, run 1 may not close; 553 thousand | `NothingIsLeftOver`, `StatusIsItsOwn`, `AskIsAnswered`, `EndedIsAsked`, `LivesInTurn` |
| `file_job` | 1 job of any kind on a directory with a file in it, a file and a link, three of the names perhaps taken, files of 2 writes, 2 faults; 207 thousand | `NeverHalf`, `MoveLosesNothing`, `TheirsStays`, `NothingLeftUnsaid` |
| `file_job_two` | 2 copies of one file's name, no faults | `NeverHalf`, violated |
| `serve_server` | 2 clients, one that listens and one that works, 1 handshake at a time, 2 snapshots; 739 thousand | `NobodyOutlivesClose`, `GoneMeansOver`, `NoWakeIsLost`, `EverybodyGoes` |
| `vault_file` | 3 windows, 2 entries, 2 keys (all exchangeable), 4 writes, 2 faults; 198 thousand | `TypeOK`, `NothingSavedIsLost`, `TheCountTells`, `OneMaker` |
| `vault_over` | 2 windows, no faults | `OnTopNotOver`, violated |
| `tunnel` | each kind of tunnel, 2 streams, room for 1, 2 things gone wrong or closed; 956 thousand | `NothingLeftOpen`, `NoneOutlives`, `AtMostItCarries`, `ClosingEnds`, `RowIsTrue` |
| `agent_share` | 2 agents (exchangeable), 1 pane and 1 they open, room for 2 on the channel, 3 deeds of the user, 4 requests, 1 failure to accept; 3.0 million | `WorkingIsTrue`, `AskStands`, `ListensWhileShared`, `NobodyWaitsInVain` |
| `jump_hosts` | 3 servers, one behind another, 6 connections, 4 deeds; 286 thousand | `ClosedOnceUnused`, `CountsAreTrue`, `ReachedAsSaved` |

What the properties say is above each of them in its module. Why the bounds are enough:

- **Queues of two for 256.** An overflow needs one item more than the queue holds; two make
  "drained to the middle while it is read" possible, and three chunks fill it with one over.
  Two watchers are what it takes for one to come or go while the other is being handed an
  item. A restart multiplies the states and concerns one watcher at a time, so the run with
  one has it.
- **One place, three jobs.** One works, one is handed the place, one is behind it in the
  line: a place given twice, to the wrong one or to nobody shows. The proof covers every
  limit.
- **Two runs.** Everything that can go wrong is between a run and the next. Room for one
  fills at once, so loops wait for it, `Restart` waits for them, and the deadlock this makes is
  reached. One start is on its way and one choice is made at a time: a second of either is of a
  pane that is answered already. Agents ask in command panes only (`AskedIn`), and the user
  chooses, and watchers type, in the other kinds only (`ChosenIn`): all of it in all kinds is 12
  million states, and the code of neither looks at the kind.
- **A tree of four** has a parent and a child, a file beside them and a link. Two
  faults are a call that fails while what failed before is being tidied up.
- **One handshake, two clients**: one waits for the other's. Two snapshots are an
  older and a newer.
- **Three windows, four writes**: the vault made, and three that save on one another;
  two faults let one window crash after another's write failed.
- **Two streams, room for one, two troubles**: one stream is carried while another is
  refused, or both look at the count at once; two troubles are a tunnel that breaks while
  its connection is closed, or a carrier closed while what it carries is.
- **Two agents, two panes**: one agent asks while another's ask stands, or opens a pane into a
  share being taken back. Three deeds let a share end and another begin, which is what a late
  notice could be counted in; four requests let both agents use the share and ask; room for two
  fills, so a goroutine waits for the window while the window is in `Close`.
- **Three servers in a row, four deeds**: two dials share the first hop, one is let go of or
  dropped, and a server is saved otherwise in between. Up to three dials are on their way at once.

`CHECK_DEADLOCK FALSE` stands where the program may stop: all jobs done, a pane
closed, work at its end, a server closed and everyone gone, a tunnel closed, agents or the
user with nothing more to ask for, every server let go of, and in VaultFile a crash
between taking the name and writing the vault, which leaves an empty file that no
window can open, or no writes left. ScreenWatch has an explicit `Quiet` step instead, so
there a watcher or a feed that waits for ever is a deadlock TLC reports.

## Fairness

- **ScreenWatch**: a goroutine that holds the locks goes on (`WF` of `FeedStep`), a
  watcher goes on reading and `endWatchers` goes through its list (`WF`). `Resync` and
  `Replay` wait for a lock others take again and again: `SF`, since Go's mutexes hand
  themselves to a waiter that has starved for a millisecond. Nothing makes the program write or
  end, or a watcher go.
- **JobQueue**: each job's goroutine goes on when it can (`WF` of `JobStep`). Of a job's work only
  this is assumed: cancelled, it ends if it is free to again and again (`SF` of
  `WorkEnds`), since it looks at its context between two calls. A call is not made to return, so
  a stuck job may be stuck for good, and a job that waits for an answer may wait for ever.
- **TerminalRuns**: the loops go on (`WF`), and the window's goroutine takes down a question it has
  begun to (`TakesDown`). The program's ends what it began (`WF` of `AppStep`) and its `select` chooses
  fairly among what is there, so a notice on the channel is taken in the end, and a choice waiting for
  room there gets it: `SF` of `AppHears`, as a goroutine that waits to send on a Go channel
  stands in a line (so `OtherPosts` does not overtake). A start on a goroutine may never come
  back. Nothing makes a program end or a user type.
- **ServeServer**: one `WF` over all the server does by itself. Every behaviour of the
  model has finitely many steps, so this is the same as fairness to each part.
  Nothing makes a client read.
- **Tunnel**: one `WF` over every goroutine of the program, and a copy whose socket was
  closed ends. Each of them comes to an end, so being fair to all together is
  being fair to each. Nothing makes a peer hang up or a user close.
- **AgentShare**: no fairness. Everything in it is bounded and comes to a stop, so that
  nobody is left waiting is said of the states where nothing of the program can go on:
  `NobodyWaitsInVain`. `CanGo` is the guards of its steps, which the actions use by the
  same names. One state is excepted, `ForEver`, told below.
- **FileJob**, **VaultFile**, **JumpHosts**: safety only. A job asks and may never be answered; a
  window that has read the file may die before it writes; a dial may take for ever.

## Proofs

Proved with TLAPS for every value of the constants under the assumptions the modules name:

- **ScreenWatchProofs.** `TypeCorrect`, and `FeedNeverBlocks`: the send under the
  emulator's lock finds room, for any capacity of at least one and any number of watchers. The
  argument is `EmptyBeforePut`: the queue was drained under the locks, only their
  holder puts anything in, and readers only take out. Then what the watchers see:
  `EveryChunkOnce`, `HolesGo` and `TailIsShown`. The property itself looks at a picture
  when its queue is empty; the invariant `Seen` must speak of every moment, so it
  says what picture *and* queue `Makes` together: whoever is owed nothing has all that
  was said, or all but the item in the feeder's hand (`Fed`, `Current`); who is behind
  has a repaint owed or in hand (`Behind`); and the list holds nobody twice (`Listed`).
- **QueueAndHopsProofs**, of the queue. From `JobsAssumption` (finitely many jobs) and
  `LimitAssumption`: `TypeCorrect`, `LimitIsKept`, `NoJobIsLost`, `WaitingIsTruthful`, and
  `QueueIsABoard`, the refinement of `JobBoard`. Behind them is `IInv`: who is in the line
  is waiting and stands there once, who is gone is done or about to be finished by the
  `Drop` that took it, and what `WaitFor` promised is done or still awaited. Without the
  line being free of duplicates `HandOn` could give one job two places; without the second,
  `Drop` could finish a job twice.
- **QueueAndHopsProofs**, of what goes through what. For any number of servers (finitely many),
  connections and deeds: `HopsTypeCorrect`, `HopsAreCounted`, `HopsCloseUnused`, `HopsReachAsSaved`,
  all from `HopsInvariance`. A connection made goes through one made before it, and what it
  goes through is what the registry says; a hop's count is the number of connections and dials
  that hold it, said with `Cardinality` of that set, so each step that takes or lets go has to show
  by how many the set changes. A way to a server is the way of the connection before it and one
  more, and since connections go through older ones it is followed to its end by
  taking the least connection for which a claim fails.
- **VaultFileProofs.** For any number of windows, entries, keys, writes and faults:
  `TypeCorrect`, `SavedIsKept`, `CountIsEnough`, `OneMakesIt`, from `Kept`. The
  promises do not carry themselves over a rename: what it writes was read by its window
  steps before, and whether it is right depends on the file being the one that was read.
  `Kept` adds `Shapes` (what an operation under way goes back to, and the count it
  will have), `NoneYet` (nobody has open what was never made) and `SeenIsHeld` (a
  memory read at the file's present turn has its count).

- **TerminalRunsProofs.** For any number of runs, asks and places: `TypeCorrect`,
  `NoInputLeftOver`, `StatusOfItsOwn`, `AskStands`. Behind all three is `InTurn`: no goroutine
  of a run to come has begun, and none of one before is in its loops once `Restart` has waited.
  `Queued` says that what is queued in time is all typed at one program, that nothing is between the
  drain and the next program's revival, and that what is late is of a run whose queue was thrown away;
  `NoInputLeftOver` speaks of the first and leaves the late out. `Ended` that a run being
  replaced is over already, so its late status is dropped, and `Asked` that an ask that stands has
  somebody waiting. `ProgramsLiveInTurn` is the refinement of `PaneLife`, action by action. It needs
  `ToldOnce` besides: of the two loops that see a program end one takes it for news, a collector
  starts where that one has told, and a run whose loops are both through was told of.
- **FileJobProofs.** For any tree and any number of writes and faults: `TypeCorrect`;
  `NothingIsUnsaid`, for any number of jobs (`PartsKnown`: a part is of work that is at it,
  or that said it is left); `AloneNeverHalf`, for a job by itself, which is as much as holds
  (`file_job_two`): parts are numbered upwards, so the one being written has no name yet,
  and what has a name is written no more (`FilesWhole`). `NothingGoesUnasked` is of any
  number of jobs of any kind: what is about to be made at a name has the user's word for it
  or found the name free (`Allowed`). A rename makes names it never looked at, all that is
  under the directory renamed, and each of them is in a directory that was found free
  (`Tree`, `Held`: what a name is in, it is in as long as it is there). `AloneLosesNothing`
  is of a move by itself: a thing's name is its own, what is gone from its old name is whole
  at its new one, and what was planned is listed still, or placed, or left with a word said
  (`MoveKept`). It is false of two jobs, for the reason `file_job_two` shows: both land one
  part.
- **ServeServerProofs.** `NobodyStays`, `GoneIsOver`, `EveryWakeArrives`, for any clients,
  snapshots and handshakes at once. `Ends` and `Held` say for each place of a connection's
  goroutine what it still holds and which list it is on; `Ending` that somebody closes what
  `Close` took; `Woken` and `Fresh` that a mailbox with something new has a wake-up waiting,
  on its way, or no sleeper. `ClosedLeavesNobody` is what `EverybodyGoes` rests on besides
  fairness: where a closed server's goroutines have no step left, nobody is left. It needs
  `Winding`: a control channel at its end has told its writer to stop.
- **TunnelProofs.** For any number of streams and any limit: `ClosedIsClosed`, `RidersFirst`,
  `LimitHolds`, `TypeCorrect`. `Closers` says which of a thing's callers may be where (one
  runs, the others wait), `Riding` that what is open is registered with its carrier or the
  carrier is closing it, and `Holding` that each socket open is in `live`, or `cut`, or a
  stream's own hand. The limit is of sockets and the property of streams, so the streams
  are counted by their near sockets. `ClosesDoNotLock` is what `ClosingEnds` and `RowIsTrue`
  rest on besides fairness: up to nine closes wait for one another, and where none has a step
  left all have returned. What is closing has one caller that closes it (`Runs`), which waits only
  for what rides on it, whose close it called for (`Carries`): so from the tunnel up. `RowTold` says
  who will tell the window of a tunnel that stopped.
- **AgentShareProofs.** For any panes, agents, requests and room: `ListensExactly`,
  `AsksStand`, `WorkersAreCounted`, `NobodyIsStuck`, `TypeCorrect`. The hard part is order: a
  share taken back ends the asks there are, and one the window is about to put must find it
  gone. `InTurn` says that what the channel holds of an agent comes before what follows it;
  `Looking`, `Asked` and `Standing` follow an ask from the agent's request to its end,
  `Sharing` and `Secrets` tie them to the hand-overs. Who is said to work is counted
  (`CountedAlways`): each use is said once on the channel and each leaving once, after it, so
  that the number the window has is what it took of the one less what it took of the other.
  `NobodyIsStuck` follows what is owed (`NoneForgotten`): an agent without its answer has its
  question on the channel or in the window's hand, and the channel keeps within its room.

Only model-checked: what is said about liveness (`CatchesUp`, `EndIsRead`, `StoppedEnd`,
`EndedIsAsked`, `EverybodyGoes`, `ClosingEnds`, `RowIsTrue`), which is out of the prover's
reach. Of the last three the safety half is proved: where nothing can go on, what is
promised is so. The guards in it (`CanServe`, and `CanGo` of Tunnel and of AgentShare) are
listed by hand, since ENABLED cannot be reasoned about. Every other property of the passing
runs is stated by a theorem, `NeverHalf` and `MoveLosesNothing` for a job by itself. No
induction theorem of the library is used, since the provers cannot instantiate one: `Path`
in FileJob and `Way` in JumpHosts, functions that call themselves, are reasoned about by the
least element for which a claim would fail.

## Where code and words part

Two runs are expected to end in a violation: what a comment promises and the code does not do.

1. `file_job_two`: two jobs that copy files of one name into one directory write the
   same part file, and the first to end renames the mixture onto the name (`jobs/run.go:546`).
2. `vault_over`: two saves that overlapped leave two windows with one count and
   different secrets; the next save of one, however late, takes the file for its own and
   writes the other's secrets away (`secrets/vault.go:456`).

Some more came up in the modelling and have no run of their own. The first seven can be
seen in the models as they are:

- A watcher that fell behind had its queue thrown away against a repaint; if the
  program ends first, `Resync` is refused and the watcher reads the end without either
  (`screen/watch.go:107`; ScreenWatch, `EverythingThenTheEnd`). `TailIsRead` is what holds.
- `finish` waits for room on `app.events`; `Restart`, on the goroutine that empties it,
  waits for `finish` (`app/app.go:1682`, `ui/term/term.go:487`). The pane counts as
  exited before the notice is sent, so another may start it again in between
  (TerminalRuns, `InItsOwnWay`, which `EndedIsAsked` excepts: without the exception it is violated).
- Input typed at a program that ended is thrown away, as "a new shell would run half a line of it at
  its own prompt" (`ui/term/term.go:491-493`). What is typed, or sent by a watcher that looked before
  the end and writes after (`screen/watch.go:134-137`), between that and the next program's
  beginning (`term.go:493-505`) reaches the next all the same (TerminalRuns, `InputMeetsItsProgram`, which
  does not hold). `NothingIsLeftOver` is what does.
- A pane whose program ended "asks in the pane whether to start the program again or close the
  pane" (`app/ended.go:23-26`). When the user has chosen to start it and the start fails, a shell
  here (`ended.go:87-92`, 130-134), a command whose restart is refused (`app/command.go:226-230`)
  and a pane of a server that was removed from the list (`app/reopen.go:96-98`) only say so, and
  the question is gone. It can be gone after it was asked anew, too: asked again while the choice is still being
  taken down, it is the same question, and goes with it (`ended.go:59`, `ui/term/ask.go:276-280`).
  TerminalRuns, `unasked`.
- A control channel's goroutine reads what is open and publishes it after the window
  published something newer (`serve/control.go:309`; ServeServer, `ShowsTheLatest`).
- `Server.Close`, on the window's goroutine, waits for the goroutine that accepts, which
  may wait for room on the window's channel to say that it failed
  (`agent/server.go:174`; the comment at 149-156 speaks of the others; AgentShare, `ForEver`).
- A pane an agent opens from one that is taken back meanwhile is handed over all the same, so
  what was "opened from it" outlives it (`app/agents.go:184-185` and 663-672; AgentShare,
  `OpenedGoesWithIt`, with three panes and two of them in `First`). One closed while it is being
  opened is handed over too.
- Of several that wait for one key's passphrase, the second to wake is told to wait
  again and does not (`remote/ring.go:113`, against 35-37); an `Unlock` whose question was on the
  screen puts its key in the ring after `Lock` (`remote/ring.go:130`).
- The comment of `WaitForSecret` and its code disagree on `ErrAlreadyAsked`
  (`ui/term/term.go:563-572`). An ask made after `finish` looked stands on a pane without a
  program (`app/agents.go:701`).
- A tunnel's limit counts both ends of a stream (`remote/tunnel.go:440`), so half as many
  streams fit as its name says; `AtMostItCarries` is what holds.
- A restart that is refused leaves the old run marked over, and its status is dropped
  (`ui/term/term.go:1895`).
- Closing all of a window's connections looks at the hops it knows by server, and misses a
  second connection of the same route (`app/quit.go:99`).

## What is left out

- **ScreenWatch**: what is in a chunk, and the emulator's own work; a repaint is taken to show
  what the screen shows.
- **JobQueue**: what a job does (FileJob), progress shown; that closing connections ends the calls
  stuck on them. `CancelAll`, `WaitFor`,
  `Drop` and `DropFinished` are modelled though today's window calls few of them.
- **TerminalRuns**: keys, mouse, scrolling, selecting, drawing; the moment in which a closed pane folds
  away; dialling a connection before a start, which is part of the start. `Cut` is both a program's end
  and a broken line. An ask made after `finish` looked for one stands on a pane whose
  program is gone, and the next program's first line may answer it; the code says of
  nobody whose ask that is, so no property does. `writeLoop` failing while the other loop still has
  output is modelled: the watchers are told the end first.
- **FileJob**: progress in bytes, times, modes other than a directory's own widening, the
  probe for a target that is its own source under another name (`notOntoItself`), a disk
  that loses what was written. A crash is the model stopping at any state: the invariants
  hold in every state, and a part is left beside its name.
- **ServeServer**: the sessions' streams, files and tunnels of a client, reports of
  refused connections, the rows the window shows. A watcher that joins between the list
  taken by `Going` and `closed` is hung up on without a word.
- **VaultFile**: sealing is taken to do what it says; a secret that is a key file's passphrase
  is an entry like another; nobody deletes the file by hand; files left by a crash under the
  temporary name are nobody's.
- **Tunnel**: bytes, SOCKS messages beyond asked or not, which address is dialled, how a
  remote listener is asked for. A listener that pauses after a failure is one that goes on.
- **AgentShare**: what is read off a screen, typed, waited for or restarted: none of them changes
  the share. What a share's code is and how long it is. The goroutines of agents are one set,
  though each server has its own: those of a server that was closed are hung up on already.
  An agent's goroutine never says that it failed, only the one that accepts does. The named
  deadlock is left in.
- **JumpHosts**: signing in, host keys, the files on disk, and what a failed dial says. Two windows
  do not share connections, and nor do the models of them.

Not modelled, and why:

- **Unlocked keys** (`remote/ring.go`) are a hundred lines whose two faults are told above; a model
  would state what the code does not keep.
- **Synchronized updates** (`ui/term/syncupdate.go`) are a scanner of bytes under one lock with
  a timer; what is hard in them is the scanner, which tests reach.
- **A window that works in another** (`serve/client.go`): its channels are SSH's, and what it
  does on its own is to give up when the connection breaks.
- **The emulator, views, widgets, file panes, settings, text** are most of the program's
  87 thousand lines and run on one goroutine, or under one lock, from
  input to output. Nothing there waits or is interleaved, and what could be wrong is what is
  drawn or parsed: the tests' part. So the modules stand for a small share of all the
  lines, and for most of those where more than one actor meets.
- **Processes, the updater, the agents' tools** are the operating system's part, or
  translate one call into another.

## Plan

The order was the concurrent core first: the pane's watchers, the queue and the abstract board,
the pane's runs, a job's work, the server, the vault, then tunnels, agents and jump hosts,
each with its proofs. What would come next:

1. Compositions: JobQueue with FileJob's parts (two jobs of one queue), TerminalRuns with
   ScreenWatch's end of watchers, AgentShare's asks with TerminalRuns' own.
2. The client's side of ServeServer, and the sessions' streams between them.
3. SyncUpdate's scanner as a function against a reference definition, over all short
   inputs cut in all ways, and Ring once its two faults are mended.
4. Proofs that each behaviour of ServeServer and Tunnel comes to an end, by a number that
   every step lowers: with `ClosedLeavesNobody` and `ClosesDoNotLock`, all of `EverybodyGoes`
   and `ClosingEnds` but the fairness.
