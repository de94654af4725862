-------------------------- MODULE TerminalRuns --------------------------
(* A terminal pane and the programs it runs one after another,
   ui/term/term.go, with the part of the program's own goroutine that answers
   its endings and starts it again, app/ended.go, app/app.go and
   app/agents.go.

   Each run of a program has a goroutine reading its session, one writing to
   it, and, once it has gone, one collecting its status.  The program's
   goroutine takes one event at a time off a channel with Room places and
   starts the pane again on a new session; keys and choices are taken on the
   window's goroutine, beside it.  A write waiting for the session is known by
   the run it was typed at and by whether it was late: queued when the pane had
   thrown away what was typed at that run.  An agent's ask for a secret waits
   for the user to type a line into the pane.                               *)
EXTENDS Integers, Sequences

CONSTANTS MaxRuns,  \* bound: how many programs the pane runs
          MaxAsks,  \* bound: how many asks for a secret an agent has at a time
          OutRoom,  \* outQueue: the writes waiting for the session
          Room,     \* app.events: the room on the program's channel
          Others,   \* bound: events of other panes on that channel at a time
          Stubborn, \* the runs whose session's Close may hand back an error
  Kinds,    \* bound: which kinds of pane, out of shell, command and far
  AskedIn,  \* bound: the kinds of pane in which agents ask for secrets
  ChosenIn  \* bound: the kinds of pane whose question the user answers, and
            \* into which somebody on another machine types

ASSUME BoundsAssumption ==
  /\ MaxRuns \in Nat \ {0} /\ MaxAsks \in Nat /\ Others \in Nat
  /\ OutRoom \in Nat \ {0} /\ Room \in Nat \ {0}
  /\ Kinds \subseteq {"shell", "command", "far"}

Runs == 1..MaxRuns
Asks == 1..MaxAsks
Loops == Runs \X {"read", "write"}
Input == [at : 1..(MaxRuns + 1), late : BOOLEAN]

VARIABLES
  run,     \* Terminal.run
  exited,  \* Terminal.exited
  closed,  \* Terminal.closed
  end,     \* Terminal.end: the run whose status it is, 0 for none
  out,     \* Terminal.out: each write's run, and whether it was late
  peer,    \* the run a watcher's write found alive, 0 for none under way
  sess,    \* each run's session: open, cut, or over with its status in
  halted,  \* run.stop is closed
  over,    \* run.over
  loop,    \* where readLoop and writeLoop of each run are
  collect, \* where collect of each run is
  notices, \* app.events: how many say this pane ended
  others,  \* app.events: how many are about something else
  asking,  \* Terminal.ask: whether to start it again; picked once chosen from
  picked,  \* the choice on its way to the program's goroutine
  unasked, \* a start has failed, and no question came of it
  starts,  \* how many starts of a session are under way, on goroutines
  app,     \* where the program's goroutine is
  amiss,   \* what follows if the restart it is at is refused
  kind,    \* a shell here, a command, or a shell on a server or in a window
  secret,  \* Terminal.secret: the ask that stands, 0 for none
  typed,   \* secretAsk.typed of the ask that stands
  answer,  \* each ask's channel: given true or false, or false by its own stop
  caller   \* where the agent's call behind each ask is

ends == <<run, exited, closed, end>>
sessions == <<sess, halted, over>>
goroutines == <<loop, collect>>
events == <<notices, others>>
input == <<out, peer>>
question == <<asking, picked, unasked>>
program == <<starts, app, amiss, kind>>
asks == <<secret, typed, answer, caller>>
vars == <<ends, input, sessions, goroutines, events, question, program, asks>>

TypeOK ==
  /\ run \in Runs /\ exited \in BOOLEAN /\ closed \in BOOLEAN
  /\ end \in 0..MaxRuns
  /\ out \in Seq(Input) /\ Len(out) <= OutRoom /\ peer \in 0..(MaxRuns + 1)
  /\ sess \in [Runs -> {"none", "open", "cut", "over"}]
  /\ halted \in [Runs -> BOOLEAN] /\ over \in [Runs -> BOOLEAN]
  /\ loop \in [Loops -> {"none", "on", "asks", "ask", "tell", "gone", "stopped"}]
  /\ collect \in [Runs -> {"none", "wait", "tell", "gone"}]
  /\ notices \in 0..Room /\ others \in 0..Room /\ notices + others <= Room
  /\ asking \in {"no", "yes", "picked"} /\ picked \in {"none", "start", "close"}
  /\ unasked \in BOOLEAN /\ starts \in 0..1
  /\ app \in {"idle", "asks", "close", "wait", "drained", "revived"}
  /\ amiss \in {"asked", "said", "left"} /\ kind \in Kinds
  /\ secret \in 0..MaxAsks /\ typed \in BOOLEAN
  /\ answer \in [Asks -> {"none", "given", "stopped"}]
  /\ caller \in [Asks -> {"none", "checked", "waiting"}]

(* New, which adopts the first session and begins its goroutines. *)
Init ==
  /\ run = 1 /\ exited = FALSE /\ closed = FALSE /\ end = 0 /\ out = <<>> /\ peer = 0
  /\ sess = [r \in Runs |-> IF r = 1 THEN "open" ELSE "none"]
  /\ halted = [r \in Runs |-> FALSE] /\ over = [r \in Runs |-> FALSE]
  /\ loop = [l \in Loops |-> IF l[1] = 1 THEN "on" ELSE "none"]
  /\ collect = [r \in Runs |-> "none"]
  /\ notices = 0 /\ others = 0
  /\ asking = "no" /\ picked = "none" /\ unasked = FALSE
  /\ starts = 0 /\ app = "idle" /\ amiss = "left" /\ kind \in Kinds
  /\ secret = 0 /\ typed = FALSE
  /\ answer = [a \in Asks |-> "none"] /\ caller = [a \in Asks |-> "none"]
---------------------------------------------------------------------------
(* The program of run r, and the way to it.  Its bytes stop moving with the
   program gone, or still there: a broken input or output is the same here. *)
Cut(r) ==
  /\ sess[r] = "open" /\ sess' = [sess EXCEPT ![r] = "cut"]
  /\ UNCHANGED <<ends, input, halted, over, goroutines, events, question, program, asks>>

(* Its status is there for Wait. *)
StatusIn(r) ==
  /\ sess[r] = "cut" /\ sess' = [sess EXCEPT ![r] = "over"]
  /\ UNCHANGED <<ends, input, halted, over, goroutines, events, question, program, asks>>

HangUp(r) == [sess EXCEPT ![r] = IF @ = "open" THEN "cut" ELSE @]
---------------------------------------------------------------------------
(* Typing.  A pane that was revived is typed into for the program to come. *)
TypedAt == IF app = "revived" THEN run + 1 ELSE run
Late(r) == r < run \/ (r = run /\ app \in {"drained", "revived"})

(* send: never blocks, and drops what there is no room for. *)
Send(r) == out' = IF Len(out) < OutRoom THEN Append(out, [at |-> r, late |-> Late(r)]) ELSE out

(* watched.Write: a watcher who has not been told of the end is let through,
   and its bytes are sent after that, however much happens in between. *)
PeerLooks ==
  /\ peer = 0 /\ ~closed /\ kind \in ChosenIn
  /\ ~exited \/ \E l \in Loops : l[1] = run /\ loop[l] = "asks"
  /\ peer' = TypedAt
  /\ UNCHANGED <<ends, out, sessions, goroutines, events, question, program, asks>>

PeerSends ==
  /\ peer # 0 /\ peer' = 0 /\ Send(peer)
  /\ UNCHANGED <<ends, sessions, goroutines, events, question, program, asks>>

(* agentWindow.Send, on the program's goroutine. *)
AgentTypes ==
  /\ app = "idle" /\ ~closed /\ ~exited /\ Send(run)
  /\ UNCHANGED <<ends, peer, sessions, goroutines, events, question, program, asks>>

(* HandleKey with anything but a return, or Paste without one, which looks for
   no question. *)
Types ==
  /\ ~closed /\ Send(TypedAt)
  /\ typed' = (typed \/ secret # 0)
  /\ UNCHANGED <<ends, peer, sessions, goroutines, events, question, program, secret, answer, caller>>

NoneStands == secret' = 0 /\ typed' = FALSE

(* watchForSecret and pastedSecret: the ask that stands is answered, by a
   return after something was typed or a paste that carries one. *)
Answers ==
  /\ answer' = [answer EXCEPT ![secret] = "given"]
  /\ NoneStands /\ UNCHANGED caller

TypesReturn ==
  /\ ~closed /\ asking = "no" /\ Send(TypedAt)
  /\ IF secret # 0 /\ typed THEN Answers ELSE UNCHANGED asks
  /\ UNCHANGED <<ends, peer, sessions, goroutines, events, question, program>>

PastesLine ==
  /\ ~closed /\ Send(TypedAt)
  /\ IF secret # 0 THEN Answers ELSE UNCHANGED asks
  /\ UNCHANGED <<ends, peer, sessions, goroutines, events, question, program>>
---------------------------------------------------------------------------
(* writeLoop: a write goes to the session, or fails and ends the run. *)
Writes(r) ==
  /\ loop[<<r, "write">>] = "on" /\ out # <<>> /\ sess[r] = "open"
  /\ out' = Tail(out)
  /\ UNCHANGED <<ends, peer, sessions, goroutines, events, question, program, asks>>

(* writeLoop: the run was halted. *)
Stops(r) ==
  /\ loop[<<r, "write">>] = "on" /\ halted[r]
  /\ loop' = [loop EXCEPT ![<<r, "write">>] = "stopped"]
  /\ UNCHANGED <<ends, input, sessions, collect, events, question, program, asks>>

(* finish, as either loop calls it: the first says the program has gone. *)
Finish(l) ==
  /\ exited' = TRUE
  /\ loop' = [loop EXCEPT ![l] = IF exited THEN "gone" ELSE "asks"]
  /\ UNCHANGED <<run, closed, end, peer, sessions, collect, events, question, program, asks>>

ReadEnds(r) ==
  /\ loop[<<r, "read">>] = "on" /\ sess[r] # "open"
  /\ Finish(<<r, "read">>) /\ UNCHANGED out

WriteFails(r) ==
  /\ loop[<<r, "write">>] = "on" /\ out # <<>> /\ sess[r] # "open"
  /\ Finish(<<r, "write">>) /\ out' = Tail(out)

(* EndSecret: which is the ask to end, 0 for whichever stands; unread are the
   answers so far that somebody may still read. *)
EndSecretOfAny(which, how, unread) ==   \* faulty variant: which is not looked at
  /\ answer' = IF secret = 0 THEN unread ELSE [unread EXCEPT ![secret] = how]
  /\ NoneStands

EndSecret(which, how, unread) ==
  IF secret = 0 \/ which \notin {0, secret}
  THEN answer' = unread /\ UNCHANGED <<secret, typed>>
  ELSE answer' = [unread EXCEPT ![secret] = how] /\ NoneStands

UntoldOfAsk(l) ==   \* faulty variant: finish is done once an ask was ended
  /\ loop[l] = "ask" /\ EndSecret(0, "given", answer)
  /\ loop' = [loop EXCEPT ![l] = "gone"]
  /\ UNCHANGED <<ends, input, sessions, collect, events, question, program, caller>>

(* finish: anything waiting for the user to type into that program. *)
LooksForAsk(l) ==
  /\ loop[l] = "asks"
  /\ loop' = [loop EXCEPT ![l] = IF secret # 0 THEN "ask" ELSE "tell"]
  /\ UNCHANGED <<ends, input, sessions, collect, events, question, program, asks>>

EndsAsk(l) ==
  /\ loop[l] = "ask" /\ EndSecret(0, "given", answer)
  /\ loop' = [loop EXCEPT ![l] = "tell"]
  /\ UNCHANGED <<ends, input, sessions, collect, events, question, program, caller>>

(* tellHost: OnExit puts an event on the program's channel, and waits for room
   there. *)
RoomLeft == notices + others < Room
TellHost ==
  /\ RoomLeft /\ notices' = notices + 1
  /\ UNCHANGED others

Tells(l) ==
  /\ loop[l] = "tell" /\ TellHost
  /\ loop' = [loop EXCEPT ![l] = "gone"]
  /\ collect' = [collect EXCEPT ![l[1]] = "wait"]
  /\ UNCHANGED <<ends, input, sessions, question, program, asks>>

KeepsUnlessReplaced(r) ==   \* faulty variant: a run that is over is not looked for
  /\ collect[r] = "wait" /\ sess[r] = "over"
  /\ IF run # r
     THEN collect' = [collect EXCEPT ![r] = "gone"] /\ UNCHANGED end
     ELSE collect' = [collect EXCEPT ![r] = "tell"] /\ end' = r
  /\ UNCHANGED <<run, exited, closed, input, sessions, loop, events, question, program, asks>>

(* collect and keepEnding: the status, unless the pane went on to another. *)
Collects(r) ==
  /\ collect[r] = "wait" /\ sess[r] = "over"
  /\ IF over[r] \/ run # r
     THEN collect' = [collect EXCEPT ![r] = "gone"] /\ UNCHANGED end
     ELSE collect' = [collect EXCEPT ![r] = "tell"] /\ end' = r
  /\ UNCHANGED <<run, exited, closed, input, sessions, loop, events, question, program, asks>>

TellsStatus(r) ==
  /\ collect[r] = "tell" /\ TellHost
  /\ collect' = [collect EXCEPT ![r] = "gone"]
  /\ UNCHANGED <<ends, input, sessions, loop, question, program, asks>>
---------------------------------------------------------------------------
(* The program's goroutine.  paneEnded asks whether to start again.  The same
   question, up still though a choice was made at it, is not asked anew; lost is
   whether one that is not means that no question comes. *)
Ask(lost) ==
  \/ /\ exited /\ ~closed
     /\ asking' = "yes" /\ unasked' = FALSE
  \/ /\ exited /\ ~closed /\ asking = "picked"
     /\ unasked' = (unasked \/ lost) /\ UNCHANGED asking
  \/ (~exited \/ closed) /\ UNCHANGED <<asking, unasked>>

PaneEnded ==
  /\ app = "idle" /\ notices > 0 /\ notices' = notices - 1
  /\ Ask(FALSE)
  /\ UNCHANGED <<ends, input, sessions, goroutines, others, picked, program, asks>>

(* Another pane's shell says something, and is heard.  Room goes to who has
   waited for it longest. *)
OtherPosts ==
  /\ others < Others /\ RoomLeft /\ others' = others + 1
  /\ picked = "none" /\ \A l \in Loops : loop[l] # "tell"
  /\ UNCHANGED <<ends, input, sessions, goroutines, notices, question, program, asks>>

OtherHeard ==
  /\ app = "idle" /\ others > 0 /\ others' = others - 1
  /\ UNCHANGED <<ends, input, sessions, goroutines, notices, question, program, asks>>

(* closePane. *)
Closes ==
  /\ closed' = TRUE
  /\ halted' = [halted EXCEPT ![run] = TRUE]
  /\ sess' = HangUp(run)
  /\ UNCHANGED <<run, exited, end, input, over, goroutines, events, asking, unasked,
                 program, asks>>

Close == app = "idle" /\ ~closed /\ Closes /\ UNCHANGED picked
---------------------------------------------------------------------------
(* askPick, on the window's goroutine: the choice is given to a goroutine, which
   waits for room on the channel, and the question is taken down if it is the
   same one still.  A choice that is on its way is heard before another. *)
Picks(choice) ==
  /\ asking = "yes" /\ ~closed /\ picked = "none" /\ kind \in ChosenIn
  /\ choice = "start" => run < MaxRuns
  /\ asking' = "picked" /\ picked' = choice /\ unasked' = FALSE
  /\ UNCHANGED <<ends, input, sessions, goroutines, events, program, asks>>

TakesDown ==
  /\ asking = "picked" /\ asking' = "no"
  /\ UNCHANGED <<ends, input, sessions, goroutines, events, picked, unasked, program, asks>>

HearsClose ==
  /\ app = "idle" /\ RoomLeft /\ picked = "close" /\ picked' = "none"
  /\ IF closed
     THEN UNCHANGED <<ends, input, sessions, goroutines, events, asking, unasked, program, asks>>
     ELSE Closes

(* What comes of a start that fails: the question again, word of it to the user
   (app.failed), or to nobody here. *)
Follows(what) ==
  \/ what = "asked" /\ Ask(TRUE)
  \/ what = "said" /\ unasked' = TRUE /\ UNCHANGED asking
  \/ what = "left" /\ UNCHANGED <<asking, unasked>>

(* startAgainOr, for the user who picked it, an agent, whose call takes the
   question down first and has it put up again, or another window. *)
Unstarted(by) ==
  CASE kind = "shell" -> IF by = "user" THEN {"said"} ELSE {"left"}
    [] kind = "command" -> IF by = "user" THEN {"asked"} ELSE {"asked", "left"}
    [] kind = "far" -> IF by = "user" THEN {"asked", "said"} ELSE {"asked", "left"}
Unrestarted(by) ==
  CASE kind = "far" \/ (kind = "shell" /\ by = "agent") -> "asked"
    [] kind = "shell" /\ by = "window" -> "left"
    [] OTHER -> "said"

(* Restart, up to the hangup of the old session. *)
Restarts(then) ==
  /\ ~closed /\ exited /\ run < MaxRuns
  /\ halted' = [halted EXCEPT ![run] = TRUE]
  /\ over' = [over EXCEPT ![run] = TRUE]
  /\ app' = "close" /\ amiss' = then

NoRestart == UNCHANGED <<sessions, app, amiss>>

(* A session is started there and then, or on a goroutine, or not at all. *)
StartFails(by) ==
  /\ NoRestart /\ UNCHANGED starts
  /\ IF by = "agent" THEN asking' = "yes" /\ unasked' = FALSE
     ELSE \E what \in Unstarted(by) : Follows(what)

StartBegins(by) ==
  /\ \/ kind = "shell" /\ Restarts(Unrestarted(by)) /\ UNCHANGED <<sess, starts>>
     \/ kind # "shell" /\ starts = 0 /\ starts' = 1 /\ NoRestart
  /\ IF by = "agent" THEN asking' = "no" /\ unasked' = FALSE ELSE UNCHANGED <<asking, unasked>>

StartAgain(by) ==
  /\ app = "idle"
  /\ IF by = "user" THEN RoomLeft /\ picked = "start" /\ picked' = "none"
     ELSE ~closed /\ exited /\ run < MaxRuns /\ UNCHANGED picked
  /\ IF closed \/ ~exited
     THEN UNCHANGED <<asking, unasked, sessions, starts, app, amiss>>
     ELSE StartFails(by) \/ StartBegins(by)
  /\ UNCHANGED <<ends, input, goroutines, events, kind, asks>>

(* A start comes back, with a session or without, to a pane that may have been
   closed or started by another meanwhile. *)
StartReturns ==
  /\ app = "idle" /\ RoomLeft /\ starts = 1 /\ starts' = 0
  /\ \/ Restarts(Unrestarted("user")) /\ UNCHANGED <<sess, asking, unasked>>
     \/ Follows("asked") /\ NoRestart
  /\ UNCHANGED <<ends, input, goroutines, events, picked, kind, asks>>

RestartCloses ==
  /\ app = "close" /\ app' = "wait"
  /\ sess' = HangUp(run)
  /\ UNCHANGED <<ends, input, halted, over, goroutines, events, question, starts, amiss, kind, asks>>

Returned(r) == \A l \in Loops : l[1] = r => loop[l] \in {"gone", "stopped"}

RestartUndrained ==   \* faulty variant: what is queued stays
  /\ app = "wait" /\ Returned(run) /\ app' = "drained"
  /\ UNCHANGED <<ends, input, sessions, goroutines, events, question, starts, amiss, kind, asks>>

RestartUnwaited ==   \* faulty variant: the loops may still be at their ends
  /\ app = "wait" /\ app' = "drained" /\ out' = <<>>
  /\ UNCHANGED <<ends, peer, sessions, goroutines, events, question, starts, amiss, kind, asks>>

(* Restart: both loops are waited for, and what was typed is thrown away. *)
RestartWaited ==
  /\ app = "wait" /\ Returned(run) /\ app' = "drained" /\ out' = <<>>
  /\ UNCHANGED <<ends, peer, sessions, goroutines, events, question, starts, amiss, kind, asks>>

(* Restart: the session handed back an error as it was closed.  The pane stays
   as it was; whether it asks again is up to who started it. *)
RestartRefused ==
  /\ app = "wait" /\ Returned(run) /\ run \in Stubborn
  /\ app' = "idle" /\ amiss' = "left" /\ Follows(amiss)
  /\ UNCHANGED <<ends, input, sessions, goroutines, events, picked, starts, kind, asks>>

Revives ==
  /\ app = "drained" /\ app' = "revived" /\ amiss' = "left"
  /\ exited' = FALSE /\ end' = 0 /\ asking' = "no" /\ unasked' = FALSE
  /\ UNCHANGED <<run, closed, input, sessions, goroutines, events, picked, starts, kind, asks>>

(* adopt and begin. *)
Adopts ==
  /\ app = "revived" /\ app' = "idle" /\ run' = run + 1
  /\ sess' = [sess EXCEPT ![run + 1] = "open"]
  /\ loop' = [l \in Loops |-> IF l[1] = run + 1 THEN "on" ELSE loop[l]]
  /\ UNCHANGED <<exited, closed, end, input, halted, over, collect, events, question,
                 starts, amiss, kind, asks>>
---------------------------------------------------------------------------
(* An agent asks for a secret: the pane has to be running, and then waits. *)
AgentAsks(a) ==
  /\ app = "idle" /\ caller[a] = "none" /\ ~closed /\ ~exited /\ kind \in AskedIn
  /\ app' = "asks" /\ caller' = [caller EXCEPT ![a] = "checked"]
  /\ answer' = [answer EXCEPT ![a] = "none"]
  /\ UNCHANGED <<ends, input, sessions, goroutines, events, question, starts, amiss, kind, secret, typed>>

(* WaitForSecret: refused while another ask stands. *)
WaitForSecret(a) ==
  /\ app = "asks" /\ caller[a] = "checked" /\ app' = "idle"
  /\ IF secret # 0
     THEN caller' = [caller EXCEPT ![a] = "none"] /\ UNCHANGED <<secret, typed>>
     ELSE /\ caller' = [caller EXCEPT ![a] = "waiting"]
          /\ secret' = a /\ typed' = FALSE
  /\ UNCHANGED <<ends, input, sessions, goroutines, events, question, starts, amiss, kind, answer>>

(* The agent's wait was answered or gives up, and stop ends its own ask. *)
StopsAsk(a) ==
  /\ app = "idle" /\ caller[a] = "waiting"
  /\ caller' = [caller EXCEPT ![a] = "none"]
  /\ EndSecret(a, "stopped", [answer EXCEPT ![a] = "none"])
  /\ UNCHANGED <<ends, input, sessions, goroutines, events, question, program>>

(* dropHandover: the user takes the pane back from the agent. *)
TakesBack ==
  /\ app = "idle" /\ secret # 0 /\ EndSecret(0, "given", answer)
  /\ UNCHANGED <<ends, input, sessions, goroutines, events, question, program, caller>>
---------------------------------------------------------------------------
LoopStep(l) == LooksForAsk(l) \/ EndsAsk(l) \/ Tells(l)
AppStep == RestartCloses \/ RestartWaited \/ RestartRefused \/ Revives \/ Adopts
           \/ \E a \in Asks : WaitForSecret(a)

Next ==
  \/ \E r \in Runs : Cut(r) \/ StatusIn(r) \/ Writes(r) \/ Stops(r) \/ ReadEnds(r)
                     \/ WriteFails(r) \/ Collects(r) \/ TellsStatus(r)
  \/ \E l \in Loops : LoopStep(l)
  \/ PeerLooks \/ PeerSends \/ AgentTypes \/ Types \/ TypesReturn \/ PastesLine
  \/ PaneEnded \/ OtherPosts \/ OtherHeard \/ Close
  \/ Picks("start") \/ Picks("close") \/ TakesDown \/ HearsClose
  \/ \E by \in {"user", "agent", "window"} : StartAgain(by)
  \/ StartReturns \/ AppStep
  \/ \E a \in Asks : AgentAsks(a) \/ StopsAsk(a)
  \/ TakesBack

Spec == Init /\ [][Next]_vars

(* A loop that can go on does, the window's goroutine takes down what it has
   begun to, and the program's ends what it has begun and, between that, hears
   what is on its channel or waits for room there.  A start may never come back. *)
ReaderStep(r) == ReadEnds(r) \/ LoopStep(<<r, "read">>)
WriterStep(r) == Stops(r) \/ WriteFails(r) \/ LoopStep(<<r, "write">>)
AppHears == PaneEnded \/ OtherHeard \/ StartAgain("user") \/ HearsClose

Fairness ==
  /\ \A r \in Runs : WF_vars(ReaderStep(r)) /\ WF_vars(WriterStep(r))
  /\ WF_vars(TakesDown) /\ WF_vars(AppStep) /\ SF_vars(AppHears)

FairSpec == Spec /\ Fairness
---------------------------------------------------------------------------
(* What was queued for a program when a restart cleared the pane is never given
   to the next, and the old writer takes nothing typed at the new: what a
   writer has was typed at its own program, or was late for one before it.
   InputMeetsItsProgram would be the whole of what Restart says ("a new shell
   would run half a line of it at its own prompt"); what is typed or sent on
   between the drain and the next program gets there all the same. *)
InputMeetsItsProgram ==
  \A r \in Runs : loop[<<r, "write">>] = "on" => \A i \in DOMAIN out : out[i].at = r

NothingIsLeftOver ==
  \A r \in Runs : loop[<<r, "write">>] = "on" =>
    \A i \in DOMAIN out : out[i].at = r \/ (out[i].late /\ out[i].at < r)

(* The status the pane shows is that of the program in it, and none is shown
   for one that runs: a status landing as the pane takes another is dropped. *)
StatusIsItsOwn == end # 0 => exited /\ end = run

(* Whoever waits for a secret has an ask that stands or an answer, an ask that
   stands was not answered, and none is ended by the stop of another. *)
AskIsAnswered ==
  \A a \in Asks :
    caller[a] = "waiting" => (secret = a <=> answer[a] = "none") /\ answer[a] # "stopped"

(* Restart waits for a loop that waits for room on the channel which nobody
   empties while Restart waits (term.go:487, app.go:1682). *)
InItsOwnWay == app = "wait" /\ ~RoomLeft /\ \E l \in Loops : l[1] = run /\ loop[l] = "tell"

(* A program that ended is followed by the question whether to start it again,
   or by the next program, or the pane is closed (app/ended.go): no notice, no
   choice and no failure is lost on the way.  Left without a question are a pane
   whose user was told instead that the start failed, one whose start is not
   back, and one whose program's goroutine stands in its own way. *)
EndedIsAsked ==
  exited ~> (asking # "no" \/ ~exited \/ closed \/ unasked \/ starts = 1 \/ InItsOwnWay)

(* The pane's programs live as PaneLife says: both loops of a run see it end and
   one of them says so, and no program begins before that was said of the last. *)
LifeAt(r) ==
  IF loop[<<r, "read">>] = "none" THEN "none"
  ELSE IF collect[r] = "none"
  THEN IF \E l \in Loops : l[1] = r /\ loop[l] \in {"asks", "ask", "tell"} THEN "gone" ELSE "runs"
  ELSE CASE collect[r] = "wait" -> "told" [] collect[r] = "tell" -> "known" [] collect[r] = "gone" -> "over"
Life == [r \in Runs |-> LifeAt(r)]
Lives == INSTANCE PaneLife WITH life <- Life
LivesInTurn == Lives!Spec
===========================================================================
