---------------------------- MODULE AgentShare ----------------------------
(* Panes shared with an agent: app/agents.go, the share, on the window's one
   goroutine; agent/server.go, which takes agents and answers them on goroutines
   of their own; the ask for a secret of ui/term/term.go.

   The window takes functions off a channel with room for so many, and what the
   user does.  An agent is one connection.  The share and the hand-overs are
   numbered by one counter; a pane's name to an agent is its number.  What is
   read off a screen, and typed, is not modelled.                            *)
EXTENDS Integers, Sequences, FiniteSets

CONSTANTS Panes,       \* the terminal panes there may be
          First,       \* those open when it begins; the others are opened by agents
          Agents,      \* the connections agents make
          MostAgents,  \* mostAgents (8)
          MostOpened,  \* mostOpened (4)
          Room,        \* the room of app.events (64)
          MaxDeeds,    \* bound: what the user does
          MaxNumber,   \* bound: the shares and hand-overs there are
          MaxAsks,     \* bound: what the agents ask
          MaxErrors    \* bound: the failures to accept a connection

ASSUME NumbersAssumption ==
  /\ First \subseteq Panes
  /\ {MostAgents, MostOpened, Room} \subseteq Nat \ {0}
  /\ {MaxDeeds, MaxNumber, MaxAsks, MaxErrors} \subseteq Nat
ASSUME AgentsAssumption == Agents \cap {"none", "free", "closing"} = {} /\ "none" \notin Panes

VARIABLES
  open,     \* the panes open
  gone,     \* those whose program has exited
  ending,   \* those whose finish has yet to look for an ask
  by,       \* agents.by: the hand-over of each pane, 0 for none
  hand,     \* the hand-overs made so far, by number
  share,    \* agents.open: its number, 0 for none
  working,  \* share.working
  next,     \* agents.next
  kept,     \* settings.AgentMay
  window,   \* "free", "closing" the server, or the agent it is asking a secret for
  events,   \* app.events
  deeds,    \* how many of MaxDeeds the user did
  asks,     \* how many of MaxAsks the agents asked
  secret,   \* Terminal.secret of each pane: the agent that asked, or none
  server,   \* "none", "up" or "closed"
  accept,   \* the accept goroutine: "over", "accepting", "failed"
  errors,   \* the failures so far
  talking,  \* Server.talking
  sock,     \* the connections open
  talk,     \* where each connection's goroutine is
  held,     \* the shares each agent gave the code of
  req,      \* what each agent asks: [do, n], n a number
  back      \* the answer it is given

none == "none"
panes == <<open, gone, ending>>
handed == <<by, hand, share, working, next, kept>>
taking == <<server, accept, errors, talking>>
talks == <<sock, talk, held, req, back>>
counts == <<deeds, asks>>
vars == <<panes, handed, window, events, counts, secret, taking, talks>>

NoReq == [do |-> none, n |-> 0, pane |-> none]
HasRoom == Len(events) < Room
Post(e) == HasRoom /\ events' = Append(events, e)
Event(do, a, n) == [do |-> do, a |-> a, n |-> n]

Init ==
  /\ open = First /\ gone = {} /\ ending = {}
  /\ by = [p \in Panes |-> 0] /\ hand = << >> /\ share = 0 /\ working = 0 /\ next = 0
  /\ kept = {"more"}
  /\ window = "free" /\ events = << >> /\ deeds = 0 /\ asks = 0
  /\ secret = [p \in Panes |-> none]
  /\ server = "none" /\ accept = "over" /\ errors = 0 /\ talking = {}
  /\ sock = {} /\ talk = [a \in Agents |-> "away"] /\ held = [a \in Agents |-> {}]
  /\ req = [a \in Agents |-> NoReq] /\ back = [a \in Agents |-> none]

(* What each variable holds. *)
Shown == SUBSET {"more", "ro"}
Requests == {"use", "open", "secret"}
Handovers == [pane : Panes, share : Nat \ {0}, from : Nat, may : Shown]
Events == [do : Requests \cup {"hand", "stop", "using", "leaving", "error"},
           a : Agents \cup {none}, n : Nat]
Stages == {"away", "ready", "asked", "opened", "handing", "leaving", "over"}
Answers == {none, "used", "opening", "handed", "refused", "asked", "answered", "unanswered"}
Asking == [do : Requests \cup {none}, n : Nat, pane : Panes \cup {none}]

TypeOK ==
  /\ open \subseteq Panes /\ gone \subseteq Panes /\ ending \subseteq Panes
  /\ next \in Nat /\ share \in 0..next /\ by \in [Panes -> 0..next] /\ kept \in Shown
  /\ hand \in Seq(Handovers) /\ Len(hand) = next
  /\ working \in Nat /\ window \in {"free", "closing"} \cup Agents
  /\ events \in Seq(Events)
  /\ secret \in [Panes -> Agents \cup {none}]
  /\ server \in {"none", "up", "closed"} /\ accept \in {"over", "accepting", "failed"}
  /\ talking \subseteq Agents /\ sock \subseteq Agents
  /\ talk \in [Agents -> Stages]
  /\ held \in [Agents -> SUBSET Nat]
  /\ req \in [Agents -> Asking]
  /\ back \in [Agents -> Answers]
---------------------------------------------------------------------------
(* The share, on the window's goroutine.                                  *)

Given(n) == n # 0 /\ by[hand[n].pane] = n
Parent(n) == hand[n].from

(* What hand-over n was opened from, and that from, and so on. *)
Above[n \in 0..MaxNumber] ==
  IF n = 0 \/ Parent(n) = 0 THEN {} ELSE {Parent(n)} \cup Above[Parent(n)]

(* allowed: its own boxes, or those of the pane the user gave; none when a pane
   between them was taken back. *)
Allowed(n) ==
  LET line == {n} \cup Above[n]
      root == CHOOSE m \in line : Parent(m) = 0
  IN IF \A m \in line : Given(m) THEN hand[root].may ELSE {}

(* handInto: with the boxes ticked last time; a pane handed over is left. *)
HandInto(p, from) ==
  IF by[p] # 0 THEN hand' = [hand EXCEPT ![by[p]].from = from] /\ UNCHANGED <<by, next>>
  ELSE /\ next' = next + 1
       /\ hand' = Append(hand, [pane |-> p, share |-> share, from |-> from, may |-> kept])
       /\ by' = [by EXCEPT ![p] = next + 1]

(* sharePane: listening, and making a share, when there is none yet.  A share
   takes a number too; it stands in hand for no pane. *)
SharePane(p) ==
  /\ p \in open /\ by[p] = 0
  /\ server' = "up" /\ accept' = IF server = "up" THEN accept ELSE "accepting"
  /\ LET new == share = 0
         id == IF new THEN next + 1 ELSE share
         n == IF new THEN next + 2 ELSE next + 1
         entry == [pane |-> p, share |-> id, from |-> 0, may |-> kept]
     IN /\ n <= MaxNumber /\ share' = id /\ next' = n
        /\ hand' = IF new THEN hand \o <<entry, entry>> ELSE Append(hand, entry)
        /\ by' = [by EXCEPT ![p] = n]
        /\ working' = IF new THEN 0 ELSE working
  /\ UNCHANGED <<panes, kept, window, events, secret, errors, talking, talks>>

EndNoAsks(ps) == UNCHANGED <<secret, back>>   \* faulty variant: a pane taken back keeps its ask

(* EndSecret, of the asks of the panes in ps: heard by an agent that waits. *)
EndAsks(ps) ==
  /\ secret' = [p \in Panes |-> IF p \in ps THEN none ELSE secret[p]]
  /\ back' = [a \in Agents |-> IF back[a] = "asked" /\ \E p \in ps : secret[p] = a THEN "unanswered"
                              ELSE back[a]]

(* dropHandover, for each of ps, and the ask on it while the pane is there; and
   stopSharingIfDone: the server is closed on this goroutine, its connections
   cut, once nothing is shared. *)
Drop(ps) ==
  /\ by' = [p \in Panes |-> IF p \in ps THEN 0 ELSE by[p]]
  /\ EndAsks(ps \cap open')
  /\ IF \A p \in Panes \ ps : by[p] = 0
     THEN /\ share' = 0
          /\ IF server = "up" THEN server' = "closed" /\ window' = "closing" /\ sock' = sock \ talking
             ELSE UNCHANGED <<server, window, sock>>
     ELSE UNCHANGED <<share, server, window, sock>>
  /\ UNCHANGED <<hand, working, next, kept, events, accept, errors, talking,
                 talk, held, req>>

(* unsharePane: with any the agent opened from it. *)
Opened(p) == {q \in Panes : by[q] # 0 /\ by[p] \in Above[by[q]]}
UnsharePane(p) == by[p] # 0 /\ UNCHANGED panes /\ Drop({p} \cup Opened(p))

StopSharing == share # 0 /\ UNCHANGED panes /\ Drop({p \in Panes : by[p] # 0})

(* closePane: the terminal is closed, which ends its program and lets go of an ask
   on it; then its share goes, with those the agent opened from it. *)
ClosePane(p) ==
  /\ p \in open /\ open' = open \ {p}
  /\ gone' = gone \cup {p} /\ ending' = ending \cup ({p} \ gone)
  /\ IF by[p] # 0 THEN Drop({p} \cup Opened(p))
     ELSE UNCHANGED <<handed, window, events, secret, taking, talks>>

(* setAgentMay: kept as what the next pane shared starts with. *)
SetAgentMay(p) ==
  /\ by[p] # 0
  /\ \E may \in {{}, {"more", "ro"}} :
       may # hand[by[p]].may /\ kept' = may /\ hand' = [hand EXCEPT ![by[p]].may = may]
  /\ UNCHANGED <<panes, by, share, working, next, window, events, secret, taking, talks>>

UserDoes ==
  /\ window = "free" /\ deeds < MaxDeeds /\ deeds' = deeds + 1 /\ UNCHANGED asks
  /\ \/ \E p \in Panes : SharePane(p) \/ UnsharePane(p) \/ ClosePane(p) \/ SetAgentMay(p)
     \/ StopSharing

(* Server.Close returns once the accept goroutine has ended. *)
CloseWaitsForAll == window = "closing" /\ accept = "over" /\ talking = {}   \* faulty variant
CloseReturns == window = "closing" /\ accept = "over"
Closed ==
  /\ CloseReturns /\ window' = "free" /\ server' = "none"
  /\ UNCHANGED <<panes, handed, events, counts, secret, accept, errors, talking, talks>>
---------------------------------------------------------------------------
(* What the window does of the functions it takes.                        *)
Answer(a, what) == back' = [back EXCEPT ![a] = what]
Hears == window = "free" /\ events # << >>
Takes(do) == Hears /\ Head(events).do = do /\ events' = Tail(events)

(* agentWindow.Use: while that share is the one offered. *)
TakesUse ==
  /\ Takes("use")
  /\ Answer(Head(events).a, IF share # 0 /\ share = Head(events).n THEN "used" ELSE "refused")
  /\ UNCHANGED <<panes, handed, window, counts, secret, taking, sock, talk, held, req>>

(* agentWindow.Open: so many from one pane, counting those handed over. *)
TakesOpen ==
  /\ Takes("open")
  /\ LET n == Head(events).n
         before == Cardinality({p \in Panes : by[p] # 0 /\ n \in Above[by[p]]})
     IN Answer(Head(events).a, IF Given(n) /\ hand[n].pane \in open /\ "more" \in Allowed(n) /\ before < MostOpened
                               THEN "opening" ELSE "refused")
  /\ UNCHANGED <<panes, handed, window, counts, secret, taking, sock, talk, held, req>>

HandsAnyway ==   \* faulty variant: into a share that is over
  /\ Takes("hand") /\ next < MaxNumber
  /\ Answer(Head(events).a, "handed") /\ HandInto(req[Head(events).a].pane, Head(events).n)
  /\ UNCHANGED <<panes, share, working, kept, window, counts, secret, taking, sock, talk, held, req>>

(* agentWindow.Open, once the pane is there: into the share it was asked for. *)
TakesHand ==
  /\ Takes("hand")
  /\ LET a == Head(events).a
         from == Head(events).n
     IN /\ Answer(a, "handed")
        /\ IF share = hand[from].share /\ next < MaxNumber THEN HandInto(req[a].pane, from)
           ELSE UNCHANGED <<by, hand, next>>
  /\ UNCHANGED <<panes, share, working, kept, window, counts, secret, taking, sock, talk, held, req>>

(* agentWindow.Secret: a pane whose program goes on, to be typed into, is asked
   on after it was looked at. *)
TakesSecret ==
  /\ Takes("secret")
  /\ LET n == Head(events).n
         a == Head(events).a
     IN IF Given(n) /\ hand[n].pane \in open \ gone /\ "ro" \notin Allowed(n)
        THEN window' = a /\ UNCHANGED back
        ELSE Answer(a, "refused") /\ UNCHANGED window
  /\ UNCHANGED <<panes, handed, counts, secret, taking, sock, talk, held, req>>

(* Terminal.WaitForSecret: one ask at a time. *)
WaitForSecret ==
  /\ window \in Agents /\ window' = "free"
  /\ LET p == hand[req[window].n].pane
     IN IF secret[p] = none THEN secret' = [secret EXCEPT ![p] = window] /\ Answer(window, "asked")
        ELSE Answer(window, "refused") /\ UNCHANGED secret
  /\ UNCHANGED <<panes, handed, events, counts, taking, sock, talk, held, req>>

TakesStopAny ==   \* faulty variant: whatever the pane is asked
  /\ Takes("stop")
  /\ secret' = [secret EXCEPT ![hand[Head(events).n].pane] = none]
  /\ UNCHANGED <<panes, handed, window, counts, taking, talks>>

(* The stop of an ask ends that ask, and no later one. *)
TakesStop ==
  /\ Takes("stop")
  /\ secret' = [p \in Panes |-> IF secret[p] = Head(events).a THEN none ELSE secret[p]]
  /\ UNCHANGED <<panes, handed, window, counts, taking, talks>>

(* markAgent: of the share there is now. *)
TakesMark ==
  /\ Hears /\ Head(events).do \in {"using", "leaving"}
  /\ events' = Tail(events)
  /\ LET by1 == IF Head(events).do = "using" THEN 1 ELSE -1
     IN working' = IF share # Head(events).n THEN working
                   ELSE IF working + by1 < 0 THEN 0 ELSE working + by1
  /\ UNCHANGED <<panes, by, hand, share, next, kept, window, counts, secret, taking, talks>>

TakesError ==
  /\ Takes("error")
  /\ UNCHANGED <<panes, handed, window, counts, secret, taking, talks>>
---------------------------------------------------------------------------
(* The accept goroutine.                                                  *)
AcceptFails ==
  /\ accept = "accepting" /\ server = "up" /\ errors < MaxErrors
  /\ accept' = "failed" /\ errors' = errors + 1
  /\ UNCHANGED <<panes, handed, window, events, counts, secret, server, talking, talks>>

(* onError posts to the window, and waits for room. *)
CanSaySo == accept = "failed" /\ HasRoom
SaysSo ==
  /\ CanSaySo /\ Post(Event("error", none, 0)) /\ accept' = "accepting"
  /\ UNCHANGED <<panes, handed, window, counts, secret, server, errors, talking, talks>>

SeesClosed == accept = "accepting" /\ server = "closed"
AcceptEnds ==
  /\ SeesClosed /\ accept' = "over"
  /\ UNCHANGED <<panes, handed, window, events, counts, secret, server, errors, talking, talks>>

(* hold: not by a server that closed, nor beyond so many.  One that does not say
   what it is, in its time, is hung up on. *)
Accepts(a) ==
  /\ accept = "accepting" /\ server = "up" /\ talk[a] = "away"
  /\ IF Cardinality(talking) < MostAgents
     THEN /\ talking' = talking \cup {a} /\ sock' = sock \cup {a}
          /\ \E at \in {"ready", "leaving"} : talk' = [talk EXCEPT ![a] = at]
     ELSE talk' = [talk EXCEPT ![a] = "over"] /\ UNCHANGED <<talking, sock>>
  /\ UNCHANGED <<panes, handed, window, events, counts, secret, server, accept, errors, held, req, back>>
---------------------------------------------------------------------------
(* A connection's goroutine: Server.talk.                                 *)
To(a, at) == talk' = [talk EXCEPT ![a] = at]

(* The agent hangs up, or says something else than it should: seen when its next
   request is read. *)
HangsUp(a) ==
  /\ talk[a] = "ready" /\ a \in sock /\ To(a, "leaving")
  /\ UNCHANGED <<panes, handed, window, events, counts, secret, taking, sock, held, req, back>>

(* It waits for the next request. *)
Ready(a) ==
  /\ To(a, "ready") /\ req' = [req EXCEPT ![a] = NoReq] /\ back' = [back EXCEPT ![a] = none]

(* One request, about a share or a pane of one it holds, put to the window. *)
Asks(a) ==
  /\ talk[a] = "ready" /\ a \in sock /\ asks < MaxAsks /\ asks' = asks + 1
  /\ \E do \in {"use", "open", "secret"}, n \in 1..next :
       /\ do # "use" => hand[n].share \in held[a] /\ n # hand[n].share
       /\ do = "use" => n = hand[n].share
       /\ req' = [req EXCEPT ![a] = [do |-> do, n |-> n, pane |-> hand[n].pane]]
       /\ Post(Event(do, a, n))
  /\ To(a, "asked")
  /\ UNCHANGED <<panes, handed, window, deeds, secret, taking, sock, held, back>>

UsedAgain(a) ==   \* faulty variant: the window is told each time
  /\ talk[a] = "asked" /\ back[a] = "used" /\ Post(Event("using", a, req[a].n)) /\ Ready(a)
  /\ held' = [held EXCEPT ![a] = @ \cup {req[a].n}]
  /\ UNCHANGED <<panes, handed, window, counts, secret, taking, sock>>

(* answer, use: the first time, the window is told. *)
CanUse(a) == talk[a] = "asked" /\ back[a] = "used" /\ (req[a].n \in held[a] \/ HasRoom)
Used(a) ==
  /\ CanUse(a)
  /\ IF req[a].n \in held[a] THEN Ready(a) /\ UNCHANGED <<held, events>>
     ELSE /\ Post(Event("using", a, req[a].n)) /\ Ready(a)
          /\ held' = [held EXCEPT ![a] = @ \cup {req[a].n}]
  /\ UNCHANGED <<panes, handed, window, counts, secret, taking, sock>>

IsTold(a) == talk[a] \in {"asked", "handing"} /\ back[a] \in {"refused", "handed"}
Refused(a) ==
  /\ IsTold(a) /\ Ready(a)
  /\ UNCHANGED <<panes, handed, window, events, counts, secret, taking, sock, held>>

(* agentWindow.Open: the pane opens on the window's goroutine, after a shell was
   started or a machine answered; or does not, or not in a minute. *)
CanOpen(a) == talk[a] = "asked" /\ back[a] = "opening" /\ window = "free"
PaneOpens(a) ==
  /\ CanOpen(a)
  /\ \/ \E p \in Panes \ (First \cup open) :
          /\ \A b \in Agents : talk[b] = "opened" => req[b].pane # p
          /\ by[p] = 0 /\ p \notin gone
          /\ open' = open \cup {p} /\ req' = [req EXCEPT ![a].pane = p] /\ To(a, "opened")
          /\ UNCHANGED back
     \/ Ready(a) /\ UNCHANGED open
  /\ UNCHANGED <<gone, ending, handed, window, events, counts, secret, taking, sock, held>>

CanHand(a) == talk[a] = "opened" /\ HasRoom
Hands(a) ==
  /\ CanHand(a) /\ Post(Event("hand", a, req[a].n)) /\ To(a, "handing")
  /\ back' = [back EXCEPT ![a] = none]
  /\ UNCHANGED <<panes, handed, window, counts, secret, taking, sock, held, req>>

(* agentWindow.Secret: what is first of the answer and its time running out;
   the ask is taken off the pane either way. *)
CanStop(a) == talk[a] = "asked" /\ back[a] \in {"asked", "answered", "unanswered"} /\ HasRoom
AskIsOver(a) ==
  /\ CanStop(a) /\ Post(Event("stop", a, req[a].n)) /\ Ready(a)
  /\ UNCHANGED <<panes, handed, window, counts, secret, taking, sock, held>>

(* The reader of the next request finds the socket closed. *)
SeesCut(a) == talk[a] = "ready" /\ a \notin sock
Leaves(a) ==
  /\ SeesCut(a) /\ To(a, "leaving")
  /\ UNCHANGED <<panes, handed, window, events, counts, secret, taking, sock, held, req, back>>

(* The deferred calls: OnGone for each share, then drop. *)
CanSayBye(a) == talk[a] = "leaving" /\ (held[a] = {} \/ HasRoom)
Left(a) ==
  /\ CanSayBye(a)
  /\ IF held[a] = {}
     THEN /\ To(a, "over") /\ talking' = talking \ {a} /\ sock' = sock \ {a}
          /\ UNCHANGED <<held, events>>
     ELSE /\ \E id \in held[a] :
               Post(Event("leaving", a, id)) /\ held' = [held EXCEPT ![a] = @ \ {id}]
          /\ UNCHANGED <<talk, talking, sock>>
  /\ UNCHANGED <<panes, handed, window, counts, secret, server, accept, errors, req, back>>
---------------------------------------------------------------------------
(* The terminal: the user answers an ask, and a program ends.             *)
Types(p) ==
  /\ secret[p] # none /\ p \in open
  /\ secret' = [secret EXCEPT ![p] = none] /\ back' = [back EXCEPT ![secret[p]] = IF @ = "asked" THEN "answered" ELSE @]
  /\ UNCHANGED <<panes, handed, window, events, counts, taking, sock, talk, held, req>>

Exits(p) ==
  /\ p \in open \ gone /\ gone' = gone \cup {p} /\ ending' = ending \cup {p}
  /\ UNCHANGED <<open, handed, window, events, counts, secret, taking, talks>>

(* finish: anything waiting for the user to type into it is let go. *)
Finishes(p) ==
  /\ p \in ending /\ ending' = ending \ {p} /\ EndAsks({p})
  /\ UNCHANGED <<open, gone, handed, window, events, counts, taking, sock, talk, held, req>>
---------------------------------------------------------------------------
Window == \/ Closed \/ TakesUse \/ TakesOpen \/ TakesHand \/ TakesSecret \/ WaitForSecret
          \/ TakesStop \/ TakesMark \/ TakesError
Accepting == SaysSo \/ AcceptEnds
Talks(a) == \/ Used(a) \/ Refused(a) \/ PaneOpens(a) \/ Hands(a) \/ AskIsOver(a)
            \/ Leaves(a) \/ Left(a)
World == \/ UserDoes \/ AcceptFails \/ \E p \in Panes : Types(p) \/ Exits(p)
         \/ \E a \in Agents : Accepts(a) \/ HangsUp(a) \/ Asks(a)

(* What the window and the goroutines do of themselves. *)
Goes == \/ Window \/ Accepting
        \/ \E a \in Agents : Talks(a)
        \/ \E p \in Panes : Finishes(p)

Next == World \/ Goes

Spec == Init /\ [][Next]_vars

---------------------------------------------------------------------------
Waiting(do, n) == {i \in 1..Len(events) : events[i].do = do /\ events[i].n = n}

(* The agents said to be working in the share are those that gave its code and
   have not left, but for what the window has yet to be told (agents.go,
   markAgent): none is counted twice, or after it left, or in the next share. *)
WorkingIsTrue ==
  share # 0 =>
    working + Cardinality(Waiting("using", share)) - Cardinality(Waiting("leaving", share))
      = Cardinality({a \in Agents : share \in held[a]})

(* An agent that waits for the user's answer waits on an ask that stands, and
   every ask that stands on a pane still open is on one still shared: taking the
   pane back, by whatever way, and the end of an earlier ask each end what they
   should, and no more. *)
AskStands ==
  /\ \A a \in Agents : back[a] = "asked" => \E p \in Panes : secret[p] = a
  /\ \A p \in open : secret[p] # none => by[p] # 0

(* The window listens for agents exactly while something is shared. *)
ListensWhileShared == server = "up" <=> \E p \in Panes : by[p] # 0

(* Each request is answered, by the window, by the pane, or by its time running
   out, every agent cut off is let go, and the window waits for nobody that waits
   for it: it all stops, for want of anything the user or an agent does, only
   there, or where Close waits for the accept goroutine to say that it failed,
   for which there is no room until the window goes on (agent/server.go:174).
   CanGo is what each of the steps in Goes waits for. *)
ForEver == window = "closing" /\ accept = "failed" /\ Len(events) = Room

CanGo ==
  \/ Hears \/ window \in Agents \/ CloseReturns \/ CanSaySo \/ SeesClosed \/ ending # {}
  \/ \E a \in Agents : \/ CanUse(a) \/ IsTold(a) \/ CanOpen(a) \/ CanHand(a) \/ CanStop(a)
                       \/ SeesCut(a) \/ CanSayBye(a)

NobodyWaitsInVain ==
  \/ CanGo
  \/ ForEver
  \/ /\ window = "free" /\ events = << >>
     /\ \A a \in Agents : talk[a] \in {"away", "over"} \/ (talk[a] = "ready" /\ a \in sock)

(* What an agent opened is shared only while the pane it was opened from is:
   app/agents.go, unsharePane, "takes a pane out of the share, with any the agent
   opened from it".  Not so in this code, and in no run: one still opening then
   is handed over after.  README, Where code and words part. *)
OpenedGoesWithIt == \A p \in Panes : by[p] # 0 => \A n \in Above[by[p]] : Given(n)
===========================================================================
