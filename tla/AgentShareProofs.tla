-------------------------- MODULE AgentShareProofs --------------------------
(* Four promises of AgentShare, for any number of panes, agents, asks and of what
   the user does: the window listens exactly while it shares something, an agent
   that waits for the user waits on an ask that stands, the agents said to be
   working are those that are, and nobody waits in vain but where Close does.

   The second is a matter of order: the stop of an earlier ask and the next
   request of the same agent go through one channel, and no request is on it
   with an older one of the same agent, or ahead of its stop.  The third is too:
   an agent says once that it uses a share and once, later, that it leaves, and
   the window counts those it has heard the one of and not the other.        *)
EXTENDS AgentShare, SequenceTheorems, FiniteSetTheorems, TLAPS

(* What the window listens with is what it has shared. *)
Sharing ==
  /\ share # 0 <=> \E p \in Panes : by[p] # 0
  /\ share # 0 <=> server = "up"
  /\ window = "closing" => server = "closed"

(* A pane that is asked for a secret is open, and shared, or was closed and can
   be opened no more. *)
Secrets ==
  /\ \A p \in open : secret[p] # none => by[p] # 0
  /\ \A p \in Panes : p \notin open /\ p \notin gone => secret[p] = none

Pending == Requests \cup {"hand"}

(* An agent has one thing before the window at a time, about a hand-over or a
   share that was, and waits for its answer; no stop of its is behind it. *)
Before(i) ==
  /\ events[i].a \in Agents
  /\ talk[events[i].a] = (IF events[i].do = "hand" THEN "handing" ELSE "asked")
  /\ back[events[i].a] = none
  /\ window # events[i].a /\ req[events[i].a].n = events[i].n
  /\ \A j \in 1..Len(events) : events[j].a = events[i].a =>
       /\ events[j].do \in Pending => j = i
       /\ events[j].do = "stop" => j < i
InTurn == \A i \in 1..Len(events) : events[i].do \in Pending => Before(i)

(* What an agent asks about has a number and a pane; one that does not ask has no
   answer. *)
Asked(a) ==
  /\ talk[a] \in {"asked", "opened", "handing"} => req[a].n \in 1..next /\ req[a].pane \in Panes
  /\ talk[a] \in {"away", "ready"} => back[a] = none

(* Nothing of the agent is before the window, nor the stop of an ask of its. *)
Nothing(a) == \A i \in 1..Len(events) : events[i].a = a => events[i].do \notin Pending \cup {"stop"}

(* The agent for which the window looks at a pane, and is about to ask. *)
Looking ==
  window \in Agents =>
    /\ talk[window] = "asked" /\ back[window] = none /\ Nothing(window)
    /\ hand[req[window].n].pane \in open /\ by[hand[req[window].n].pane] # 0

Standing(a) ==
  back[a] = "asked" => (\E p \in Panes : secret[p] = a) /\ talk[a] = "asked" /\ Nothing(a)

Kept ==
  /\ TypeOK /\ Sharing /\ Secrets /\ InTurn /\ Looking
  /\ \A a \in Agents : Asked(a) /\ Standing(a)

USE DEF Stages, Answers, HasRoom, Hears, CloseReturns, CanSaySo, SeesClosed,
  CanUse, IsTold, CanOpen, CanHand, CanStop, SeesCut, CanSayBye

(* The queue of the window. *)
LEMMA Posted ==
  ASSUME TypeOK, NEW e \in Events, Post(e)
  PROVE  /\ events' \in Seq(Events) /\ Len(events') = Len(events) + 1 /\ Len(events) \in Nat
         /\ \A i \in 1..Len(events) : events'[i] = events[i]
         /\ events'[Len(events) + 1] = e
  BY DEF Post, TypeOK

LEMMA Taken ==
  ASSUME TypeOK, events # << >>, events' = Tail(events)
  PROVE  /\ events' \in Seq(Events) /\ Len(events') = Len(events) - 1 /\ Len(events) \in Nat \ {0}
         /\ \A i \in 1..Len(events) - 1 : events'[i] = events[i + 1]
         /\ Head(events) = events[1] /\ events[1] \in Events
  BY DEF TypeOK

LEMMA EventIs ==
  ASSUME NEW do \in Requests \cup {"hand", "stop", "using", "leaving", "error"},
         NEW a \in Agents \cup {none}, NEW n \in Nat
  PROVE  Event(do, a, n) \in Events /\ Event(do, a, n).do = do /\ Event(do, a, n).a = a /\ Event(do, a, n).n = n
  BY DEF Event, Events

LEMMA PartsOfEvent ==
  ASSUME TypeOK, NEW i \in 1..Len(events)
  PROVE  events[i] \in Events /\ events[i].a \in Agents \cup {none} /\ events[i].n \in Nat
         /\ events[i].do \in Requests \cup {"hand", "stop", "using", "leaving", "error"}
<1> events \in Seq(Events)
  BY DEF TypeOK
<1>1. events[i] \in Events
  OBVIOUS
<1> QED BY <1>1 DEF Events

LEMMA PartsOfHandover ==
  ASSUME TypeOK, NEW n \in 1..next
  PROVE  hand[n] \in Handovers /\ hand[n].pane \in Panes /\ hand[n].share \in Nat \ {0}
<1> hand \in Seq(Handovers) /\ Len(hand) = next
  BY DEF TypeOK
<1>1. hand[n] \in Handovers
  OBVIOUS
<1> QED BY <1>1 DEF Handovers

LEMMA PartsOfAsking ==
  ASSUME TypeOK, NEW a \in Agents
  PROVE  req[a] \in Asking /\ req[a].n \in Nat /\ req[a].pane \in Panes \cup {none}
<1>1. req[a] \in Asking
  BY DEF TypeOK
<1> QED BY <1>1 DEF Asking

LEMMA NoReqType == NoReq \in Asking /\ NoReq.n = 0
  BY DEF NoReq, Asking

NoneBefore(a) == \A i \in 1..Len(events) : events[i].a = a => events[i].do \notin Pending

(* An agent that is somewhere else than waiting for its answer has nothing
   before the window. *)
LEMMA NotBefore ==
  ASSUME InTurn, NEW a \in Agents,
         talk[a] \notin {"asked", "handing"} \/ back[a] # none \/ window = a
  PROVE  NoneBefore(a)
  BY DEF InTurn, Before, NoneBefore

(* The order stays when an agent with nothing before the window goes on, and
   perhaps posts what is no request. *)
LEMMA OrderKept ==
  ASSUME Kept, NEW a \in Agents \cup {none}, NoneBefore(a), window' = window,
         \A b \in Agents \ {a} : talk'[b] = talk[b] /\ back'[b] = back[b] /\ req'[b] = req[b],
         \/ events' = events
         \/ \E e \in Events : Post(e) /\ e.do \notin Pending /\ e.a = a
  PROVE  InTurn' /\ \A b \in Agents \ {a} : Nothing(b) => Nothing(b)'
<1>1. CASE events' = events
  BY <1>1 DEF Kept, InTurn, Before, NoneBefore, Nothing
<1>2. ASSUME NEW e \in Events, Post(e), e.do \notin Pending, e.a = a
      PROVE  InTurn' /\ \A b \in Agents \ {a} : Nothing(b) => Nothing(b)'
  <2>1. /\ Len(events') = Len(events) + 1 /\ Len(events) \in Nat /\ events'[Len(events) + 1] = e
        /\ \A i \in 1..Len(events) : events'[i] = events[i]
    BY <1>2, Posted DEF Kept
  <2>2. ASSUME NEW i \in 1..Len(events'), events'[i].do \in Pending PROVE Before(i)'
    <3>1. i \in 1..Len(events) /\ events[i].do \in Pending /\ events'[i] = events[i]
      BY <1>2, <2>1, <2>2
    <3>2. Before(i) /\ events[i].a # a
      BY <3>1 DEF Kept, InTurn, NoneBefore
    <3>3. \A j \in 1..Len(events') : events'[j].a = events[i].a => j \in 1..Len(events)
      BY <1>2, <2>1, <3>2
    <3> QED BY <2>1, <3>1, <3>2, <3>3 DEF Before
  <2>3. ASSUME NEW b \in Agents \ {a}, Nothing(b) PROVE Nothing(b)'
    BY <1>2, <2>1, <2>3 DEF Nothing
  <2> QED BY <2>2, <2>3 DEF InTurn
<1> QED BY <1>1, <1>2

(* And when it puts its request. *)
LEMMA OrderOfRequest ==
  ASSUME Kept, NEW a \in Agents, NoneBefore(a), window' = window, window # a,
         \A b \in Agents \ {a} : talk'[b] = talk[b] /\ back'[b] = back[b] /\ req'[b] = req[b],
         NEW e \in Events, Post(e), e.do \in Pending, e.a = a,
         talk'[a] = (IF e.do = "hand" THEN "handing" ELSE "asked"),
         back'[a] = none, req'[a].n = e.n
  PROVE  InTurn' /\ \A b \in Agents \ {a} : Nothing(b) => Nothing(b)'
<1>1. /\ Len(events') = Len(events) + 1 /\ Len(events) \in Nat /\ events'[Len(events) + 1] = e
      /\ \A i \in 1..Len(events) : events'[i] = events[i]
  BY Posted DEF Kept
<1>2. ASSUME NEW i \in 1..Len(events'), events'[i].do \in Pending PROVE Before(i)'
  <2>1. CASE i \in 1..Len(events)
    <3>1. Before(i) /\ events[i].a # a /\ events'[i] = events[i]
      BY <1>1, <1>2, <2>1 DEF Kept, InTurn, NoneBefore
    <3>2. \A j \in 1..Len(events') : events'[j].a = events[i].a => j \in 1..Len(events)
      BY <1>1, <3>1
    <3> QED BY <1>1, <3>1, <3>2 DEF Before
  <2>2. CASE i = Len(events) + 1
    <3>1. \A j \in 1..Len(events) : events'[j].a = a => events'[j].do \notin Pending
      BY <1>1 DEF NoneBefore
    <3>2. events'[i] = e /\ e.do # "stop" /\ \A j \in 1..Len(events') : j # i => j \in 1..Len(events) /\ j < i
      BY <1>1, <2>2 DEF Pending, Requests
    <3>3. \A j \in 1..Len(events') : events'[j].a = e.a =>
             (events'[j].do \in Pending => j = i) /\ (events'[j].do = "stop" => j < i)
      BY <3>1, <3>2
    <3> QED BY <3>2, <3>3 DEF Before
  <2> QED BY <1>1, <1>2, <2>1, <2>2
<1>3. ASSUME NEW b \in Agents \ {a}, Nothing(b) PROVE Nothing(b)'
  BY <1>1, <1>3 DEF Nothing
<1> QED BY <1>2, <1>3 DEF InTurn

(* And when the window takes what is first. *)
LEMMA OrderTaken ==
  ASSUME Kept, events # << >>, events' = Tail(events), UNCHANGED <<talk, req>>,
         \/ window' = window /\ back' = back
         \/ /\ Head(events).do \in Pending /\ window' \in {window, Head(events).a}
            /\ \A b \in Agents \ {Head(events).a} : back'[b] = back[b]
  PROVE  /\ InTurn' /\ \A b \in Agents : Nothing(b) => Nothing(b)'
         /\ Head(events).do \in Pending =>
              /\ Head(events).a \in Agents /\ Before(1)
              /\ \A b \in Agents : b = Head(events).a => Nothing(b)'
<1>1. /\ Len(events') = Len(events) - 1 /\ Len(events) \in Nat \ {0} /\ Head(events) = events[1]
      /\ \A i \in 1..Len(events) - 1 : events'[i] = events[i + 1]
  BY Taken DEF Kept
<1>2. Head(events).do \in Pending => Before(1)
  BY <1>1 DEF Kept, InTurn
<1>3. ASSUME NEW i \in 1..Len(events'), events'[i].do \in Pending PROVE Before(i)'
  <2>1. i + 1 \in 1..Len(events) /\ events'[i] = events[i + 1] /\ Before(i + 1)
    BY <1>1, <1>3 DEF Kept, InTurn
  <2>2. Head(events).do \in Pending => events[i + 1].a # Head(events).a
    BY <1>1, <1>2, <2>1, <1>3 DEF Before
  <2>3. \A j \in 1..Len(events') : j + 1 \in 1..Len(events) /\ events'[j] = events[j + 1]
    BY <1>1
  <2>4. back'[events[i + 1].a] = none /\ window' # events[i + 1].a
    BY <2>1, <2>2 DEF Before
  <2> QED BY <2>1, <2>3, <2>4 DEF Before
<1>4. ASSUME NEW b \in Agents, Nothing(b) PROVE Nothing(b)'
  BY <1>1, <1>4 DEF Nothing
<1>5. ASSUME Head(events).do \in Pending, NEW b \in Agents, b = Head(events).a PROVE Nothing(b)'
  <2> SUFFICES ASSUME NEW j \in 1..Len(events'), events'[j].a = b
               PROVE  events'[j].do \notin Pending /\ events'[j].do # "stop"
    BY DEF Nothing
  <2>1. j + 1 \in 1..Len(events) /\ events'[j] = events[j + 1] /\ j + 1 # 1 /\ ~(j + 1 < 1)
    BY <1>1
  <2> QED BY <1>1, <1>2, <1>5, <2>1 DEF Before
<1>6. InTurn'
  BY <1>3 DEF InTurn
<1>7. Head(events).do \in Pending => Head(events).a \in Agents
  BY <1>1, <1>2 DEF Before
<1> QED BY <1>2, <1>4, <1>5, <1>6, <1>7

LEMMA InitKept == Init => Kept
<1> SUFFICES ASSUME Init PROVE Kept
  OBVIOUS
<1>1. Len(events) = 0 /\ events = << >> /\ Len(hand) = 0 /\ hand \in Seq(Handovers) /\ events \in Seq(Events)
  BY DEF Init
<1>2. window = "free" /\ window \notin Agents
  BY AgentsAssumption DEF Init
<1>3. TypeOK
  <2>1. /\ open \subseteq Panes /\ gone \subseteq Panes /\ ending \subseteq Panes
        /\ next = 0 /\ share = 0 /\ by \in [Panes -> {0}] /\ kept \in Shown
    BY NumbersAssumption DEF Init, Shown
  <2>2. /\ working \in Nat /\ window \in {"free", "closing"} \cup Agents
        /\ secret \in [Panes -> Agents \cup {none}]
        /\ server \in {"none", "up", "closed"} /\ accept \in {"over", "accepting", "failed"}
        /\ talking \subseteq Agents /\ sock \subseteq Agents
    BY DEF Init
  <2>3. /\ talk \in [Agents -> Stages]
        /\ held \in [Agents -> SUBSET Nat]
        /\ req \in [Agents -> Asking]
        /\ back \in [Agents -> Answers]
    BY NoReqType DEF Init
  <2>4. 0..0 = {0} /\ 0 \in Nat
    OBVIOUS
  <2>5. by \in [Panes -> 0..next] /\ next \in Nat /\ share \in 0..next
    BY <2>1, <2>4
  <2> QED BY <1>1, <2>1, <2>2, <2>3, <2>5 DEF TypeOK
<1>4. Sharing /\ Secrets
  <2>1. /\ share = 0 /\ server = "none" /\ window = "free" /\ open \subseteq Panes
        /\ \A p \in Panes : by[p] = 0 /\ secret[p] = none
    BY NumbersAssumption DEF Init
  <2> QED BY <2>1 DEF Sharing, Secrets
<1>5. InTurn /\ Looking
  BY <1>1, <1>2 DEF InTurn, Looking
<1>6. \A a \in Agents : Asked(a) /\ Standing(a)
  BY DEF Init, Asked, Standing, none
<1> QED BY <1>3, <1>4, <1>5, <1>6 DEF Kept

(* What a step leaves alone, the parts about it keep. *)
LEMMA PanesKept ==
  ASSUME Kept, UNCHANGED <<panes, by, hand, share, server, window, secret>>
  PROVE  Sharing' /\ Secrets'
  BY DEF Kept, Sharing, Secrets, panes

LEMMA LookingKept ==
  ASSUME Kept, UNCHANGED <<open, by, hand, window>>,
         window \in Agents => /\ talk'[window] = talk[window] /\ back'[window] = back[window]
                              /\ req'[window] = req[window] /\ (Nothing(window) => Nothing(window)')
  PROVE  Looking'
<1> SUFFICES ASSUME window' \in Agents PROVE Looking'
  BY DEF Looking
<1>1. /\ talk[window] = "asked" /\ back[window] = none /\ Nothing(window)
      /\ hand[req[window].n].pane \in open /\ by[hand[req[window].n].pane] # 0
  BY DEF Kept, Looking
<1>2. open' = open /\ window' = window
  OBVIOUS
<1> DEFINE w == window
<1>3. w \in Agents /\ Nothing(w)
  BY <1>1, <1>2
<1> QED BY <1>1, <1>2 DEF Looking, Nothing

(* The goroutine of one agent goes on, and perhaps posts what is no request. *)
LEMMA TalkKept ==
  ASSUME Kept, NEW a \in Agents, TypeOK', NoneBefore(a), UNCHANGED <<panes, handed, window, server, secret>>,
         \A b \in Agents \ {a} : talk'[b] = talk[b] /\ back'[b] = back[b] /\ req'[b] = req[b],
         \/ events' = events
         \/ \E e \in Events : Post(e) /\ e.do \notin Pending /\ e.a = a,
         window # a, back'[a] # "asked", Asked(a)'
  PROVE  Kept'
<1>1. InTurn' /\ \A b \in Agents \ {a} : Nothing(b) => Nothing(b)'
  BY OrderKept
<1>2. Sharing' /\ Secrets'
  BY PanesKept DEF handed
<1>3. Looking'
  BY <1>1, LookingKept DEF handed, panes
<1>4. \A b \in Agents : Asked(b)'
  BY DEF Kept, Asked, handed
<1>5. \A b \in Agents : Standing(b)'
  BY <1>1 DEF Kept, Standing
<1> QED BY <1>1, <1>2, <1>3, <1>4, <1>5 DEF Kept

LEMMA AgentKept ==
  ASSUME Kept, NEW a \in Agents,
         \/ Accepts(a) \/ HangsUp(a) \/ Used(a) \/ Refused(a) \/ AskIsOver(a) \/ Leaves(a) \/ Left(a)
  PROVE  Kept'
<1>1. UNCHANGED <<panes, handed, window, server, secret, accept>> /\ TypeOK /\ a \in Agents \cup {none}
  BY DEF Accepts, HangsUp, Used, Refused, AskIsOver, Leaves, Left, Kept, taking
<1>2. /\ talk[a] \in {"away", "ready", "leaving"} \/ (talk[a] \in {"asked", "handing"} /\ back[a] # none)
  BY DEF Accepts, HangsUp, Used, Refused, AskIsOver, Leaves, Left, none
<1>3. NoneBefore(a)
  BY <1>2, NotBefore DEF Kept
<1>4. window # a
  <2> SUFFICES ASSUME window = a PROVE FALSE
    OBVIOUS
  <2>1. talk[a] = "asked" /\ back[a] = none
    BY DEF Kept, Looking
  <2> QED BY <1>2, <2>1
<1>5. req[a].n \in Nat /\ NoReq \in Asking
  BY <1>1, PartsOfAsking, NoReqType
<1>6. /\ Accepts(a) \/ HangsUp(a) \/ Leaves(a) => UNCHANGED <<req, back, held, events>>
      /\ Accepts(a) => talk' \in [Agents -> Stages]
  BY <1>1 DEF Accepts, HangsUp, Leaves, TypeOK
<1>7. CASE Accepts(a)
  <2>1. /\ \A b \in Agents \ {a} : talk'[b] = talk[b]
        /\ talk'[a] \in {"ready", "leaving", "over"}
    BY <1>1, <1>7 DEF Accepts, TypeOK
  <2>2. TypeOK'
    BY <1>1, <1>6, <1>7 DEF TypeOK, Accepts, panes, handed
  <2>3. back'[a] = none /\ back'[a] # "asked"
    BY <1>6, <1>7 DEF Kept, Asked, Accepts, none
  <2>4. Asked(a)'
    BY <2>1, <2>3 DEF Asked
  <2> QED BY <1>1, <1>3, <1>4, <1>6, <1>7, <2>1, <2>2, <2>3, <2>4, TalkKept
<1>8. CASE HangsUp(a) \/ Leaves(a)
  <2>0. talk[a] = "ready" /\ To(a, "leaving") /\ back[a] # "asked"
    BY <1>8 DEF Kept, HangsUp, Leaves, Standing
  <2>1. /\ \A b \in Agents \ {a} : talk'[b] = talk[b]
        /\ talk' \in [Agents -> Stages]
        /\ talk'[a] = "leaving" /\ back[a] # "asked"
    BY <1>1, <2>0 DEF TypeOK, To
  <2>2. TypeOK'
    BY <1>1, <1>6, <1>8, <2>1 DEF TypeOK, HangsUp, Leaves, panes, handed, taking
  <2> QED BY <1>1, <1>3, <1>4, <1>6, <1>8, <2>1, <2>2, TalkKept DEF Asked
<1>9. CASE Used(a) \/ Refused(a) \/ AskIsOver(a)
  <2>1. Ready(a)
    BY <1>9 DEF Used, Refused, AskIsOver
  <2>2. /\ \A b \in Agents \ {a} : talk'[b] = talk[b] /\ back'[b] = back[b] /\ req'[b] = req[b]
        /\ talk' \in [Agents -> Stages]
        /\ back' \in [Agents -> Answers]
        /\ req' \in [Agents -> Asking]
        /\ talk'[a] = "ready" /\ back'[a] = none
    BY <1>1, <1>5, <2>1 DEF Ready, To, TypeOK
  <2>3. held' \in [Agents -> SUBSET Nat]
    BY <1>1, <1>5, <1>9 DEF Used, Refused, AskIsOver, TypeOK
  <2>4. events' = events \/ \E e \in Events : Post(e) /\ e.do \notin Pending /\ e.a = a
    <3>1. events' = events \/ Post(Event("using", a, req[a].n)) \/ Post(Event("stop", a, req[a].n))
      BY <1>9 DEF Used, Refused, AskIsOver
    <3>2. /\ Event("using", a, req[a].n) \in Events
          /\ Event("using", a, req[a].n).do = "using" /\ Event("using", a, req[a].n).a = a
          /\ Event("stop", a, req[a].n) \in Events
          /\ Event("stop", a, req[a].n).do = "stop" /\ Event("stop", a, req[a].n).a = a
      BY <1>1, <1>5, EventIs
    <3>3. "using" \notin Pending /\ "stop" \notin Pending
      BY DEF Pending, Requests
    <3> QED BY <3>1, <3>2, <3>3
  <2>5. events' \in Seq(Events)
    BY <1>1, <2>4, Posted DEF TypeOK
  <2>6. TypeOK'
    BY <1>1, <1>9, <2>2, <2>3, <2>5 DEF TypeOK, Used, Refused, AskIsOver, panes, handed, taking
  <2>7. back'[a] # "asked" /\ Asked(a)'
    BY <2>2 DEF Asked, none
  <2> QED BY <1>1, <1>3, <1>4, <2>2, <2>4, <2>6, <2>7, TalkKept
<1>10. CASE Left(a)
  <2>1. UNCHANGED <<req, back>> /\ back[a] # "asked"
    BY <1>10 DEF Left, Kept, Standing
  <2>2. CASE held[a] = {}
    <3>1. /\ \A b \in Agents \ {a} : talk'[b] = talk[b]
          /\ talk' \in [Agents -> Stages]
          /\ talk'[a] = "over" /\ UNCHANGED <<held, events>>
      BY <1>1, <1>10, <2>2 DEF Left, TypeOK, To
    <3>2. TypeOK'
      BY <1>1, <1>10, <2>1, <2>2, <3>1 DEF TypeOK, Left, panes, handed
    <3>3. Asked(a)'
      BY <3>1 DEF Asked
    <3> QED BY <1>1, <1>3, <1>4, <2>1, <3>1, <3>2, <3>3, TalkKept
  <2>3. CASE held[a] # {}
    <3>1. PICK id \in held[a] : Post(Event("leaving", a, id)) /\ held' = [held EXCEPT ![a] = @ \ {id}]
      BY <1>10, <2>3 DEF Left
    <3>2. UNCHANGED <<talk, talking, sock>> /\ id \in Nat
      BY <1>1, <1>10, <2>3 DEF Left, TypeOK
    <3>3. /\ Event("leaving", a, id) \in Events /\ Event("leaving", a, id).do = "leaving"
          /\ Event("leaving", a, id).a = a /\ "leaving" \notin Pending
      BY <1>1, <3>2, EventIs DEF Pending, Requests
    <3>4. events' \in Seq(Events)
      BY <1>1, <3>1, <3>3, Posted
    <3>5. TypeOK'
      BY <1>1, <2>1, <3>1, <3>2, <3>4 DEF TypeOK, panes, handed
    <3>6. Asked(a)'
      BY <1>10, <3>2 DEF Asked, Left
    <3> QED BY <1>1, <1>3, <1>4, <2>1, <3>1, <3>2, <3>3, <3>5, <3>6, TalkKept
  <2> QED BY <2>2, <2>3
<1> QED BY <1>7, <1>8, <1>9, <1>10

(* What the asks and the talks of the agents rest on is left alone. *)
LEMMA TalksStand ==
  ASSUME Kept, UNCHANGED <<events, talk, req, back, secret>>, next' \in Nat, next' >= next,
         window' = window \/ window' \notin Agents
  PROVE  InTurn' /\ \A a \in Agents : Asked(a)' /\ Standing(a)'
<1>1. InTurn'
  BY DEF Kept, InTurn, Before
<1>2. next \in Nat
  BY DEF Kept, TypeOK
<1>3. ASSUME NEW a \in Agents PROVE Asked(a)' /\ Standing(a)'
  <2>1. Asked(a) /\ Standing(a)
    BY DEF Kept
  <2> QED BY <1>2, <2>1 DEF Asked, Standing, Nothing
<1> QED BY <1>1, <1>3

(* The asks of some panes end: those that waited on them are told. *)
LEMMA AsksEnded ==
  ASSUME Kept, NEW ps \in SUBSET Panes, EndAsks(ps), UNCHANGED <<events, talk, req, next>>,
         window' = window \/ window' \notin Agents
  PROVE  /\ secret' \in [Panes -> Agents \cup {none}]
         /\ back' \in [Agents -> Answers]
         /\ \A p \in Panes : secret'[p] = IF p \in ps THEN none ELSE secret[p]
         /\ \A a \in Agents : back[a] = none => back'[a] = none
         /\ InTurn' /\ \A a \in Agents : Asked(a)' /\ Standing(a)'
<1>1. /\ secret \in [Panes -> Agents \cup {none}]
      /\ back \in [Agents -> Answers]
  BY DEF Kept, TypeOK
<1>2. /\ secret' \in [Panes -> Agents \cup {none}]
      /\ \A p \in Panes : secret'[p] = IF p \in ps THEN none ELSE secret[p]
  BY <1>1 DEF EndAsks
<1>3. back' \in [Agents -> Answers]
  BY <1>1 DEF EndAsks
<1>4. /\ \A a \in Agents : back'[a] = back[a] \/ (back[a] = "asked" /\ back'[a] = "unanswered")
      /\ \A a \in Agents : back'[a] = "asked" => back[a] = "asked" /\ \A p \in ps : secret[p] # a
  BY <1>1 DEF EndAsks
<1>5. \A a \in Agents : back[a] = none => back'[a] = none
  BY <1>4 DEF none
<1>6. InTurn'
  BY <1>5 DEF Kept, InTurn, Before
<1>7. ASSUME NEW a \in Agents PROVE Asked(a)' /\ Standing(a)'
  <2>1. Asked(a) /\ Standing(a)
    BY DEF Kept
  <2>2. Asked(a)'
    BY <1>5, <2>1 DEF Asked
  <2>3. Standing(a)'
    BY <1>2, <1>4, <2>1 DEF Standing, Nothing
  <2> QED BY <2>2, <2>3
<1> QED BY <1>2, <1>3, <1>5, <1>6, <1>7

(* The user takes panes out of the share, or closes one. *)
LEMMA DropKept ==
  ASSUME Kept, NEW ps \in SUBSET Panes, window = "free", Drop(ps),
         open' \subseteq open, gone \subseteq gone', open \ open' \subseteq gone',
         gone' \subseteq Panes, ending' \subseteq Panes
  PROVE  Kept'
<1>1. /\ UNCHANGED <<hand, working, next, kept, events, accept, errors, talking, talk, held, req>>
      /\ TypeOK /\ window \notin Agents /\ window' \in {"free", "closing"} /\ window' \notin Agents
  BY AgentsAssumption DEF Kept, Drop
<1>2. EndAsks(ps \cap open') /\ ps \cap open' \in SUBSET Panes
  BY DEF Drop
<1>3. /\ secret' \in [Panes -> Agents \cup {none}]
      /\ back' \in [Agents -> Answers]
      /\ \A p \in Panes : secret'[p] = IF p \in ps \cap open' THEN none ELSE secret[p]
      /\ InTurn' /\ \A a \in Agents : Asked(a)' /\ Standing(a)'
  BY <1>1, <1>2, AsksEnded
<1>4. 0 \in 0..next /\ next \in Nat /\ by \in [Panes -> 0..next] /\ open \subseteq Panes
  BY <1>1 DEF TypeOK
<1>5. /\ by' \in [Panes -> 0..next]
      /\ \A p \in Panes : by'[p] = IF p \in ps THEN 0 ELSE by[p]
  BY <1>4 DEF Drop
<1>6. Sharing'
  BY <1>5 DEF Kept, Sharing, Drop
<1>7. Secrets'
  BY <1>3, <1>4, <1>5 DEF Kept, Secrets
<1>8. Looking'
  BY <1>1 DEF Looking
<1>9. share' \in 0..next /\ server' \in {"none", "up", "closed"} /\ sock' \subseteq Agents
  BY <1>1, <1>4 DEF TypeOK, Drop
<1>10. TypeOK'
  BY <1>1, <1>3, <1>4, <1>5, <1>9 DEF TypeOK
<1> QED BY <1>3, <1>6, <1>7, <1>8, <1>10 DEF Kept

LEMMA CloseKept ==
  ASSUME Kept, NEW p \in Panes, window = "free", ClosePane(p)
  PROVE  Kept'
<1>1. /\ open' \subseteq open /\ gone \subseteq gone' /\ open \ open' \subseteq gone'
      /\ gone' \subseteq Panes /\ ending' \subseteq Panes /\ p \in open
  BY DEF ClosePane, Kept, TypeOK
<1>2. CASE by[p] # 0
  <2>1. Drop({p} \cup Opened(p)) /\ {p} \cup Opened(p) \in SUBSET Panes
    BY <1>2 DEF ClosePane, Opened
  <2> QED BY <1>1, <2>1, DropKept
<1>3. CASE by[p] = 0
  <2>1. UNCHANGED <<handed, window, events, secret, taking, talks>> /\ window \notin Agents
    BY <1>3, AgentsAssumption DEF ClosePane
  <2>2. next \in Nat /\ next' >= next
    BY <2>1 DEF Kept, TypeOK, handed
  <2>3. InTurn' /\ \A a \in Agents : Asked(a)' /\ Standing(a)'
    BY <2>1, <2>2, TalksStand DEF handed, talks
  <2>4. Sharing'
    BY <2>1 DEF Kept, Sharing, handed, taking
  <2>5. Secrets'
    BY <1>1, <1>3, <2>1 DEF Kept, Secrets, handed
  <2>6. Looking'
    BY <2>1 DEF Looking
  <2>7. TypeOK'
    BY <1>1, <2>1 DEF Kept, TypeOK, handed, taking, talks
  <2> QED BY <2>3, <2>4, <2>5, <2>6, <2>7 DEF Kept
<1> QED BY <1>2, <1>3

LEMMA ShareKept ==
  ASSUME Kept, NEW p \in Panes, window = "free", SharePane(p)
  PROVE  Kept'
<1> DEFINE id == IF share = 0 THEN next + 1 ELSE share
           n == IF share = 0 THEN next + 2 ELSE next + 1
           entry == [pane |-> p, share |-> id, from |-> 0, may |-> kept]
<1>1. /\ UNCHANGED <<panes, kept, window, events, secret, errors, talking, talks>>
      /\ TypeOK /\ window \notin Agents /\ p \in open /\ by[p] = 0
      /\ server' = "up" /\ accept' \in {accept, "accepting"}
      /\ share' = id /\ next' = n /\ by' = [by EXCEPT ![p] = n]
      /\ hand' = (IF share = 0 THEN hand \o <<entry, entry>> ELSE Append(hand, entry))
      /\ working' \in {0, working}
  BY AgentsAssumption DEF Kept, SharePane
<1>2. next \in Nat /\ share \in 0..next /\ by \in [Panes -> 0..next] /\ kept \in Shown
      /\ hand \in Seq(Handovers) /\ Len(hand) = next
  BY <1>1 DEF TypeOK
<1>3. /\ n \in Nat /\ n # 0 /\ n >= next /\ id \in 1..n /\ 0..next \subseteq 0..n /\ n \in 0..n
      /\ id \in Nat \ {0}
  BY <1>2
<1>4. entry \in Handovers
  BY <1>2, <1>3 DEF Handovers
<1> HIDE DEF entry
<1>5. hand' \in Seq(Handovers) /\ Len(hand') = n
  BY <1>1, <1>2, <1>4
<1> HIDE DEF id, n
<1>6. /\ by' \in [Panes -> 0..n] /\ by'[p] = n
      /\ \A q \in Panes : by[q] # 0 => by'[q] # 0
  BY <1>1, <1>2, <1>3
<1>7. Sharing'
  BY <1>1, <1>3, <1>6 DEF Sharing
<1>8. Secrets'
  <2>1. UNCHANGED <<open, gone, secret>> /\ open \subseteq Panes
    BY <1>1 DEF panes, TypeOK
  <2> QED BY <1>6, <2>1 DEF Kept, Secrets
<1>9. Looking'
  BY <1>1 DEF Looking
<1>10. InTurn' /\ \A a \in Agents : Asked(a)' /\ Standing(a)'
  BY <1>1, <1>3, TalksStand DEF talks
<1>11. working' \in Nat /\ share' \in 0..n
  BY <1>1, <1>3 DEF TypeOK
<1>12. TypeOK'
  BY <1>1, <1>3, <1>5, <1>6, <1>11 DEF TypeOK, panes, talks
<1> QED BY <1>7, <1>8, <1>9, <1>10, <1>12 DEF Kept

(* Another hand-over's boxes, or where it came from, are changed. *)
LEMMA HandoverChanged ==
  ASSUME TypeOK, NEW n \in 1..next, NEW h \in Handovers, hand' = [hand EXCEPT ![n] = h], next' = next
  PROVE  hand' \in Seq(Handovers) /\ Len(hand') = next'
<1>1. hand \in Seq(Handovers) /\ Len(hand) = next
  BY DEF TypeOK
<1> QED BY <1>1, ExceptSeq

LEMMA MayKept ==
  ASSUME Kept, NEW p \in Panes, window = "free", SetAgentMay(p)
  PROVE  Kept'
<1>1. /\ UNCHANGED <<panes, by, share, working, next, window, events, secret, taking, talks>>
      /\ by[p] # 0 /\ window \notin Agents /\ TypeOK
  BY AgentsAssumption DEF SetAgentMay, Kept
<1>2. by[p] \in 1..next /\ next \in Nat
  BY <1>1 DEF TypeOK
<1>3. PICK may \in {{}, {"more", "ro"}} : kept' = may /\ hand' = [hand EXCEPT ![by[p]].may = may]
  BY DEF SetAgentMay
<1> DEFINE h == [hand[by[p]] EXCEPT !.may = may]
<1>4. hand[by[p]] \in Handovers /\ may \in Shown
  BY <1>1, <1>2, PartsOfHandover DEF Shown
<1>5. h \in Handovers
  BY <1>4, Zenon DEF Handovers
<1>6. hand' = [hand EXCEPT ![by[p]] = h]
  BY <1>3, Zenon
<1> HIDE DEF h
<1>7. hand' \in Seq(Handovers) /\ Len(hand') = next'
  BY <1>1, <1>2, <1>5, <1>6, HandoverChanged
<1>8. TypeOK'
  BY <1>1, <1>3, <1>4, <1>7 DEF TypeOK, panes, taking, talks
<1>9. Sharing' /\ Secrets' /\ Looking'
  BY <1>1 DEF Kept, Sharing, Secrets, Looking, panes, taking
<1>10. InTurn' /\ \A a \in Agents : Asked(a)' /\ Standing(a)'
  BY <1>1, <1>2, TalksStand DEF talks
<1> QED BY <1>8, <1>9, <1>10 DEF Kept

LEMMA UserKept ==
  ASSUME Kept, UserDoes
  PROVE  Kept'
<1>1. window = "free"
  BY DEF UserDoes
<1>2. ASSUME NEW ps \in SUBSET Panes, UNCHANGED panes, Drop(ps) PROVE Kept'
  <2>1. UNCHANGED <<open, gone, ending>> /\ gone \subseteq Panes /\ ending \subseteq Panes
    BY <1>2 DEF Kept, TypeOK, panes
  <2> QED BY <1>1, <1>2, <2>1, DropKept
<1>3. ASSUME NEW p \in Panes, UnsharePane(p) PROVE Kept'
  <2>1. {p} \cup Opened(p) \in SUBSET Panes
    BY DEF Opened
  <2> QED BY <1>2, <1>3, <2>1 DEF UnsharePane
<1>4. CASE StopSharing
  <2>1. {p \in Panes : by[p] # 0} \in SUBSET Panes
    OBVIOUS
  <2> QED BY <1>2, <1>4, <2>1 DEF StopSharing
<1> QED BY <1>1, <1>3, <1>4, CloseKept, ShareKept, MayKept DEF UserDoes

LEMMA AsksKept ==
  ASSUME Kept, NEW a \in Agents, Asks(a)
  PROVE  Kept'
<1>1. /\ UNCHANGED <<panes, handed, window, secret, taking, sock, held, back>> /\ TypeOK
      /\ talk[a] = "ready" /\ back[a] = none /\ To(a, "asked")
  BY DEF Asks, Kept, Asked
<1>2. PICK do \in Requests, n \in 1..next :
        req' = [req EXCEPT ![a] = [do |-> do, n |-> n, pane |-> hand[n].pane]] /\ Post(Event(do, a, n))
  BY DEF Asks, Requests
<1>3. next \in Nat /\ n \in Nat /\ hand[n].pane \in Panes
  BY <1>1, PartsOfHandover DEF TypeOK
<1> DEFINE r == [do |-> do, n |-> n, pane |-> hand[n].pane]
           e == Event(do, a, n)
<1>4. r \in Asking /\ r.n = n /\ r.pane \in Panes /\ req' = [req EXCEPT ![a] = r]
  BY <1>2, <1>3 DEF Asking
<1>5. /\ e \in Events /\ e.do = do /\ e.a = a /\ e.n = n /\ Post(e)
      /\ do \in Pending /\ do # "hand"
  BY <1>2, <1>3, EventIs DEF Pending, Requests
<1> HIDE DEF r, e
<1>6. /\ req' \in [Agents -> Asking] /\ req'[a] = r
      /\ talk' \in [Agents -> Stages]
      /\ talk'[a] = "asked"
      /\ \A b \in Agents \ {a} : talk'[b] = talk[b] /\ req'[b] = req[b] /\ back'[b] = back[b]
  BY <1>1, <1>4 DEF TypeOK, To
<1>7. NoneBefore(a) /\ window # a /\ window' = window
  BY <1>1, NotBefore DEF Kept, Looking
<1>8. InTurn' /\ \A b \in Agents \ {a} : Nothing(b) => Nothing(b)'
  BY <1>1, <1>4, <1>5, <1>6, <1>7, OrderOfRequest
<1>9. Sharing' /\ Secrets'
  BY <1>1, PanesKept DEF handed, taking
<1>10. Looking'
  BY <1>1, <1>6, <1>7, <1>8, LookingKept DEF handed, panes
<1>11. events' \in Seq(Events)
  BY <1>1, <1>5, Posted
<1>12. TypeOK'
  BY <1>1, <1>6, <1>11 DEF TypeOK, panes, handed, taking
<1>13. ASSUME NEW b \in Agents PROVE Asked(b)' /\ Standing(b)'
  <2>1. CASE b = a
    BY <1>1, <1>3, <1>4, <1>6, <2>1 DEF Asked, Standing, handed, none
  <2>2. CASE b # a
    <3>1. Asked(b) /\ Standing(b)
      BY DEF Kept
    <3> QED BY <1>1, <1>6, <1>8, <2>2, <3>1 DEF Asked, Standing, handed
  <2> QED BY <2>1, <2>2
<1> QED BY <1>8, <1>9, <1>10, <1>12, <1>13 DEF Kept

LEMMA HandsKept ==
  ASSUME Kept, NEW a \in Agents, Hands(a)
  PROVE  Kept'
<1>1. /\ UNCHANGED <<panes, handed, window, secret, taking, sock, held, req>> /\ TypeOK
      /\ talk[a] = "opened" /\ To(a, "handing") /\ back' = [back EXCEPT ![a] = none]
      /\ Post(Event("hand", a, req[a].n))
  BY DEF Hands, Kept
<1>2. req[a].n \in Nat
  BY <1>1, PartsOfAsking
<1> DEFINE e == Event("hand", a, req[a].n)
<1>3. e \in Events /\ e.do = "hand" /\ e.a = a /\ e.n = req[a].n /\ Post(e) /\ "hand" \in Pending
  BY <1>1, <1>2, EventIs DEF Pending
<1> HIDE DEF e
<1>4. /\ back' \in [Agents -> Answers]
      /\ back'[a] = none
      /\ talk' \in [Agents -> Stages]
      /\ talk'[a] = "handing"
      /\ \A b \in Agents \ {a} : talk'[b] = talk[b] /\ req'[b] = req[b] /\ back'[b] = back[b]
  BY <1>1 DEF TypeOK, To
<1>5. NoneBefore(a) /\ window # a /\ window' = window
  BY <1>1, NotBefore DEF Kept, Looking
<1>6. InTurn' /\ \A b \in Agents \ {a} : Nothing(b) => Nothing(b)'
  BY <1>1, <1>3, <1>4, <1>5, OrderOfRequest
<1>7. Sharing' /\ Secrets'
  BY <1>1, PanesKept DEF handed, taking
<1>8. Looking'
  BY <1>1, <1>4, <1>5, <1>6, LookingKept DEF handed, panes
<1>9. events' \in Seq(Events)
  BY <1>1, <1>3, Posted
<1>10. TypeOK'
  BY <1>1, <1>4, <1>9 DEF TypeOK, panes, handed, taking
<1>11. ASSUME NEW b \in Agents PROVE Asked(b)' /\ Standing(b)'
  <2>0. Asked(b) /\ Standing(b)
    BY DEF Kept
  <2>1. CASE b = a
    BY <1>1, <1>4, <2>0, <2>1 DEF Asked, Standing, handed, none
  <2>2. CASE b # a
    BY <1>1, <1>4, <1>6, <2>0, <2>2 DEF Asked, Standing, handed
  <2> QED BY <2>1, <2>2
<1> QED BY <1>6, <1>7, <1>8, <1>10, <1>11 DEF Kept

LEMMA OpensKept ==
  ASSUME Kept, NEW a \in Agents, PaneOpens(a)
  PROVE  Kept'
<1>1. /\ UNCHANGED <<gone, ending, handed, window, events, secret, taking, sock, held>> /\ TypeOK
      /\ talk[a] = "asked" /\ back[a] = "opening" /\ window = "free" /\ window \notin Agents
  BY AgentsAssumption DEF PaneOpens, Kept
<1>2. NoneBefore(a) /\ a \in Agents \cup {none}
  BY <1>1, NotBefore DEF Kept, none
<1>3. ASSUME NEW p \in Panes \ (First \cup open), p \notin gone,
             open' = open \cup {p}, req' = [req EXCEPT ![a].pane = p], To(a, "opened"), UNCHANGED back
      PROVE  Kept'
  <2> DEFINE r == [req[a] EXCEPT !.pane = p]
  <2>1. req[a] \in Asking /\ Asked(a)
    BY <1>1, PartsOfAsking DEF Kept
  <2>2. r \in Asking /\ r.n = req[a].n /\ r.pane = p
    BY <2>1, Zenon DEF Asking
  <2>3. req' = [req EXCEPT ![a] = r]
    BY <1>3, Zenon
  <2> HIDE DEF r
  <2>4. /\ req' \in [Agents -> Asking] /\ req'[a] = r
        /\ talk' \in [Agents -> Stages]
        /\ talk'[a] = "opened"
        /\ \A b \in Agents \ {a} : talk'[b] = talk[b] /\ req'[b] = req[b] /\ back'[b] = back[b]
    BY <1>1, <1>3, <2>2, <2>3 DEF TypeOK, To
  <2>5. InTurn' /\ \A b \in Agents \ {a} : Nothing(b) => Nothing(b)'
    BY <1>1, <1>2, <2>4, OrderKept
  <2>6. Sharing'
    BY <1>1 DEF Kept, Sharing, handed, taking
  <2>7. Secrets'
    BY <1>1, <1>3 DEF Kept, Secrets, handed
  <2>8. Looking'
    BY <1>1 DEF Looking
  <2>9. TypeOK'
    BY <1>1, <1>3, <2>4 DEF TypeOK, handed, taking
  <2>10. ASSUME NEW b \in Agents PROVE Asked(b)' /\ Standing(b)'
    <3>0. Asked(b) /\ Standing(b)
      BY DEF Kept
    <3>1. CASE b = a
      BY <1>1, <1>3, <2>1, <2>2, <2>4, <3>0, <3>1 DEF Asked, Standing, handed
    <3>2. CASE b # a
      BY <1>1, <2>4, <2>5, <3>0, <3>2 DEF Asked, Standing, handed
    <3> QED BY <3>1, <3>2
  <2> QED BY <2>5, <2>6, <2>7, <2>8, <2>9, <2>10 DEF Kept
<1>4. ASSUME Ready(a), UNCHANGED open PROVE Kept'
  <2>1. NoReq \in Asking
    BY NoReqType
  <2>2. /\ \A b \in Agents \ {a} : talk'[b] = talk[b] /\ back'[b] = back[b] /\ req'[b] = req[b]
        /\ talk' \in [Agents -> Stages]
        /\ back' \in [Agents -> Answers]
        /\ req' \in [Agents -> Asking]
        /\ talk'[a] = "ready" /\ back'[a] = none
    BY <1>1, <1>4, <2>1 DEF Ready, To, TypeOK
  <2>3. TypeOK'
    BY <1>1, <1>4, <2>2 DEF TypeOK, handed, taking
  <2>4. Asked(a)' /\ back'[a] # "asked"
    BY <2>2 DEF Asked, none
  <2> QED BY <1>1, <1>2, <1>4, <2>2, <2>3, <2>4, TalkKept DEF panes, taking
<1> QED BY <1>3, <1>4 DEF PaneOpens

(* What the window takes, and whom it is from. *)
LEMMA TakesWhat ==
  ASSUME Kept, NEW do, Takes(do)
  PROVE  /\ window = "free" /\ window \notin Agents /\ events # << >> /\ events' = Tail(events)
         /\ Head(events) = events[1] /\ Head(events).do = do /\ events' \in Seq(Events)
         /\ Head(events).a \in Agents \cup {none} /\ Head(events).n \in Nat
<1>1. window = "free" /\ events # << >> /\ events' = Tail(events) /\ Head(events).do = do /\ TypeOK
  BY DEF Takes, Kept
<1>2. /\ events' \in Seq(Events) /\ Len(events) \in Nat \ {0} /\ Head(events) = events[1]
  BY <1>1, Taken
<1>3. 1 \in 1..Len(events)
  BY <1>2
<1> QED BY <1>1, <1>2, <1>3, PartsOfEvent, AgentsAssumption

(* The window answers an agent, or begins to look at a pane for it. *)
LEMMA AnswerKept ==
  ASSUME Kept, NEW do \in Pending, Takes(do), UNCHANGED <<talk, req>>, NEW what,
         back' = [back EXCEPT ![Head(events).a] = what], what \in {"used", "refused", "opening", "handed"},
         window' = window
  PROVE  /\ InTurn' /\ \A b \in Agents : (next' >= next /\ secret' = secret => Standing(b)')
         /\ back' \in [Agents -> Answers]
         /\ \A b \in Agents : talk[b] \in {"away", "ready"} => back'[b] = none
<1> DEFINE a == Head(events).a
<1>1. /\ window = "free" /\ events # << >> /\ events' = Tail(events)
      /\ Head(events).do \in Pending /\ Head(events) = events[1]
  BY TakesWhat
<1>2. back \in [Agents -> Answers]
  BY DEF Kept, TypeOK
<1>3. /\ back' \in [Agents -> Answers]
      /\ \A b \in Agents \ {a} : back'[b] = back[b]
      /\ a \in Agents => back'[a] = what
  BY <1>2
<1>4. /\ InTurn' /\ \A b \in Agents : Nothing(b) => Nothing(b)'
      /\ a \in Agents /\ Before(1)
  BY <1>1, <1>3, OrderTaken
<1>5. talk[a] \in {"asked", "handing"}
  BY <1>1, <1>4 DEF Before
<1>6. ASSUME NEW b \in Agents, secret' = secret PROVE Standing(b)'
  <2>1. Standing(b)
    BY DEF Kept
  <2>2. CASE b = a
    BY <1>3, <1>4, <2>2 DEF Standing
  <2>3. CASE b # a
    BY <1>3, <1>4, <1>6, <2>1, <2>3 DEF Standing
  <2> QED BY <2>2, <2>3
<1>7. ASSUME NEW b \in Agents, talk[b] \in {"away", "ready"} PROVE back'[b] = none
  <2>1. b # a
    BY <1>5, <1>7
  <2> QED BY <1>3, <1>7, <2>1 DEF Kept, Asked
<1> QED BY <1>3, <1>4, <1>6, <1>7

LEMMA UseOrOpenKept ==
  ASSUME Kept, TakesUse \/ TakesOpen
  PROVE  Kept'
<1>1. /\ UNCHANGED <<panes, handed, window, secret, taking, sock, talk, held, req>> /\ TypeOK
  BY DEF TakesUse, TakesOpen, Kept
<1>2. PICK do \in {"use", "open"}, what \in {"used", "refused", "opening"} :
        Takes(do) /\ back' = [back EXCEPT ![Head(events).a] = what]
  BY DEF TakesUse, TakesOpen, Answer
<1>3. do \in Pending /\ what \in {"used", "refused", "opening", "handed"}
  BY DEF Pending, Requests
<1>4. next' >= next /\ UNCHANGED next
  BY <1>1 DEF handed, TypeOK
<1>5. /\ InTurn' /\ \A b \in Agents : Standing(b)'
      /\ back' \in [Agents -> Answers]
      /\ \A b \in Agents : talk[b] \in {"away", "ready"} => back'[b] = none
  BY <1>1, <1>2, <1>3, <1>4, AnswerKept
<1>6. \A b \in Agents : Asked(b)'
  BY <1>1, <1>4, <1>5 DEF Kept, Asked
<1>7. window \notin Agents /\ events' \in Seq(Events)
  BY <1>2, TakesWhat
<1>8. Looking'
  BY <1>1, <1>7 DEF Looking
<1>9. Sharing' /\ Secrets'
  BY <1>1, PanesKept DEF handed, taking
<1>10. TypeOK'
  BY <1>1, <1>5, <1>7 DEF TypeOK, panes, handed, taking
<1> QED BY <1>5, <1>6, <1>8, <1>9, <1>10 DEF Kept

LEMMA HandKept ==
  ASSUME Kept, TakesHand
  PROVE  Kept'
<1> DEFINE a == Head(events).a
           from == Head(events).n
           p == req[a].pane
<1>1. /\ UNCHANGED <<panes, share, working, kept, window, secret, taking, sock, talk, held, req>> /\ TypeOK
      /\ Takes("hand") /\ back' = [back EXCEPT ![a] = "handed"] /\ "hand" \in Pending
  BY DEF TakesHand, Answer, Kept, Pending
<1>2. /\ window = "free" /\ window \notin Agents /\ events # << >> /\ events' = Tail(events)
      /\ Head(events).do = "hand" /\ Head(events) = events[1] /\ events' \in Seq(Events)
  BY <1>1, TakesWhat
<1>3. a \in Agents /\ Before(1)
  <2>1. back \in [Agents -> Answers]
    BY <1>1 DEF TypeOK
  <2>2. \A b \in Agents \ {a} : back'[b] = back[b]
    BY <1>1, <2>1
  <2> QED BY <1>1, <1>2, <2>2, OrderTaken
<1>4. /\ talk[a] = "handing" /\ req[a].n = from
  BY <1>2, <1>3 DEF Before
<1>5. from \in 1..next /\ p \in Panes
  BY <1>3, <1>4 DEF Kept, Asked
<1>6. /\ next \in Nat /\ share \in 0..next /\ by \in [Panes -> 0..next] /\ kept \in Shown
      /\ hand \in Seq(Handovers) /\ Len(hand) = next /\ 0..next \subseteq 0..(next + 1)
  BY <1>1 DEF TypeOK
<1> HIDE DEF p
<1>7. \/ UNCHANGED <<by, hand, next>>
      \/ share = hand[from].share /\ HandInto(p, from)
  BY DEF TakesHand, p
<1>8. /\ next' \in Nat /\ next' >= next /\ 0..next \subseteq 0..next'
      /\ by' \in [Panes -> 0..next'] /\ hand' \in Seq(Handovers) /\ Len(hand') = next'
      /\ \A q \in Panes : by[q] # 0 => by'[q] # 0
      /\ (\E q \in Panes : by'[q] # 0) => (share # 0 \/ \E q \in Panes : by[q] # 0)
  <2>1. CASE UNCHANGED <<by, hand, next>>
    BY <1>6, <2>1
  <2>2. CASE share = hand[from].share /\ HandInto(p, from)
    <3>1. share # 0
      BY <1>1, <1>5, <2>2, PartsOfHandover
    <3>2. CASE by[p] # 0
      <4> DEFINE h == [hand[by[p]] EXCEPT !.from = from]
      <4>1. by[p] \in 1..next /\ from \in Nat
        BY <1>5, <1>6, <3>2
      <4>2. hand[by[p]] \in Handovers
        BY <1>1, <4>1, PartsOfHandover
      <4>3. h \in Handovers
        BY <4>1, <4>2, Zenon DEF Handovers
      <4>4. UNCHANGED <<by, next>> /\ hand' = [hand EXCEPT ![by[p]].from = from]
        BY <2>2, <3>2 DEF HandInto
      <4>5. hand' = [hand EXCEPT ![by[p]] = h]
        BY <4>4, Zenon
      <4> HIDE DEF h
      <4>6. hand' \in Seq(Handovers) /\ Len(hand') = next'
        BY <1>1, <4>1, <4>3, <4>4, <4>5, HandoverChanged
      <4> QED BY <1>6, <3>1, <4>4, <4>6
    <3>3. CASE by[p] = 0
      <4> DEFINE h == [pane |-> p, share |-> share, from |-> from, may |-> kept]
      <4>1. next' = next + 1 /\ hand' = Append(hand, h) /\ by' = [by EXCEPT ![p] = next + 1]
        BY <2>2, <3>3 DEF HandInto
      <4>2. h \in Handovers
        BY <1>5, <1>6, <3>1 DEF Handovers
      <4> HIDE DEF h
      <4>3. hand' \in Seq(Handovers) /\ Len(hand') = next'
        BY <1>6, <4>1, <4>2
      <4>4. by' \in [Panes -> 0..next'] /\ \A q \in Panes : by[q] # 0 => by'[q] # 0
        BY <1>5, <1>6, <4>1
      <4> QED BY <1>6, <3>1, <4>1, <4>3, <4>4
    <3> QED BY <1>5, <1>6, <3>2, <3>3
  <2> QED BY <1>7, <2>1, <2>2
<1>9. /\ InTurn' /\ \A b \in Agents : Standing(b)'
      /\ back' \in [Agents -> Answers]
      /\ \A b \in Agents : talk[b] \in {"away", "ready"} => back'[b] = none
  <2>1. "handed" \in {"used", "refused", "opening", "handed"}
    OBVIOUS
  <2> QED BY <1>1, <1>8, <2>1, AnswerKept
<1>10. \A b \in Agents : Asked(b)'
  BY <1>1, <1>6, <1>8, <1>9 DEF Kept, Asked
<1>11. Looking'
  BY <1>1, <1>2 DEF Looking
<1>12. Sharing'
  <2>1. UNCHANGED <<share, server, window>>
    BY <1>1 DEF taking
  <2> QED BY <1>8, <2>1 DEF Kept, Sharing
<1>13. Secrets'
  <2>1. UNCHANGED <<open, gone, secret>> /\ open \subseteq Panes
    BY <1>1 DEF panes, TypeOK
  <2> QED BY <1>8, <2>1 DEF Kept, Secrets
<1>14. TypeOK'
  <2>1. share' \in 0..next'
    BY <1>1, <1>6, <1>8
  <2> QED BY <1>1, <1>2, <1>8, <1>9, <2>1 DEF TypeOK, panes, taking
<1> QED BY <1>9, <1>10, <1>11, <1>12, <1>13, <1>14 DEF Kept

LEMMA SecretKept ==
  ASSUME Kept, TakesSecret
  PROVE  Kept'
<1> DEFINE a == Head(events).a
           n == Head(events).n
<1>1. /\ UNCHANGED <<panes, handed, secret, taking, sock, talk, held, req>> /\ TypeOK
      /\ Takes("secret") /\ "secret" \in Pending
  BY DEF TakesSecret, Kept, Pending, Requests
<1>2. /\ window = "free" /\ window \notin Agents /\ events # << >> /\ events' = Tail(events)
      /\ Head(events).do = "secret" /\ Head(events) = events[1] /\ events' \in Seq(Events)
  BY <1>1, TakesWhat
<1>3. CASE window' = a /\ UNCHANGED back /\ Given(n) /\ hand[n].pane \in open \ gone
  <2>1. /\ InTurn' /\ \A b \in Agents : Nothing(b) => Nothing(b)'
        /\ a \in Agents /\ Before(1) /\ \A b \in Agents : b = a => Nothing(b)'
    BY <1>1, <1>2, <1>3, OrderTaken
  <2>2. talk[a] = "asked" /\ back[a] = none /\ req[a].n = n
    BY <1>2, <2>1 DEF Before
  <2>3. hand[n].pane \in open /\ by[hand[n].pane] # 0
    BY <1>3 DEF Given
  <2>4. Looking'
    <3>1. /\ talk'[window'] = "asked" /\ back'[window'] = none
          /\ hand'[req'[window'].n].pane \in open' /\ by'[hand'[req'[window'].n].pane] # 0
      BY <1>1, <1>3, <2>2, <2>3 DEF panes, handed
    <3>2. \A i \in 1..Len(events') : events'[i].a = window' => events'[i].do \notin Pending \cup {"stop"}
      BY <1>3, <2>1 DEF Nothing
    <3> QED BY <3>1, <3>2 DEF Looking, Nothing
  <2>5. \A b \in Agents : Asked(b)' /\ Standing(b)'
    BY <1>1, <1>3, <2>1 DEF Kept, Asked, Standing, handed
  <2>6. Sharing'
    BY <1>1, <1>3, <2>1, AgentsAssumption DEF Kept, Sharing, handed, taking
  <2>7. Secrets'
    BY <1>1 DEF Kept, Secrets, panes, handed
  <2>8. TypeOK'
    BY <1>1, <1>2, <1>3, <2>1 DEF TypeOK, panes, handed, taking
  <2> QED BY <2>1, <2>4, <2>5, <2>6, <2>7, <2>8 DEF Kept
<1>4. CASE back' = [back EXCEPT ![a] = "refused"] /\ UNCHANGED window
  <2>1. next' >= next /\ "refused" \in {"used", "refused", "opening", "handed"}
    BY <1>1 DEF handed, TypeOK
  <2>2. /\ InTurn' /\ \A b \in Agents : Standing(b)'
        /\ back' \in [Agents -> Answers]
        /\ \A b \in Agents : talk[b] \in {"away", "ready"} => back'[b] = none
    BY <1>1, <1>4, <2>1, AnswerKept
  <2>3. \A b \in Agents : Asked(b)'
    BY <1>1, <2>2 DEF Kept, Asked, handed
  <2>4. Looking'
    BY <1>2, <1>4 DEF Looking
  <2>5. Sharing' /\ Secrets'
    BY <1>1, <1>4, PanesKept DEF handed, taking
  <2>6. TypeOK'
    BY <1>1, <1>2, <1>4, <2>2 DEF TypeOK, panes, handed, taking
  <2> QED BY <2>2, <2>3, <2>4, <2>5, <2>6 DEF Kept
<1> QED BY <1>3, <1>4 DEF TakesSecret, Answer

LEMMA WaitKept ==
  ASSUME Kept, WaitForSecret
  PROVE  Kept'
<1> DEFINE a == window
           p == hand[req[window].n].pane
<1>1. /\ UNCHANGED <<panes, handed, events, taking, sock, talk, held, req>> /\ TypeOK
      /\ a \in Agents /\ window' = "free" /\ window' \notin Agents
  BY AgentsAssumption DEF WaitForSecret, Kept
<1>2. /\ talk[a] = "asked" /\ back[a] = none /\ Nothing(a) /\ p \in open /\ by[p] # 0
  BY <1>1 DEF Kept, Looking
<1>3. /\ open \subseteq Panes /\ p \in Panes /\ secret \in [Panes -> Agents \cup {none}]
      /\ back \in [Agents -> Answers]
  BY <1>1, <1>2 DEF TypeOK
<1>4. \/ secret[p] = none /\ secret' = [secret EXCEPT ![p] = a] /\ back' = [back EXCEPT ![a] = "asked"]
      \/ back' = [back EXCEPT ![a] = "refused"] /\ UNCHANGED secret
  BY DEF WaitForSecret, Answer
<1>5. /\ secret' \in [Panes -> Agents \cup {none}]
      /\ back' \in [Agents -> Answers]
      /\ \A b \in Agents \ {a} : back'[b] = back[b]
      /\ \A q \in Panes \ {p} : secret'[q] = secret[q]
      /\ secret'[p] = secret[p] \/ secret[p] = none
      /\ back'[a] = "asked" => secret'[p] = a
  BY <1>1, <1>3, <1>4
<1>6. InTurn'
  <2> SUFFICES ASSUME NEW i \in 1..Len(events'), events'[i].do \in Pending PROVE Before(i)'
    BY DEF InTurn
  <2>1. Before(i)
    BY <1>1 DEF Kept, InTurn
  <2>2. events[i].a \in Agents \ {a} /\ window' # events[i].a /\ back'[events[i].a] = none
    BY <1>1, <1>5, <2>1 DEF Before
  <2> QED BY <1>1, <2>1, <2>2 DEF Before
<1>7. Secrets'
  BY <1>1, <1>2, <1>3, <1>5 DEF Kept, Secrets, panes, handed
<1>8. Sharing'
  BY <1>1 DEF Kept, Sharing, handed, taking
<1>9. Looking'
  BY <1>1 DEF Looking
<1>10. ASSUME NEW b \in Agents PROVE Asked(b)' /\ Standing(b)'
  <2>0. Asked(b) /\ Standing(b) /\ b # none
    BY AgentsAssumption DEF Kept, none
  <2>1. CASE b = a
    BY <1>1, <1>2, <1>3, <1>5, <2>0, <2>1 DEF Asked, Standing, Nothing, handed
  <2>2. CASE b # a
    <3>1. Asked(b)'
      BY <1>1, <1>5, <2>0, <2>2 DEF Asked, handed
    <3>2. Standing(b)'
      BY <1>1, <1>5, <2>0, <2>2 DEF Standing, Nothing
    <3> QED BY <3>1, <3>2
  <2> QED BY <2>1, <2>2
<1>11. TypeOK'
  BY <1>1, <1>5 DEF TypeOK, panes, handed, taking
<1> QED BY <1>6, <1>7, <1>8, <1>9, <1>10, <1>11 DEF Kept

LEMMA StopKept ==
  ASSUME Kept, TakesStop
  PROVE  Kept'
<1> DEFINE a == Head(events).a
<1>1. /\ UNCHANGED <<panes, handed, window, taking, talks>> /\ TypeOK /\ Takes("stop")
      /\ secret' = [p \in Panes |-> IF secret[p] = a THEN none ELSE secret[p]]
  BY DEF TakesStop, Kept
<1>2. /\ window \notin Agents /\ events # << >> /\ events' = Tail(events)
      /\ Head(events).do = "stop" /\ Head(events) = events[1] /\ events' \in Seq(Events)
  BY <1>1, TakesWhat
<1>3. InTurn' /\ \A b \in Agents : Nothing(b) => Nothing(b)'
  BY <1>1, <1>2, OrderTaken DEF talks
<1>4. /\ secret \in [Panes -> Agents \cup {none}] /\ open \subseteq Panes
      /\ Len(events) \in Nat \ {0}
  BY <1>1, <1>2, Taken DEF TypeOK
<1>5. /\ secret' \in [Panes -> Agents \cup {none}]
      /\ \A p \in Panes : secret'[p] = IF secret[p] = a THEN none ELSE secret[p]
  BY <1>1, <1>4
<1>6. ASSUME NEW b \in Agents PROVE Asked(b)' /\ Standing(b)'
  <2>1. Asked(b) /\ Standing(b)
    BY DEF Kept
  <2>2. Nothing(b) => b # a
    BY <1>2, <1>4 DEF Nothing
  <2>3. Asked(b)'
    BY <1>1, <2>1 DEF Asked, handed, talks
  <2>4. Standing(b)'
    BY <1>1, <1>3, <1>5, <2>1, <2>2 DEF Standing, talks
  <2> QED BY <2>3, <2>4
<1>7. Secrets'
  BY <1>1, <1>4, <1>5 DEF Kept, Secrets, panes, handed
<1>8. Sharing'
  BY <1>1 DEF Kept, Sharing, handed, taking
<1>9. Looking'
  BY <1>1, <1>2 DEF Looking
<1>10. TypeOK'
  BY <1>1, <1>2, <1>5 DEF TypeOK, panes, handed, taking, talks
<1> QED BY <1>3, <1>6, <1>7, <1>8, <1>9, <1>10 DEF Kept

LEMMA MarkOrErrorKept ==
  ASSUME Kept, TakesMark \/ TakesError
  PROVE  Kept'
<1>1. /\ UNCHANGED <<panes, by, hand, share, next, kept, window, secret, taking, talks>> /\ TypeOK
      /\ window = "free" /\ window \notin Agents /\ events # << >> /\ events' = Tail(events)
  BY AgentsAssumption DEF TakesMark, TakesError, Takes, Kept, handed
<1>2. working' \in Nat
  <2>1. working \in Nat
    BY <1>1 DEF TypeOK
  <2>2. CASE TakesError
    BY <2>1, <2>2 DEF TakesError, handed
  <2>3. CASE TakesMark
    <3>1. PICK by1 \in {1, -1} : working' = IF share # Head(events).n THEN working
                                   ELSE IF working + by1 < 0 THEN 0 ELSE working + by1
      BY <2>3 DEF TakesMark
    <3> QED BY <2>1, <3>1
  <2> QED BY <2>2, <2>3
<1>3. events' \in Seq(Events)
  BY <1>1, Taken
<1>4. InTurn' /\ \A b \in Agents : Nothing(b) => Nothing(b)'
  BY <1>1, OrderTaken DEF talks
<1>5. \A b \in Agents : Asked(b)' /\ Standing(b)'
  BY <1>1, <1>4 DEF Kept, Asked, Standing, talks
<1>6. Sharing' /\ Secrets'
  BY <1>1, PanesKept DEF taking
<1>7. Looking'
  BY <1>1 DEF Looking
<1>8. TypeOK'
  BY <1>1, <1>2, <1>3 DEF TypeOK, panes, taking, talks
<1> QED BY <1>4, <1>5, <1>6, <1>7, <1>8 DEF Kept

LEMMA ServerKept ==
  ASSUME Kept, Closed \/ AcceptFails \/ AcceptEnds
  PROVE  Kept'
<1>1. UNCHANGED <<panes, handed, events, secret, talking, talks>> /\ TypeOK
  BY DEF Closed, AcceptFails, AcceptEnds, Kept
<1>2. /\ window' = window \/ (window = "closing" /\ window' = "free")
      /\ server' = server \/ (window = "closing" /\ window' = "free" /\ server' = "none")
      /\ accept' \in {"over", "accepting", "failed"}
  BY <1>1 DEF Closed, AcceptFails, AcceptEnds, TypeOK
<1>3. "free" \notin Agents /\ next \in Nat /\ next' >= next
  BY <1>1, AgentsAssumption DEF TypeOK, handed
<1>4. InTurn' /\ \A b \in Agents : Asked(b)' /\ Standing(b)'
  BY <1>1, <1>2, <1>3, TalksStand DEF talks, handed
<1>5. Sharing'
  BY <1>1, <1>2 DEF Kept, Sharing, handed
<1>6. Secrets'
  BY <1>1 DEF Kept, Secrets, panes, handed
<1>7. Looking'
  <2>1. CASE window' = window
    <3>1. UNCHANGED <<open, by, hand, window, talk, back, req, events>>
      BY <1>1, <2>1 DEF panes, handed, talks
    <3> QED BY <3>1 DEF Kept, Looking, Nothing
  <2>2. CASE window' = "free"
    BY <1>3, <2>2 DEF Looking
  <2> QED BY <1>2, <2>1, <2>2
<1>8. TypeOK'
  BY <1>1, <1>2 DEF TypeOK, panes, handed, talks
<1> QED BY <1>4, <1>5, <1>6, <1>7, <1>8 DEF Kept

LEMMA SaysSoKept ==
  ASSUME Kept, SaysSo
  PROVE  Kept'
<1> DEFINE e == Event("error", none, 0)
<1>1. /\ UNCHANGED <<panes, handed, window, secret, server, talking, talks>> /\ TypeOK
      /\ Post(e) /\ accept' = "accepting"
  BY DEF SaysSo, Kept
<1>2. e \in Events /\ e.do = "error" /\ e.a = none /\ "error" \notin Pending /\ none \notin Agents
  BY EventIs, AgentsAssumption DEF Pending, Requests, none
<1> HIDE DEF e
<1>3. NoneBefore(none)
  BY <1>2 DEF Kept, InTurn, Before, NoneBefore
<1>4. \A b \in Agents \ {none} : talk'[b] = talk[b] /\ back'[b] = back[b] /\ req'[b] = req[b]
  BY <1>1 DEF talks
<1>5. InTurn' /\ \A b \in Agents \ {none} : Nothing(b) => Nothing(b)'
  BY <1>1, <1>2, <1>3, <1>4, OrderKept
<1>6. \A b \in Agents : Nothing(b) => Nothing(b)'
  BY <1>2, <1>5
<1>7. events' \in Seq(Events)
  BY <1>1, <1>2, Posted
<1>8. Sharing' /\ Secrets'
  BY <1>1, PanesKept DEF handed
<1>9. Looking'
  BY <1>1, <1>6, LookingKept DEF handed, panes, talks
<1>10. \A b \in Agents : Asked(b)' /\ Standing(b)'
  BY <1>1, <1>6 DEF Kept, Asked, Standing, handed, talks
<1>11. TypeOK'
  BY <1>1, <1>7 DEF TypeOK, panes, handed, talks
<1> QED BY <1>5, <1>8, <1>9, <1>10, <1>11 DEF Kept

LEMMA PaneKept ==
  ASSUME Kept, NEW p \in Panes, Types(p) \/ Exits(p) \/ Finishes(p)
  PROVE  Kept'
<1>1. CASE Types(p)
  <2> DEFINE a == secret[p]
  <2>1. /\ UNCHANGED <<panes, handed, window, events, taking, sock, talk, held, req>> /\ TypeOK
        /\ a # none /\ secret' = [secret EXCEPT ![p] = none]
        /\ back' = [back EXCEPT ![a] = IF @ = "asked" THEN "answered" ELSE @]
    BY <1>1 DEF Types, Kept
  <2>2. /\ secret \in [Panes -> Agents \cup {none}] /\ open \subseteq Panes /\ a \in Agents
        /\ back \in [Agents -> Answers]
    BY <2>1 DEF TypeOK
  <2>3. /\ secret' \in [Panes -> Agents \cup {none}] /\ secret'[p] = none
        /\ \A q \in Panes \ {p} : secret'[q] = secret[q]
        /\ back' \in [Agents -> Answers]
        /\ back'[a] # "asked" /\ \A b \in Agents \ {a} : back'[b] = back[b]
        /\ \A b \in Agents : back[b] = none => back'[b] = none
    BY <2>1, <2>2 DEF none
  <2>4. InTurn'
    BY <2>1, <2>3 DEF Kept, InTurn, Before
  <2>5. ASSUME NEW b \in Agents PROVE Asked(b)' /\ Standing(b)'
    <3>1. Asked(b) /\ Standing(b)
      BY DEF Kept
    <3>2. Asked(b)'
      BY <2>1, <2>3, <3>1 DEF Asked, handed
    <3>3. Standing(b)'
      BY <2>1, <2>2, <2>3, <3>1 DEF Standing, Nothing
    <3> QED BY <3>2, <3>3
  <2>6. Sharing'
    BY <2>1 DEF Kept, Sharing, handed, taking
  <2>7. Secrets'
    BY <2>1, <2>2, <2>3 DEF Kept, Secrets, panes, handed
  <2>8. Looking'
    <3>1. UNCHANGED <<open, by, hand, window, talk, req, events>>
      BY <2>1 DEF panes, handed
    <3> QED BY <2>3, <3>1 DEF Kept, Looking, Nothing
  <2>9. TypeOK'
    BY <2>1, <2>3 DEF TypeOK, panes, handed, taking
  <2> QED BY <2>4, <2>5, <2>6, <2>7, <2>8, <2>9 DEF Kept
<1>2. CASE Exits(p)
  <2>1. UNCHANGED <<open, handed, window, events, secret, taking, talks>> /\ TypeOK /\ next \in Nat /\ next' >= next
    BY <1>2 DEF Exits, Kept, TypeOK, handed
  <2>2. gone \subseteq gone' /\ gone' \subseteq Panes /\ ending' \subseteq Panes
    BY <1>2, <2>1 DEF Exits, TypeOK
  <2>3. InTurn' /\ \A b \in Agents : Asked(b)' /\ Standing(b)'
    BY <2>1, TalksStand DEF talks, handed
  <2>4. Sharing' /\ Secrets'
    BY <2>1, <2>2 DEF Kept, Sharing, Secrets, handed, taking
  <2>5. Looking'
    <3>1. UNCHANGED <<open, by, hand, window, talk, back, req, events>>
      BY <2>1 DEF handed, talks
    <3> QED BY <3>1 DEF Kept, Looking, Nothing
  <2>6. TypeOK'
    BY <2>1, <2>2 DEF TypeOK, handed, taking, talks
  <2> QED BY <2>3, <2>4, <2>5, <2>6 DEF Kept
<1>3. CASE Finishes(p)
  <2>1. /\ UNCHANGED <<open, gone, handed, window, events, taking, sock, talk, held, req>> /\ TypeOK
        /\ EndAsks({p}) /\ ending' \subseteq Panes /\ {p} \in SUBSET Panes
    BY <1>3 DEF Finishes, Kept, TypeOK
  <2>2. /\ secret' \in [Panes -> Agents \cup {none}]
        /\ back' \in [Agents -> Answers]
        /\ \A q \in Panes : secret'[q] = IF q \in {p} THEN none ELSE secret[q]
        /\ \A b \in Agents : back[b] = none => back'[b] = none
        /\ InTurn' /\ \A b \in Agents : Asked(b)' /\ Standing(b)'
    BY <2>1, AsksEnded DEF handed
  <2>3. Sharing' /\ Secrets'
    BY <2>1, <2>2 DEF Kept, TypeOK, Sharing, Secrets, handed, taking
  <2>4. Looking'
    <3>1. UNCHANGED <<open, by, hand, window, talk, req, events>>
      BY <2>1 DEF handed
    <3> QED BY <2>2, <3>1 DEF Kept, Looking, Nothing
  <2>5. TypeOK'
    BY <2>1, <2>2 DEF TypeOK, handed, taking
  <2> QED BY <2>2, <2>3, <2>4, <2>5 DEF Kept
<1> QED BY <1>1, <1>2, <1>3

LEMMA StepKept == Kept /\ [Next]_vars => Kept'
<1> SUFFICES ASSUME Kept, [Next]_vars PROVE Kept'
  OBVIOUS
<1>1. CASE World
  BY <1>1, UserKept, ServerKept, PaneKept, AgentKept, AsksKept DEF World
<1>2. CASE Window
  BY <1>2, ServerKept, UseOrOpenKept, HandKept, SecretKept, WaitKept, StopKept, MarkOrErrorKept DEF Window
<1>3. CASE Accepting
  BY <1>3, SaysSoKept, ServerKept DEF Accepting
<1>4. ASSUME NEW a \in Agents, Talks(a) PROVE Kept'
  BY <1>4, AgentKept, OpensKept, HandsKept DEF Talks
<1>5. ASSUME NEW p \in Panes, Finishes(p) PROVE Kept'
  BY <1>5, PaneKept
<1>6. CASE UNCHANGED vars
  <2>1. /\ UNCHANGED <<open, gone, ending, by, hand, share, working, next, kept, window, events, secret>>
        /\ UNCHANGED <<server, accept, talking, sock, talk, held, req, back>>
    BY <1>6 DEF vars, panes, handed, taking, talks
  <2>2. TypeOK'
    BY <2>1 DEF Kept, TypeOK
  <2>3. Sharing' /\ Secrets' /\ Looking'
    BY <2>1 DEF Kept, Sharing, Secrets, Looking, Nothing
  <2>4. InTurn' /\ \A a \in Agents : Asked(a)' /\ Standing(a)'
    BY <2>1 DEF Kept, InTurn, Before, Asked, Standing, Nothing
  <2> QED BY <2>2, <2>3, <2>4 DEF Kept
<1> QED BY <1>1, <1>2, <1>3, <1>4, <1>5, <1>6 DEF Next, Goes

THEOREM KeptAlways == Spec => []Kept
  BY InitKept, StepKept, PTL DEF Spec

(* Every value a variable of the share takes is of its kind (app/agents.go,
   agent/server.go). *)
THEOREM TypeCorrect == Spec => []TypeOK
<1>1. Kept => TypeOK
  BY DEF Kept
<1> QED BY <1>1, KeptAlways, PTL

(* The window listens for agents exactly while something is shared, whatever the
   user takes back or closes and whatever the agents and the accept goroutine do
   meanwhile (app/agents.go, sharePane and stopSharingIfDone). *)
THEOREM ListensExactly == Spec => []ListensWhileShared
<1>1. Kept => ListensWhileShared
  BY DEF Kept, Sharing, ListensWhileShared
<1> QED BY <1>1, KeptAlways, PTL

(* An agent that waits for the user waits on an ask that stands, and no ask
   outlives the share of a pane still open (ui/term/term.go, WaitForSecret and
   EndSecret; app/agents.go, dropHandover). *)
THEOREM AsksStand == Spec => []AskStands
<1>1. Kept => AskStands
  BY DEF Kept, Standing, Secrets, AskStands
<1> QED BY <1>1, KeptAlways, PTL
---------------------------------------------------------------------------
(* What the window is told of who works in the share. *)
Marks == {"using", "leaving"}
Says(a, do, n) == \E i \in 1..Len(events) : events[i].do = do /\ events[i].a = a /\ events[i].n = n

(* An agent's use of a share is told once, and its leaving once, after; it says
   so while it has it, or has said that it leaves, for good. *)
MarkedOnce(i) ==
  /\ events[i].a \in Agents /\ events[i].n \in 1..next
  /\ \A j \in 1..Len(events) : events[j].a = events[i].a /\ events[j].n = events[i].n =>
       /\ events[j].do = events[i].do => j = i
       /\ events[i].do = "using" /\ events[j].do = "leaving" => i < j
  /\ events[i].do = "leaving" =>
       /\ events[i].n \notin held[events[i].a]
       /\ talk[events[i].a] \in {"leaving", "over"}
  /\ events[i].do = "using" =>
       events[i].n \in held[events[i].a] \/ Says(events[i].a, "leaving", events[i].n)
MarksInOrder == \A i \in 1..Len(events) : events[i].do \in Marks => MarkedOnce(i)

(* Those the window has heard use the share, and has not heard leave it. *)
Heard(a) == (share \in held[a] \/ Says(a, "leaving", share)) /\ ~Says(a, "using", share)
Workers == {a \in Agents : Heard(a)}
HeldKnown == \A a \in Agents : held[a] \subseteq 1..next

Counted ==
  /\ MarksInOrder /\ HeldKnown
  /\ share # 0 => IsFiniteSet(Workers) /\ working = Cardinality(Workers)

(* An agent that leaves does not come back. *)
GoneStays == \A a \in Agents : talk[a] \in {"leaving", "over"} => talk'[a] \in {"leaving", "over"}

(* The queue goes on with nothing said of who works. *)
Unsaid ==
  \/ events' = events
  \/ \E e \in Events : Post(e) /\ e.do \notin Marks
  \/ events # << >> /\ events' = Tail(events) /\ Head(events).do \notin Marks

LEMMA Shifted ==
  ASSUME TypeOK, Unsaid
  PROVE  \E k \in {0, 1} :
           /\ \A i \in 1..Len(events') : events'[i].do \in Marks =>
                i + k \in 1..Len(events) /\ events'[i] = events[i + k]
           /\ \A i \in 1..Len(events) : events[i].do \in Marks =>
                i - k \in 1..Len(events') /\ events'[i - k] = events[i]
<1>1. CASE events' = events
  <2>1. /\ \A i \in 1..Len(events') : i + 0 \in 1..Len(events) /\ events'[i] = events[i + 0]
        /\ \A i \in 1..Len(events) : i - 0 \in 1..Len(events') /\ events'[i - 0] = events[i]
    BY <1>1 DEF TypeOK
  <2> QED BY <2>1
<1>2. ASSUME NEW e \in Events, Post(e), e.do \notin Marks
      PROVE  /\ \A i \in 1..Len(events') : events'[i].do \in Marks =>
                  i + 0 \in 1..Len(events) /\ events'[i] = events[i + 0]
             /\ \A i \in 1..Len(events) : events[i].do \in Marks =>
                  i - 0 \in 1..Len(events') /\ events'[i - 0] = events[i]
  <2>1. /\ Len(events') = Len(events) + 1 /\ Len(events) \in Nat /\ events'[Len(events) + 1] = e
        /\ \A i \in 1..Len(events) : events'[i] = events[i]
    BY <1>2, Posted
  <2>2. ASSUME NEW i \in 1..Len(events'), events'[i].do \in Marks
        PROVE  i + 0 \in 1..Len(events) /\ events'[i] = events[i + 0]
    BY <1>2, <2>1, <2>2
  <2>3. ASSUME NEW i \in 1..Len(events) PROVE i - 0 \in 1..Len(events') /\ events'[i - 0] = events[i]
    BY <2>1
  <2> QED BY <2>2, <2>3
<1>3. CASE events # << >> /\ events' = Tail(events) /\ Head(events).do \notin Marks
  <2>1. /\ Len(events') = Len(events) - 1 /\ Len(events) \in Nat \ {0}
        /\ \A i \in 1..Len(events) - 1 : events'[i] = events[i + 1]
        /\ Head(events) = events[1]
    BY <1>3, Taken
  <2>2. ASSUME NEW i \in 1..Len(events')
        PROVE  i + 1 \in 1..Len(events) /\ events'[i] = events[i + 1]
    BY <2>1
  <2>3. ASSUME NEW i \in 1..Len(events), events[i].do \in Marks
        PROVE  i - 1 \in 1..Len(events') /\ events'[i - 1] = events[i]
    <3>1. i # 1
      BY <2>1, <2>3, <1>3
    <3>2. i - 1 \in 1..Len(events) - 1 /\ i - 1 + 1 = i
      BY <2>1, <3>1
    <3> QED BY <2>1, <3>2
  <2> QED BY <2>2, <2>3
<1> QED BY <1>1, <1>2, <1>3 DEF Unsaid

(* Then what was said of it is as it was. *)
LEMMA QuietMarks ==
  ASSUME TypeOK, Counted, TypeOK', Unsaid, GoneStays, held' = held, next' >= next
  PROVE  /\ MarksInOrder' /\ HeldKnown'
         /\ \A a, n, do : do \in Marks => (Says(a, do, n)' <=> Says(a, do, n))
<1>1. next \in Nat /\ next' \in Nat
  BY DEF TypeOK
<1>2. PICK k \in {0, 1} :
        /\ \A i \in 1..Len(events') : events'[i].do \in Marks =>
             i + k \in 1..Len(events) /\ events'[i] = events[i + k]
        /\ \A i \in 1..Len(events) : events[i].do \in Marks =>
             i - k \in 1..Len(events') /\ events'[i - k] = events[i]
  BY Shifted
<1>3. ASSUME NEW a, NEW n, NEW do \in Marks PROVE Says(a, do, n)' <=> Says(a, do, n)
  BY <1>2, <1>3 DEF Says
<1>4. HeldKnown'
  BY <1>1 DEF Counted, HeldKnown
<1>5. ASSUME NEW i \in 1..Len(events'), events'[i].do \in Marks PROVE MarkedOnce(i)'
  <2>1. i + k \in 1..Len(events) /\ events'[i] = events[i + k] /\ MarkedOnce(i + k)
    BY <1>2, <1>5 DEF Counted, MarksInOrder
  <2>2. events'[i].a \in Agents /\ events'[i].n \in 1..next'
    BY <2>1, <1>1 DEF MarkedOnce
  <2>3. ASSUME NEW j \in 1..Len(events'), events'[j].a = events'[i].a, events'[j].n = events'[i].n
        PROVE  /\ events'[j].do = events'[i].do => j = i
               /\ events'[i].do = "using" /\ events'[j].do = "leaving" => i < j
    <3>1. CASE events'[j].do \in Marks
      <4>1. j + k \in 1..Len(events) /\ events'[j] = events[j + k]
        BY <1>2, <3>1
      <4>2. /\ events[j + k].do = events[i + k].do => j + k = i + k
            /\ events[i + k].do = "using" /\ events[j + k].do = "leaving" => i + k < j + k
        BY <2>1, <2>3, <4>1 DEF MarkedOnce
      <4> QED BY <4>1, <4>2, <2>1
    <3>2. CASE events'[j].do \notin Marks
      BY <3>2, <1>5 DEF Marks
    <3> QED BY <3>1, <3>2
  <2>4. events'[i].do = "leaving" =>
          events'[i].n \notin held'[events'[i].a] /\ talk'[events'[i].a] \in {"leaving", "over"}
    BY <2>1, <2>2 DEF MarkedOnce, GoneStays
  <2>5. events'[i].do = "using" =>
          events'[i].n \in held'[events'[i].a] \/ Says(events'[i].a, "leaving", events'[i].n)
    BY <2>1 DEF MarkedOnce
  <2> DEFINE e == events'[i]
  <2>6. Says(e.a, "leaving", e.n) => \E j \in 1..Len(events') :
          events'[j].do = "leaving" /\ events'[j].a = e.a /\ events'[j].n = e.n
    <3>1. ASSUME NEW a, NEW n, Says(a, "leaving", n)
          PROVE  \E j \in 1..Len(events') : events'[j].do = "leaving" /\ events'[j].a = a /\ events'[j].n = n
      <4>1. Says(a, "leaving", n)'
        BY <1>3, <3>1 DEF Marks
      <4> QED BY <4>1 DEF Says
    <3> QED BY <3>1
  <2> QED BY <2>2, <2>3, <2>4, <2>5, <2>6 DEF MarkedOnce, Says
<1> QED BY <1>3, <1>4, <1>5 DEF MarksInOrder

(* And the count is right. *)
LEMMA QuietCounted ==
  ASSUME TypeOK, Counted, TypeOK', Unsaid, GoneStays, held' = held, working' = working,
         share' \in {share, 0}, next' >= next
  PROVE  Counted'
<1>1. MarksInOrder' /\ HeldKnown' /\ \A a, n, do : do \in Marks => (Says(a, do, n)' <=> Says(a, do, n))
  BY QuietMarks
<1>2. ASSUME share' # 0 PROVE IsFiniteSet(Workers') /\ working' = Cardinality(Workers')
  <2>1. share' = share /\ share # 0
    BY <1>2
  <2>2. ASSUME NEW a \in Agents PROVE Heard(a)' <=> Heard(a)
    <3>1. \A n, do : do \in Marks => (Says(a, do, n)' <=> Says(a, do, n))
      BY <1>1
    <3>2. Says(a, "leaving", share)' <=> Says(a, "leaving", share)
      BY <3>1, <2>1 DEF Marks, Says
    <3>3. Says(a, "using", share)' <=> Says(a, "using", share)
      BY <3>1, <2>1 DEF Marks, Says
    <3> QED BY <3>2, <3>3, <2>1 DEF Heard
  <2>3. Workers' = Workers
    BY <2>2 DEF Workers
  <2> QED BY <2>1, <2>3 DEF Counted
<1> QED BY <1>1, <1>2 DEF Counted

(* A share begins with nobody in it. *)
LEMMA NewCounted ==
  ASSUME TypeOK, Counted, TypeOK', UNCHANGED <<events, talk, held>>, share' = next + 1, working' = 0,
         next' >= next
  PROVE  Counted'
<1>1. MarksInOrder' /\ HeldKnown' /\ \A a, n, do : do \in Marks => (Says(a, do, n)' <=> Says(a, do, n))
  BY QuietMarks DEF Unsaid, GoneStays
<1>2. Workers' = {}
  <2> SUFFICES ASSUME NEW a \in Agents PROVE ~Heard(a)'
    BY DEF Workers
  <2>1. next \in Nat /\ next + 1 \notin 1..next
    BY DEF TypeOK
  <2>2. share' \notin held'[a]
    BY <2>1 DEF Counted, HeldKnown
  <2>3. ASSUME NEW i \in 1..Len(events), events[i].do = "leaving" PROVE events[i].n # next + 1
    BY <2>1, <2>3 DEF Counted, MarksInOrder, MarkedOnce, Marks
  <2> QED BY <2>2, <2>3 DEF Heard, Says
<1> QED BY <1>1, <1>2, FS_EmptySet DEF Counted

(* An agent says that it uses a share, or that it leaves one, and is heard. *)
LEMMA MarkPosted ==
  ASSUME TypeOK, Counted, NEW a \in Agents, NEW do \in Marks, NEW n \in 1..next, Post(Event(do, a, n)),
         next' = next, GoneStays,
         do = "using" => n \notin held[a] /\ talk[a] = "asked" /\ held' = [held EXCEPT ![a] = @ \cup {n}],
         do = "leaving" => n \in held[a] /\ talk[a] = "leaving" /\ held' = [held EXCEPT ![a] = @ \ {n}]
  PROVE  /\ MarksInOrder' /\ HeldKnown'
         /\ \A b \in Agents, m \in Nat, d \in Marks :
              Says(b, d, m)' <=> Says(b, d, m) \/ (b = a /\ m = n /\ d = do)
         /\ ~Says(a, do, n) /\ (do = "using" => ~Says(a, "leaving", n))
<1> DEFINE e == Event(do, a, n)
           new == Len(events) + 1
<1>1. /\ next \in Nat /\ n \in Nat /\ held \in [Agents -> SUBSET Nat]
      /\ events \in Seq(Events) /\ Len(events) \in Nat
  BY DEF TypeOK
<1>2. e \in Events /\ e.do = do /\ e.a = a /\ e.n = n
  <2>1. do \in Requests \cup {"hand", "stop", "using", "leaving", "error"} /\ a \in Agents \cup {none}
    BY DEF Marks
  <2>2. CASE do = "using"
    BY <1>1, <2>1, <2>2, EventIs
  <2>3. CASE do = "leaving"
    BY <1>1, <2>1, <2>3, EventIs
  <2> QED BY <2>2, <2>3 DEF Marks
<1>3. /\ Len(events') = new /\ events'[new] = e
      /\ \A i \in 1..Len(events) : events'[i] = events[i]
  BY <1>2, Posted
<1> HIDE DEF e
<1>4. ASSUME NEW i \in 1..Len(events') PROVE i = new \/ (i \in 1..Len(events) /\ i < new)
  BY <1>1, <1>3
<1>5. ASSUME NEW b, NEW m, NEW d PROVE Says(b, d, m)' <=> Says(b, d, m) \/ (b = a /\ m = n /\ d = do)
  BY <1>1, <1>2, <1>3, <1>4 DEF Says
<1>6. ~Says(a, do, n) /\ (do = "using" => ~Says(a, "leaving", n))
  <2>1. ASSUME Says(a, "leaving", n) PROVE n \notin held[a] /\ talk[a] \in {"leaving", "over"}
    BY <2>1 DEF Says, Counted, MarksInOrder, Marks, MarkedOnce
  <2>2. ASSUME Says(a, "using", n) PROVE n \in held[a] \/ Says(a, "leaving", n)
    BY <2>2 DEF Says, Counted, MarksInOrder, Marks, MarkedOnce
  <2> QED BY <2>1, <2>2 DEF Marks
<1>7. /\ \A b \in Agents \ {a} : held'[b] = held[b]
      /\ do = "using" => held'[a] = held[a] \cup {n}
      /\ do = "leaving" => held'[a] = held[a] \ {n}
  BY <1>1 DEF Marks
<1>8. HeldKnown'
  <2> SUFFICES ASSUME NEW b \in Agents PROVE held'[b] \subseteq 1..next
    BY DEF HeldKnown
  <2> QED BY <1>7 DEF Counted, HeldKnown, Marks
<1>9. ASSUME NEW i \in 1..Len(events'), events'[i].do \in Marks PROVE MarkedOnce(i)'
  <2>1. events'[i].a \in Agents /\ events'[i].n \in 1..next
    BY <1>2, <1>3, <1>4, <1>9 DEF Counted, MarksInOrder, MarkedOnce
  <2>2. ASSUME NEW j \in 1..Len(events'), events'[j].a = events'[i].a, events'[j].n = events'[i].n
        PROVE  /\ events'[j].do = events'[i].do => j = i
               /\ events'[i].do = "using" /\ events'[j].do = "leaving" => i < j
    <3>1. CASE i \in 1..Len(events) /\ j \in 1..Len(events)
      <4>1. MarkedOnce(i) /\ events'[i] = events[i] /\ events'[j] = events[j]
        BY <3>1, <1>3, <1>9 DEF Counted, MarksInOrder
      <4> QED BY <3>1, <4>1, <2>2 DEF MarkedOnce
    <3>2. CASE i = new /\ j \in 1..Len(events)
      <4>1. events'[i] = e /\ events'[j] = events[j] /\ ~(events[j].do = do)
        BY <3>2, <2>2, <1>2, <1>3, <1>6 DEF Says
      <4>2. do = "using" => events[j].do # "leaving"
        BY <3>2, <4>1, <2>2, <1>2, <1>6 DEF Says
      <4> QED BY <4>1, <4>2, <1>2
    <3>3. CASE i \in 1..Len(events) /\ j = new
      <4>1. events'[j] = e /\ events'[i] = events[i] /\ ~(events[i].do = do) /\ i < j
        BY <3>3, <2>2, <1>2, <1>3, <1>4, <1>6, <1>1 DEF Says
      <4> QED BY <4>1, <1>2
    <3>4. CASE i = new /\ j = new
      BY <3>4 DEF Marks
    <3> QED BY <3>1, <3>2, <3>3, <3>4, <1>4
  <2>3. ASSUME events'[i].do = "leaving"
        PROVE  events'[i].n \notin held'[events'[i].a] /\ talk'[events'[i].a] \in {"leaving", "over"}
    <3>1. CASE i \in 1..Len(events)
      <4>1. MarkedOnce(i) /\ events'[i] = events[i]
        BY <3>1, <1>3, <1>9 DEF Counted, MarksInOrder
      <4>2. events[i].n \notin held[events[i].a] /\ talk[events[i].a] \in {"leaving", "over"}
        BY <4>1, <2>3 DEF MarkedOnce
      <4>3. do = "using" => events[i].a # a
        BY <4>2
      <4> QED BY <4>1, <4>2, <4>3, <2>1, <1>7 DEF GoneStays, Marks
    <3>2. CASE i = new
      <4>1. events'[i] = e /\ do = "leaving"
        BY <3>2, <2>3, <1>2, <1>3
      <4> QED BY <4>1, <1>2, <1>7 DEF GoneStays
    <3> QED BY <3>1, <3>2, <1>4
  <2>4. ASSUME events'[i].do = "using"
        PROVE  (events[i].n \in held[events[i].a] \/ Says(events[i].a, "leaving", events[i].n))'
    <3>1. CASE i \in 1..Len(events)
      <4>1. MarkedOnce(i) /\ events'[i] = events[i]
        BY <3>1, <1>3, <1>9 DEF Counted, MarksInOrder
      <4>2. PICK b \in Agents, m \in Nat : b = events[i].a /\ m = events[i].n
        BY <4>1, <2>1, <1>1
      <4>3. m \in held[b] \/ Says(b, "leaving", m)
        BY <4>1, <4>2, <2>4 DEF MarkedOnce
      <4>4. m \in held'[b] \/ Says(b, "leaving", m)'
        BY <4>3, <1>5, <1>7 DEF Marks
      <4> QED BY <4>1, <4>2, <4>4 DEF Says
    <3>2. CASE i = new
      <4>1. events'[i] = e /\ do = "using"
        BY <3>2, <2>4, <1>2, <1>3
      <4> QED BY <4>1, <1>2, <1>7
    <3> QED BY <3>1, <3>2, <1>4
  <2> QED BY <2>1, <2>2, <2>3, <2>4 DEF MarkedOnce, Says
<1> QED BY <1>5, <1>6, <1>8, <1>9 DEF MarksInOrder

LEMMA UsedCounted ==
  ASSUME TypeOK, Counted, TypeOK', NEW a \in Agents, Used(a), req[a].n \in 1..next,
         req[a].n \notin held[a]
  PROVE  Counted'
<1> PICK n \in 1..next : n = req[a].n
  OBVIOUS
<1>1. /\ Post(Event("using", a, n)) /\ held' = [held EXCEPT ![a] = @ \cup {n}] /\ talk[a] = "asked"
      /\ UNCHANGED <<share, working, next>>
  BY DEF Used, handed
<1>2. GoneStays /\ n \in 1..next /\ n \notin held[a]
  BY DEF Used, Ready, To, GoneStays, TypeOK
<1>3. /\ MarksInOrder' /\ HeldKnown' /\ ~Says(a, "using", n) /\ ~Says(a, "leaving", n)
      /\ \A b \in Agents, m \in Nat, d \in Marks :
           Says(b, d, m)' <=> Says(b, d, m) \/ (b = a /\ m = n /\ d = "using")
  <2>1. "using" \in Marks /\ "using" # "leaving" /\ UNCHANGED next
    BY <1>1 DEF Marks
  <2> DEFINE do == "using"
  <2>2. /\ do \in Marks /\ Post(Event(do, a, n)) /\ next' = next
        /\ do = "using" => n \notin held[a] /\ talk[a] = "asked" /\ held' = [held EXCEPT ![a] = @ \cup {n}]
        /\ do = "leaving" => n \in held[a] /\ talk[a] = "leaving" /\ held' = [held EXCEPT ![a] = @ \ {n}]
    BY <1>1, <1>2, <2>1
  <2>3. do = "using"
    OBVIOUS
  <2> HIDE DEF do
  <2>4. /\ MarksInOrder' /\ HeldKnown' /\ ~Says(a, do, n) /\ (do = "using" => ~Says(a, "leaving", n))
        /\ \A b \in Agents, m \in Nat, d \in Marks :
             Says(b, d, m)' <=> Says(b, d, m) \/ (b = a /\ m = n /\ d = do)
    BY <1>2, <2>2, MarkPosted
  <2> QED BY <2>3, <2>4
<1>4. ASSUME NEW b \in Agents PROVE Heard(b)' <=> Heard(b)
  <2>1. share \in Nat /\ share' = share /\ held'[b] = IF b = a THEN held[a] \cup {n} ELSE held[b]
    BY <1>1 DEF TypeOK
  <2>2. \A d \in Marks : Says(b, d, share)' <=> Says(b, d, share) \/ (b = a /\ share = n /\ d = "using")
    BY <1>3, <2>1
  <2>3. n \notin held[a]
    BY <1>2
  <2>4. Heard(b)' <=> (share \in held'[b] \/ Says(b, "leaving", share)) /\ ~Says(b, "using", share)'
    BY <2>1, <2>2 DEF Heard, Marks, Says
  <2> QED BY <1>3, <2>1, <2>2, <2>3, <2>4 DEF Heard, Marks
<1>5. Workers' = Workers
  BY <1>4 DEF Workers
<1> QED BY <1>1, <1>3, <1>5 DEF Counted

LEMMA LeftCounted ==
  ASSUME TypeOK, Counted, TypeOK', NEW a \in Agents, Left(a), held[a] # {}
  PROVE  Counted'
<1>1. PICK n \in held[a] : Post(Event("leaving", a, n)) /\ held' = [held EXCEPT ![a] = @ \ {n}]
  BY DEF Left
<1>2. talk[a] = "leaving" /\ UNCHANGED <<share, working, next, talk>>
  BY DEF Left, handed
<1>3. GoneStays /\ n \in 1..next
  BY <1>2 DEF GoneStays, Counted, HeldKnown
<1>4. /\ MarksInOrder' /\ HeldKnown'
      /\ \A b \in Agents, m \in Nat, d \in Marks :
           Says(b, d, m)' <=> Says(b, d, m) \/ (b = a /\ m = n /\ d = "leaving")
  BY <1>1, <1>2, <1>3, MarkPosted DEF Marks
<1>5. ASSUME NEW b \in Agents PROVE Heard(b)' <=> Heard(b)
  <2>1. share \in Nat /\ share' = share /\ held'[b] = IF b = a THEN held[a] \ {n} ELSE held[b]
    BY <1>1, <1>2 DEF TypeOK
  <2>2. \A d \in Marks : Says(b, d, share)' <=> Says(b, d, share) \/ (b = a /\ share = n /\ d = "leaving")
    BY <1>4, <2>1
  <2>3. Heard(b)' <=> (share \in held'[b] \/ Says(b, "leaving", share)') /\ ~Says(b, "using", share)'
    BY <2>1 DEF Heard, Says
  <2> QED BY <1>1, <2>1, <2>2, <2>3 DEF Heard, Marks
<1>6. Workers' = Workers
  BY <1>5 DEF Workers
<1> QED BY <1>2, <1>4, <1>6 DEF Counted

(* The window hears of an agent. *)
LEMMA MarkCounted ==
  ASSUME TypeOK, Counted, TypeOK', TakesMark
  PROVE  Counted'
<1> DEFINE do == Head(events).do
<1>1. /\ Len(events') = Len(events) - 1 /\ Len(events) \in Nat \ {0} /\ Head(events) = events[1]
      /\ \A i \in 1..Len(events) - 1 : events'[i] = events[i + 1]
  BY Taken DEF TakesMark
<1>2. /\ UNCHANGED <<share, next, talk, held>> /\ do \in Marks
      /\ working' = IF share # Head(events).n THEN working
                    ELSE IF do = "using" THEN working + 1
                    ELSE IF working + -1 < 0 THEN 0 ELSE working + -1
  <2>1. working \in Nat /\ ~(working + 1 < 0)
    BY DEF TypeOK
  <2> QED BY <2>1 DEF TakesMark, handed, talks, Marks
<1>3. 1 \in 1..Len(events) /\ events[1].do \in Marks /\ MarkedOnce(1)
  BY <1>1, <1>2 DEF Counted, MarksInOrder
<1>4. PICK a \in Agents, n \in 1..next : a = events[1].a /\ n = events[1].n
  BY <1>3 DEF MarkedOnce
<1>5. PICK d \in Marks : d = do
  BY <1>2
<1>6. events[1].do = d /\ Head(events).n = n
  BY <1>1, <1>4, <1>5
<1> HIDE DEF do
<1>7. ASSUME NEW b, NEW m, NEW k PROVE Says(b, k, m) <=> Says(b, k, m)' \/ (b = a /\ m = n /\ k = d)
  <2>1. ASSUME Says(b, k, m)' PROVE Says(b, k, m)
    <3>1. PICK i \in 1..Len(events') : events'[i].do = k /\ events'[i].a = b /\ events'[i].n = m
      BY <2>1 DEF Says
    <3>2. i + 1 \in 1..Len(events) /\ events'[i] = events[i + 1]
      BY <1>1
    <3> QED BY <3>1, <3>2 DEF Says
  <2>2. ASSUME Says(b, k, m) PROVE Says(b, k, m)' \/ (b = a /\ m = n /\ k = d)
    <3>1. PICK i \in 1..Len(events) : events[i].do = k /\ events[i].a = b /\ events[i].n = m
      BY <2>2 DEF Says
    <3>2. CASE i = 1
      BY <3>1, <3>2, <1>4, <1>6
    <3>3. CASE i # 1
      <4>1. i - 1 \in 1..Len(events') /\ i - 1 \in 1..Len(events) - 1 /\ i - 1 + 1 = i
        BY <1>1, <3>3
      <4>2. events'[i - 1] = events[i]
        BY <1>1, <4>1
      <4> QED BY <3>1, <4>1, <4>2 DEF Says
    <3> QED BY <3>2, <3>3
  <2>3. Says(a, d, n)
    BY <1>3, <1>4, <1>6 DEF Says
  <2> QED BY <2>1, <2>2, <2>3
<1>8. ~Says(a, d, n)'
  <2> SUFFICES ASSUME NEW i \in 1..Len(events'), events'[i].do = d, events'[i].a = a, events'[i].n = n
               PROVE  FALSE
    BY DEF Says
  <2>1. i + 1 \in 1..Len(events) /\ events'[i] = events[i + 1] /\ i + 1 # 1
    BY <1>1
  <2> QED BY <2>1, <1>3, <1>4, <1>6 DEF MarkedOnce
<1>9. d = "leaving" => ~Says(a, "using", n) /\ n \notin held[a]
  <2>1. ASSUME NEW j \in 1..Len(events), events[j].do = "using", events[j].a = a, events[j].n = n, d = "leaving"
        PROVE  FALSE
    <3>1. MarkedOnce(j)
      BY <2>1 DEF Counted, MarksInOrder, Marks
    <3>2. j < 1
      BY <3>1, <2>1, <1>3, <1>4, <1>6 DEF MarkedOnce
    <3> QED BY <3>2
  <2> QED BY <2>1, <1>3, <1>4, <1>6 DEF Says, MarkedOnce
<1>10. d = "using" => n \in held[a] \/ Says(a, "leaving", n)'
  <2>1. d = "using" => n \in held[a] \/ Says(a, "leaving", n)
    BY <1>3, <1>4, <1>6 DEF MarkedOnce
  <2> QED BY <2>1, <1>7
<1>11. HeldKnown'
  BY <1>2 DEF Counted, HeldKnown
<1>12. ASSUME NEW i \in 1..Len(events'), events'[i].do \in Marks PROVE MarkedOnce(i)'
  <2>1. i + 1 \in 1..Len(events) /\ events'[i] = events[i + 1] /\ MarkedOnce(i + 1)
    BY <1>1, <1>12 DEF Counted, MarksInOrder
  <2>2. PICK b \in Agents, m \in 1..next : b = events[i + 1].a /\ m = events[i + 1].n
    BY <2>1 DEF MarkedOnce
  <2>3. ASSUME NEW j \in 1..Len(events'), events'[j].a = b, events'[j].n = m
        PROVE  /\ events'[j].do = events'[i].do => j = i
               /\ events'[i].do = "using" /\ events'[j].do = "leaving" => i < j
    <3>1. j + 1 \in 1..Len(events) /\ events'[j] = events[j + 1]
      BY <1>1
    <3>2. /\ events[j + 1].do = events[i + 1].do => j + 1 = i + 1
          /\ events[i + 1].do = "using" /\ events[j + 1].do = "leaving" => i + 1 < j + 1
      BY <2>1, <2>2, <2>3, <3>1 DEF MarkedOnce
    <3> QED BY <3>1, <3>2, <2>1
  <2>4. events'[i].do = "leaving" => m \notin held[b] /\ talk[b] \in {"leaving", "over"}
    BY <2>1, <2>2 DEF MarkedOnce
  <2>5. ASSUME events'[i].do = "using" PROVE m \in held[b] \/ Says(b, "leaving", m)'
    <3>1. m \in held[b] \/ Says(b, "leaving", m)
      BY <2>1, <2>2, <2>5 DEF MarkedOnce
    <3>2. ~(b = a /\ m = n /\ d = "leaving")
      <4>1. Says(b, "using", m)
        BY <2>1, <2>2, <2>5 DEF Says
      <4> QED BY <4>1, <1>9
    <3> QED BY <3>1, <3>2, <1>7
  <2> QED BY <2>1, <2>2, <2>3, <2>4, <2>5, <1>2 DEF MarkedOnce, Says
<1>13. ASSUME share # 0 PROVE IsFiniteSet(Workers') /\ working' = Cardinality(Workers')
  <2>1. IsFiniteSet(Workers) /\ working = Cardinality(Workers) /\ working \in Nat
    BY <1>13 DEF Counted, TypeOK
  <2>2. ASSUME NEW b PROVE Heard(b)' <=> (share \in held[b] \/ Says(b, "leaving", share)') /\ ~Says(b, "using", share)'
    BY <1>2 DEF Heard
  <2>3. PICK s \in Nat : s = share
    BY DEF TypeOK
  <2>4. ASSUME NEW b, NEW k \in Marks
        PROVE  Says(b, k, share) <=> Says(b, k, share)' \/ (b = a /\ share = n /\ k = d)
    <3>1. Says(b, k, s) <=> Says(b, k, s)' \/ (b = a /\ s = n /\ k = d)
      BY <1>7
    <3> QED BY <3>1, <2>3, <1>2 DEF Says
  <2>5. CASE share # n
    <3>1. \A b \in Agents : Heard(b)' <=> Heard(b)
      BY <2>2, <2>4, <2>5 DEF Heard, Marks
    <3>2. Workers' = Workers
      BY <3>1 DEF Workers
    <3> QED BY <3>2, <2>1, <2>5, <1>2, <1>6
  <2>6. CASE share = n /\ d = "using"
    <3>1. \A b \in Agents \ {a} : Heard(b)' <=> Heard(b)
      BY <2>2, <2>4, <2>6 DEF Heard, Marks
    <3>2. ~Heard(a) /\ Heard(a)'
      BY <2>2, <2>4, <2>6, <1>2, <1>8, <1>10 DEF Heard, Marks, Says
    <3>3. Workers' = Workers \cup {a} /\ a \notin Workers
      BY <3>1, <3>2 DEF Workers
    <3> QED BY <3>3, <2>1, <2>6, <1>2, <1>5, <1>6, FS_AddElement
  <2>7. CASE share = n /\ d = "leaving"
    <3>1. \A b \in Agents \ {a} : Heard(b)' <=> Heard(b)
      BY <2>2, <2>4, <2>7 DEF Heard, Marks
    <3>2. Heard(a) /\ ~Heard(a)'
      BY <2>2, <2>4, <2>7, <1>2, <1>8, <1>9 DEF Heard, Marks, Says
    <3>3. Workers' = Workers \ {a} /\ a \in Workers
      BY <3>1, <3>2 DEF Workers
    <3>4. Cardinality(Workers) # 0
      BY <3>3, <2>1, FS_EmptySet
    <3> QED BY <3>3, <3>4, <2>1, <2>7, <1>2, <1>5, <1>6, FS_RemoveElement
  <2> QED BY <2>5, <2>6, <2>7 DEF Marks
<1> QED BY <1>2, <1>11, <1>12, <1>13 DEF Counted, MarksInOrder

(* An agent said to use a share, or to leave it, is so once: as many events as
   agents. *)
Saying(do, n) == {a \in Agents : Says(a, do, n)}
LEMMA EachSaysOnce ==
  ASSUME TypeOK, Counted, NEW do \in Marks, NEW n
  PROVE  /\ IsFiniteSet(Saying(do, n)) /\ Cardinality(Saying(do, n)) \in Nat
         /\ Cardinality(Waiting(do, n)) = Cardinality(Saying(do, n))
<1> DEFINE W == Waiting(do, n)
           S == Saying(do, n)
           f == [i \in W |-> events[i].a]
<1>1. Len(events) \in Nat /\ 1 \in Int
  BY DEF TypeOK
<1>2. IsFiniteSet(W)
  <2>1. IsFiniteSet(1..Len(events))
    BY <1>1, FS_Interval
  <2>2. W \in SUBSET (1..Len(events))
    BY DEF Waiting
  <2> QED BY <2>1, <2>2, FS_Subset
<1>3. ASSUME NEW i \in W PROVE i \in 1..Len(events) /\ events[i].do = do /\ events[i].n = n /\ MarkedOnce(i)
  BY <1>3 DEF Waiting, Counted, MarksInOrder
<1>4. f \in [W -> S]
  BY <1>3 DEF Saying, Says, MarkedOnce
<1>5. \A i, j \in W : f[i] = f[j] => i = j
  BY <1>3 DEF MarkedOnce
<1>6. \A a \in S : \E i \in W : f[i] = a
  BY DEF Saying, Says, Waiting
<1> HIDE DEF W, S, f
<1>7. ExistsBijection(W, S)
  BY <1>4, <1>5, <1>6 DEF ExistsBijection, Bijection, Injection, Surjection, IsInjective
<1>8. IsFiniteSet(S) /\ Cardinality(S) = Cardinality(W)
  BY <1>2, <1>7, FS_Bijection
<1> QED BY <1>8, FS_CardinalityType DEF S, W

LEMMA CountedTells == TypeOK /\ Counted => WorkingIsTrue
<1> SUFFICES ASSUME TypeOK, Counted, share # 0
             PROVE  working + Cardinality(Waiting("using", share)) - Cardinality(Waiting("leaving", share))
                      = Cardinality({a \in Agents : share \in held[a]})
  BY DEF WorkingIsTrue
<1> DEFINE H == {a \in Agents : share \in held[a]}
           U == Saying("using", share)
           L == Saying("leaving", share)
<1>1. /\ IsFiniteSet(U) /\ Cardinality(U) \in Nat /\ Cardinality(Waiting("using", share)) = Cardinality(U)
      /\ IsFiniteSet(L) /\ Cardinality(L) \in Nat /\ Cardinality(Waiting("leaving", share)) = Cardinality(L)
  BY EachSaysOnce DEF Marks
<1>2. IsFiniteSet(Workers) /\ working = Cardinality(Workers) /\ working \in Nat
  BY DEF Counted, TypeOK
<1>3. H \cap L = {}
  BY DEF Counted, MarksInOrder, MarkedOnce, Marks, Saying, Says
<1>4. U \subseteq H \cup L
  <2> SUFFICES ASSUME NEW a \in Agents, NEW i \in 1..Len(events),
                      events[i].do = "using", events[i].a = a, events[i].n = share
               PROVE  share \in held[a] \/ Says(a, "leaving", share)
    BY DEF Saying, Says
  <2> QED BY DEF Counted, MarksInOrder, MarkedOnce, Marks
<1>5. Workers = (H \cup L) \ U
  BY DEF Workers, Heard, Saying
<1> HIDE DEF H, U, L
<1>6. H \cup L = Workers \cup U /\ Workers \cap U = {}
  BY <1>4, <1>5
<1>7. IsFiniteSet(H \cup L) /\ Cardinality(H \cup L) = Cardinality(Workers) + Cardinality(U)
  <2>1. /\ IsFiniteSet(Workers \cup U)
        /\ Cardinality(Workers \cup U) = Cardinality(Workers) + Cardinality(U) - Cardinality(Workers \cap U)
    BY <1>1, <1>2, FS_Union
  <2>2. Cardinality(Workers \cap U) = 0
    BY <1>6, FS_EmptySet
  <2> DEFINE B == Workers \cup U
  <2>3. H \cup L = B
    BY <1>6
  <2>4. Cardinality(B) = Cardinality(Workers) + Cardinality(U) /\ IsFiniteSet(B)
    BY <1>1, <1>2, <2>1, <2>2
  <2> HIDE DEF B
  <2> QED BY <2>3, <2>4
<1>8. H = (H \cup L) \ L
  BY <1>3
<1>9. Cardinality(H) = Cardinality(H \cup L) - Cardinality(L)
  <2>1. Cardinality((H \cup L) \ L) = Cardinality(H \cup L) - Cardinality((H \cup L) \cap L)
    BY <1>7, FS_Difference
  <2>2. (H \cup L) \cap L = L
    OBVIOUS
  <2> QED BY <1>8, <2>1, <2>2
<1>10. Cardinality(H) = working + Cardinality(U) - Cardinality(L)
  BY <1>1, <1>2, <1>7, <1>9
<1> QED BY <1>1, <1>10 DEF H

LEMMA InitCounted == Init => Counted
<1> SUFFICES ASSUME Init PROVE Counted
  OBVIOUS
<1>1. Len(events) = 0 /\ share = 0 /\ \A a \in Agents : held[a] = {}
  BY DEF Init
<1> QED BY <1>1 DEF Counted, MarksInOrder, HeldKnown

(* What the user does of the share leaves it as it was, ends it, or begins one. *)
LEMMA UserCounted ==
  ASSUME TypeOK, Counted, TypeOK', UserDoes
  PROVE  Counted'
<1>1. ASSUME NEW ps, Drop(ps) PROVE Counted'
  <2>1. /\ UNCHANGED <<events, held, working, talk, next>> /\ share' \in {share, 0}
    BY <1>1 DEF Drop
  <2> QED BY <2>1, QuietCounted DEF Unsaid, GoneStays, TypeOK
<1>2. ASSUME NEW p \in Panes, SharePane(p) PROVE Counted'
  <2>1. UNCHANGED <<events, held, talk>>
    BY <1>2 DEF SharePane, talks
  <2>2. CASE share = 0
    <3>1. share' = next + 1 /\ next' = next + 2 /\ working' = 0 /\ next \in Nat
      BY <1>2, <2>2 DEF SharePane, TypeOK
    <3> QED BY <2>1, <3>1, NewCounted
  <2>3. CASE share # 0
    <3>1. share' = share /\ next' = next + 1 /\ working' = working /\ next \in Nat
      BY <1>2, <2>3 DEF SharePane, TypeOK
    <3> QED BY <2>1, <3>1, QuietCounted DEF Unsaid, GoneStays
  <2> QED BY <2>2, <2>3
<1>3. ASSUME NEW p \in Panes, ClosePane(p), by[p] = 0 PROVE Counted'
  BY <1>3, QuietCounted DEF ClosePane, handed, talks, Unsaid, GoneStays, TypeOK
<1>4. ASSUME NEW p \in Panes, SetAgentMay(p) PROVE Counted'
  BY <1>4, QuietCounted DEF SetAgentMay, talks, Unsaid, GoneStays, TypeOK
<1> QED BY <1>1, <1>2, <1>3, <1>4 DEF UserDoes, UnsharePane, ClosePane, StopSharing

(* The window answers an agent, or takes what says nothing of who works. *)
LEMMA TakesCounted ==
  ASSUME TypeOK, Counted, TypeOK',
         Closed \/ TakesUse \/ TakesOpen \/ TakesHand \/ TakesSecret \/ WaitForSecret \/ TakesStop \/ TakesError
  PROVE  Counted'
<1>1. UNCHANGED <<held, working, share, talk>>
  BY DEF Closed, TakesUse, TakesOpen, TakesHand, TakesSecret, WaitForSecret, TakesStop, TakesError, handed, talks
<1>2. next' >= next
  <2>1. CASE TakesHand
    <3>1. next' = next \/ next' = next + 1
      BY <2>1 DEF TakesHand, HandInto
    <3> QED BY <3>1 DEF TypeOK
  <2>2. CASE ~TakesHand
    BY <2>2 DEF Closed, TakesUse, TakesOpen, TakesSecret, WaitForSecret, TakesStop, TakesError, handed, TypeOK
  <2> QED BY <2>1, <2>2
<1>3. Unsaid
  BY DEF Closed, TakesUse, TakesOpen, TakesHand, TakesSecret, WaitForSecret, TakesStop, TakesError, Takes, Unsaid, Marks
<1> QED BY <1>1, <1>2, <1>3, QuietCounted DEF GoneStays

(* What the goroutine of an agent, or the accept goroutine, does besides. *)
LEMMA GoesCounted ==
  ASSUME TypeOK, Counted, TypeOK',
         \/ AcceptFails \/ SaysSo \/ AcceptEnds
         \/ \E p \in Panes : Types(p) \/ Exits(p) \/ Finishes(p)
         \/ \E a \in Agents : \/ Accepts(a) \/ HangsUp(a) \/ Asks(a) \/ Refused(a) \/ PaneOpens(a) \/ Hands(a)
                              \/ AskIsOver(a) \/ Leaves(a) \/ (Used(a) /\ req[a].n \in held[a])
                              \/ (Left(a) /\ held[a] = {})
  PROVE  Counted'
<1>1. CASE \/ AcceptFails \/ SaysSo \/ AcceptEnds
           \/ \E p \in Panes : Types(p) \/ Exits(p) \/ Finishes(p)
  <2>1. UNCHANGED <<held, working, share, talk, next>>
    BY <1>1 DEF AcceptFails, SaysSo, AcceptEnds, Types, Exits, Finishes, handed, talks
  <2>2. Unsaid
    <3>1. /\ SaysSo => Post(Event("error", none, 0))
          /\ Event("error", none, 0) \in Events /\ Event("error", none, 0).do = "error"
      <4>1. SaysSo => Post(Event("error", none, 0))
        BY Zenon DEF SaysSo
      <4>2. "error" \in Requests \cup {"hand", "stop", "using", "leaving", "error"} /\ none \in Agents \cup {none}
        OBVIOUS
      <4>3. Event("error", none, 0) \in Events /\ Event("error", none, 0).do = "error"
        BY <4>2, EventIs
      <4> QED BY <4>1, <4>3
    <3>2. ~SaysSo => events' = events
      BY <1>1 DEF AcceptFails, AcceptEnds, Types, Exits, Finishes
    <3> QED BY <3>1, <3>2 DEF Unsaid, Marks
  <2> QED BY <2>1, <2>2, QuietCounted DEF GoneStays, TypeOK
<1>2. ASSUME NEW a \in Agents,
             \/ Accepts(a) \/ HangsUp(a) \/ Asks(a) \/ Refused(a) \/ PaneOpens(a) \/ Hands(a)
             \/ AskIsOver(a) \/ Leaves(a) \/ (Used(a) /\ req[a].n \in held[a])
             \/ (Left(a) /\ held[a] = {})
      PROVE  Counted'
  <2>1. UNCHANGED <<held, working, share, next>>
    BY <1>2 DEF Accepts, HangsUp, Asks, Refused, PaneOpens, Hands, AskIsOver, Leaves, Used, Left, handed
  <2>2. GoneStays
    <3>1. CASE Accepts(a) \/ HangsUp(a) \/ Asks(a) \/ Refused(a) \/ PaneOpens(a) \/ Hands(a) \/ Leaves(a)
      <4>1. talk \in [Agents -> Stages] /\ talk[a] \notin {"leaving", "over"}
        BY <3>1 DEF Accepts, HangsUp, Asks, Refused, PaneOpens, Hands, Leaves, TypeOK
      <4>2. \E at : talk' = [talk EXCEPT ![a] = at]
        BY <3>1 DEF Accepts, HangsUp, Asks, Refused, PaneOpens, Hands, Leaves, To, Ready
      <4> QED BY <4>1, <4>2 DEF GoneStays
    <3>2. CASE AskIsOver(a) \/ Used(a) \/ Left(a)
      <4>1. /\ talk \in [Agents -> Stages]
            /\ \/ talk[a] = "asked" /\ talk' = [talk EXCEPT ![a] = "ready"]
               \/ talk' = [talk EXCEPT ![a] = "over"]
               \/ talk' = talk
        BY <3>2 DEF AskIsOver, Used, Left, To, Ready, TypeOK
      <4> QED BY <4>1 DEF GoneStays
    <3> QED BY <1>2, <3>1, <3>2
  <2>3. Unsaid
    <3>1. CASE Accepts(a) \/ HangsUp(a) \/ Refused(a) \/ PaneOpens(a) \/ Leaves(a)
               \/ (Used(a) /\ req[a].n \in held[a]) \/ (Left(a) /\ held[a] = {})
      BY <3>1 DEF Accepts, HangsUp, Refused, PaneOpens, Leaves, Used, Left, Unsaid
    <3>2. CASE Asks(a)
      <4>1. PICK do \in {"use", "open", "secret"}, n \in 1..next : Post(Event(do, a, n))
        BY <3>2 DEF Asks
      <4>2. do \in Requests /\ n \in Nat /\ do \notin Marks
        BY DEF Requests, Marks, TypeOK
      <4>3. Event(do, a, n) \in Events /\ Event(do, a, n).do = do
        BY <4>2, EventIs
      <4> QED BY <4>1, <4>2, <4>3 DEF Unsaid
    <3>3. CASE Hands(a) \/ AskIsOver(a)
      <4>1. req[a].n \in Nat
        BY PartsOfAsking
      <4>2. PICK do \in {"hand", "stop"} : Post(Event(do, a, req[a].n))
        BY <3>3 DEF Hands, AskIsOver
      <4>3. Event(do, a, req[a].n) \in Events /\ Event(do, a, req[a].n).do = do
        <5>1. do \in Requests \cup {"hand", "stop", "using", "leaving", "error"} /\ a \in Agents \cup {none}
          OBVIOUS
        <5> QED BY <4>1, <5>1, EventIs
      <4>4. do \notin Marks
        BY DEF Marks
      <4> QED BY <4>2, <4>3, <4>4 DEF Unsaid
    <3> QED BY <1>2, <3>1, <3>2, <3>3
  <2> QED BY <2>1, <2>2, <2>3, QuietCounted DEF TypeOK
<1> QED BY <1>1, <1>2

LEMMA StepCounted == Kept /\ Counted /\ Kept' /\ [Next]_vars => Counted'
<1> SUFFICES ASSUME Kept, Counted, Kept', [Next]_vars PROVE Counted'
  OBVIOUS
<1>1. TypeOK /\ TypeOK'
  BY DEF Kept
<1>2. CASE UserDoes
  BY <1>1, <1>2, UserCounted
<1>3. CASE Window
  BY <1>1, <1>3, TakesCounted, MarkCounted DEF Window
<1>4. ASSUME NEW a \in Agents, Used(a), req[a].n \notin held[a] PROVE Counted'
  <2>1. req[a].n \in 1..next
    BY <1>4 DEF Kept, Asked, Used
  <2> QED BY <1>1, <1>4, <2>1, UsedCounted
<1>5. ASSUME NEW a \in Agents, Left(a), held[a] # {} PROVE Counted'
  BY <1>1, <1>5, LeftCounted
<1>6. CASE UNCHANGED vars
  BY <1>1, <1>6, QuietCounted DEF vars, handed, talks, Unsaid, GoneStays, TypeOK
<1>7. CASE \/ AcceptFails \/ Accepting \/ \E p \in Panes : Types(p) \/ Exits(p) \/ Finishes(p)
           \/ \E a \in Agents : Accepts(a) \/ HangsUp(a) \/ Asks(a) \/ Talks(a)
  BY <1>1, <1>4, <1>5, <1>7, GoesCounted DEF Accepting, Talks
<1> QED BY <1>2, <1>3, <1>6, <1>7 DEF Next, World, Goes

(* What the window has heard of who works in the share, and what is on its way to
   it, stay in order. *)
THEOREM CountedAlways == Spec => []Counted
<1>1. Init => Counted
  BY InitCounted
<1> QED BY <1>1, StepCounted, KeptAlways, PTL DEF Spec

(* The count of agents that work in the share is of those that gave its code and
   have not left, but for what the window has yet to be told; and no agent that
   leaves takes it below nothing (agents.go, markAgent). *)
THEOREM WorkersAreCounted == Spec => []WorkingIsTrue
<1>1. Kept /\ Counted => WorkingIsTrue
  BY CountedTells DEF Kept
<1> QED BY <1>1, KeptAlways, CountedAlways, PTL
---------------------------------------------------------------------------
(* Who waits, and for what. *)
Waits(a) == \E i \in 1..Len(events) : events[i].a = a /\ events[i].do \in Pending

(* An agent without its answer has what it asked before the window, or the window
   looks at a pane for it; one that handed a pane over is told no more than that. *)
Heeded(a) ==
  /\ talk[a] \in {"asked", "handing"} /\ back[a] = none => window = a \/ Waits(a)
  /\ talk[a] = "handing" => back[a] \in {none, "handed"}

NoneForgotten == Len(events) <= Room /\ \A a \in Agents : Heeded(a)

(* The window takes nothing that the agent waits for. *)
GoesBy(a) ==
  \/ events' = events
  \/ \E e \in Events : Post(e)
  \/ events # << >> /\ events' = Tail(events) /\ (Head(events).do \notin Pending \/ Head(events).a # a)

LEMMA WaitsOn ==
  ASSUME TypeOK, NEW a \in Agents, Waits(a), GoesBy(a)
  PROVE  Waits(a)'
<1>1. CASE events' = events
  BY <1>1 DEF Waits
<1>2. ASSUME NEW e \in Events, Post(e) PROVE Waits(a)'
  <2>1. /\ Len(events') = Len(events) + 1 /\ Len(events) \in Nat
        /\ \A i \in 1..Len(events) : events'[i] = events[i]
    BY <1>2, Posted
  <2>2. \A i \in 1..Len(events) : i \in 1..Len(events')
    BY <2>1
  <2> QED BY <2>1, <2>2 DEF Waits
<1>3. CASE events # << >> /\ events' = Tail(events) /\ (Head(events).do \notin Pending \/ Head(events).a # a)
  <2>1. /\ Len(events') = Len(events) - 1 /\ Len(events) \in Nat \ {0}
        /\ \A i \in 1..Len(events) - 1 : events'[i] = events[i + 1]
        /\ Head(events) = events[1]
    BY <1>3, Taken
  <2>2. PICK i \in 1..Len(events) : events[i].a = a /\ events[i].do \in Pending
    BY DEF Waits
  <2>3. i # 1
    BY <1>3, <2>1, <2>2
  <2>4. i - 1 \in 1..Len(events') /\ events'[i - 1] = events[i]
    BY <2>1, <2>3
  <2> QED BY <2>2, <2>4 DEF Waits
<1> QED BY <1>1, <1>2, <1>3 DEF GoesBy

LEMMA FitsStill ==
  ASSUME TypeOK, Len(events) <= Room,
         \/ events' = events
         \/ \E e \in Events : Post(e)
         \/ events # << >> /\ events' = Tail(events)
  PROVE  Len(events') <= Room
<1>1. Len(events) \in Nat /\ Room \in Nat
  BY NumbersAssumption DEF TypeOK
<1>2. CASE events' = events
  BY <1>2
<1>3. ASSUME NEW e \in Events, Post(e) PROVE Len(events') <= Room
  <2>1. Len(events') = Len(events) + 1 /\ Len(events) < Room
    BY <1>3, Posted DEF Post
  <2> QED BY <1>1, <2>1
<1>4. CASE events # << >> /\ events' = Tail(events)
  <2>1. Len(events') = Len(events) - 1
    BY <1>4, Taken
  <2> QED BY <1>1, <2>1
<1> QED BY <1>2, <1>3, <1>4

(* An agent that goes on waiting where it was. *)
LEMMA HeededStill ==
  ASSUME TypeOK, NEW a \in Agents, Heeded(a), Standing(a), GoesBy(a), window = a => window' = a,
         talk'[a] = talk[a],
         back'[a] = back[a] \/ (back[a] = "asked" /\ back'[a] # none)
  PROVE  Heeded(a)'
<1>1. CASE back'[a] = back[a]
  BY <1>1, WaitsOn DEF Heeded
<1>2. CASE back[a] = "asked" /\ back'[a] # none
  BY <1>2 DEF Heeded, Standing
<1> QED BY <1>1, <1>2

(* What the channel does when nobody is answered. *)
Passes ==
  \/ events' = events
  \/ \E e \in Events : Post(e)
  \/ events # << >> /\ events' = Tail(events) /\ Head(events).do \notin Pending

LEMMA OthersHeeded ==
  ASSUME Kept, NoneForgotten, Passes, NEW S \in SUBSET Agents,
         \A a \in S : /\ window = a => window' = a
                      /\ talk'[a] = talk[a]
                      /\ back'[a] = back[a] \/ (back[a] = "asked" /\ back'[a] # none)
  PROVE  Len(events') <= Room /\ \A a \in S : Heeded(a)'
<1>1. Len(events') <= Room
  BY FitsStill DEF Passes, Kept, NoneForgotten
<1>2. ASSUME NEW a \in S PROVE Heeded(a)'
  <2>1. Heeded(a) /\ Standing(a) /\ TypeOK /\ a \in Agents
    BY DEF Kept, NoneForgotten
  <2>2. GoesBy(a)
    BY DEF Passes, GoesBy
  <2> QED BY <2>1, <2>2, HeededStill
<1> QED BY <1>1, <1>2

(* The goroutine of an agent goes on to something it does not wait for. *)
LEMMA TalkForgetsNone ==
  ASSUME Kept, NoneForgotten, NEW a \in Agents,
         \/ Accepts(a) \/ HangsUp(a) \/ (Talks(a) /\ ~Hands(a))
  PROVE  NoneForgotten'
<1>1. TypeOK /\ Heeded(a) /\ window' = window
  BY DEF Accepts, HangsUp, Talks, Used, Refused, PaneOpens, AskIsOver, Leaves, Left, Kept, NoneForgotten
<1>2. CASE Accepts(a) \/ HangsUp(a) \/ Leaves(a) \/ Refused(a) \/ PaneOpens(a)
  <2>1. Passes
    BY <1>2 DEF Accepts, HangsUp, Leaves, Refused, PaneOpens, Passes
  <2>2. \A b \in Agents \ {a} : talk'[b] = talk[b] /\ back'[b] = back[b]
    <3>1. \E at : talk' = [talk EXCEPT ![a] = at]
      BY <1>2 DEF Accepts, HangsUp, Leaves, Refused, PaneOpens, To, Ready
    <3>2. back' = back \/ back' = [back EXCEPT ![a] = none]
      BY <1>2 DEF Accepts, HangsUp, Leaves, Refused, PaneOpens, Ready
    <3> QED BY <1>1, <3>1, <3>2 DEF TypeOK
  <2>3. talk'[a] \in {"ready", "leaving", "over", "opened"}
    BY <1>1, <1>2 DEF Accepts, HangsUp, Leaves, Refused, PaneOpens, To, Ready, TypeOK
  <2> QED BY <1>1, <2>1, <2>2, <2>3, OthersHeeded DEF NoneForgotten, Heeded
<1>3. CASE Used(a) \/ AskIsOver(a)
  <2>1. Ready(a) /\ req[a].n \in Nat /\ a \in Agents \cup {none}
    BY <1>1, <1>3, PartsOfAsking DEF Used, AskIsOver
  <2>2. Passes
    <3>1. Event("using", a, req[a].n) \in Events /\ Event("stop", a, req[a].n) \in Events
      BY <2>1, EventIs
    <3> QED BY <1>3, <3>1 DEF Used, AskIsOver, Passes
  <2>3. /\ \A b \in Agents \ {a} : talk'[b] = talk[b] /\ back'[b] = back[b]
        /\ talk'[a] = "ready"
    BY <1>1, <2>1 DEF Ready, To, TypeOK
  <2> QED BY <1>1, <2>2, <2>3, OthersHeeded DEF NoneForgotten, Heeded
<1>4. CASE Left(a)
  <2>1. a \in Agents \cup {none} /\ held[a] \subseteq Nat
    BY <1>1 DEF TypeOK
  <2>2. Passes
    <3>1. \A n \in held[a] : Event("leaving", a, n) \in Events
      BY <2>1, EventIs
    <3> QED BY <1>4, <3>1 DEF Left, Passes
  <2>3. /\ \A b \in Agents \ {a} : talk'[b] = talk[b] /\ back'[b] = back[b]
        /\ talk'[a] \in {"leaving", "over"}
    BY <1>1, <1>4 DEF Left, To, TypeOK
  <2> QED BY <1>1, <2>2, <2>3, OthersHeeded DEF NoneForgotten, Heeded
<1> QED BY <1>2, <1>3, <1>4 DEF Talks

(* It puts to the window what it then waits for. *)
LEMMA AskingForgetsNone ==
  ASSUME Kept, NoneForgotten, NEW a \in Agents, Asks(a) \/ Hands(a)
  PROVE  NoneForgotten'
<1>1. TypeOK /\ Heeded(a) /\ window' = window /\ a \in Agents \cup {none}
  BY DEF Asks, Hands, Kept, NoneForgotten
<1>2. PICK e \in Events : Post(e) /\ e.a = a /\ e.do \in Pending
  <2>1. CASE Asks(a)
    <3>1. PICK do \in {"use", "open", "secret"}, n \in 1..next : Post(Event(do, a, n))
      BY <2>1 DEF Asks
    <3>2. do \in Requests /\ n \in Nat /\ do \in Requests \cup {"hand", "stop", "using", "leaving", "error"}
      BY <1>1 DEF Requests, TypeOK
    <3>3. Event(do, a, n) \in Events /\ Event(do, a, n).do = do /\ Event(do, a, n).a = a
      BY <1>1, <3>2, EventIs
    <3> QED BY <3>1, <3>2, <3>3 DEF Pending
  <2>2. CASE Hands(a)
    <3>1. PICK n \in Nat : Post(Event("hand", a, n))
      BY <1>1, <2>2, PartsOfAsking DEF Hands
    <3>2. "hand" \in Requests \cup {"hand", "stop", "using", "leaving", "error"}
      OBVIOUS
    <3>3. Event("hand", a, n) \in Events /\ Event("hand", a, n).do = "hand" /\ Event("hand", a, n).a = a
      BY <1>1, <3>2, EventIs
    <3> QED BY <3>1, <3>3 DEF Pending
  <2> QED BY <2>1, <2>2
<1>3. /\ \A b \in Agents \ {a} : talk'[b] = talk[b] /\ back'[b] = back[b]
      /\ back'[a] = none
  <2>1. CASE Asks(a)
    BY <1>1, <2>1 DEF Asks, To, TypeOK, Kept, Asked
  <2>2. CASE Hands(a)
    BY <1>1, <2>2 DEF Hands, To, TypeOK
  <2> QED BY <2>1, <2>2
<1>4. Waits(a)'
  <2>1. /\ Len(events') = Len(events) + 1 /\ Len(events) \in Nat /\ events'[Len(events) + 1] = e
    BY <1>1, <1>2, Posted
  <2>2. Len(events) + 1 \in 1..Len(events')
    BY <2>1
  <2> QED BY <1>2, <2>1, <2>2 DEF Waits
<1>5. Passes
  BY <1>2 DEF Passes
<1> QED BY <1>1, <1>3, <1>4, <1>5, OthersHeeded DEF NoneForgotten, Heeded

(* The window answers what it takes, or begins to look at a pane for it. *)
LEMMA AnsweringForgetsNone ==
  ASSUME Kept, NoneForgotten, TakesUse \/ TakesOpen \/ TakesHand \/ TakesSecret
  PROVE  NoneForgotten'
<1>1. PICK do \in Pending : Takes(do) /\ (do = "hand" <=> TakesHand)
  BY DEF TakesUse, TakesOpen, TakesHand, TakesSecret, Takes, Pending, Requests
<1>2. /\ window = "free" /\ window \notin Agents /\ events # << >> /\ events' = Tail(events)
      /\ Head(events) = events[1] /\ Head(events).do = do
  BY <1>1, TakesWhat
<1>3. TypeOK /\ UNCHANGED <<talk, req>>
  BY DEF TakesUse, TakesOpen, TakesHand, TakesSecret, Kept
<1>4. PICK b \in Agents : b = Head(events).a /\ talk[b] = (IF do = "hand" THEN "handing" ELSE "asked")
  <2>1. 1 \in 1..Len(events)
    BY <1>2, <1>3, Taken
  <2> QED BY <1>1, <1>2, <2>1 DEF Kept, InTurn, Before
<1>5. /\ \A a \in Agents \ {b} : back'[a] = back[a]
      /\ \/ window' = b
         \/ back'[b] # none /\ (do = "hand" => back'[b] = "handed")
  <2>1. CASE TakesUse \/ TakesOpen
    <3>1. \E what \in {"used", "opening", "refused"} : back' = [back EXCEPT ![b] = what]
      BY <1>4, <2>1 DEF TakesUse, TakesOpen, Answer
    <3>2. do # "hand"
      BY <1>1, <1>2, <2>1 DEF TakesUse, TakesOpen, Takes
    <3> QED BY <1>3, <1>4, <3>1, <3>2 DEF TypeOK, none
  <2>2. CASE TakesHand
    <3>1. back' = [back EXCEPT ![b] = "handed"]
      BY <1>4, <2>2 DEF TakesHand, Answer
    <3> QED BY <1>1, <1>3, <1>4, <2>2, <3>1 DEF TypeOK, none
  <2>3. CASE TakesSecret
    <3>1. (window' = b /\ back' = back) \/ back' = [back EXCEPT ![b] = "refused"]
      BY <1>4, <2>3 DEF TakesSecret, Answer
    <3>2. do # "hand"
      BY <1>1, <1>2, <2>3 DEF TakesSecret, Takes
    <3> QED BY <1>3, <1>4, <3>1, <3>2 DEF TypeOK, none
  <2> QED BY <2>1, <2>2, <2>3
<1>6. ASSUME NEW a \in Agents, a # b PROVE Heeded(a)'
  <2>1. Heeded(a) /\ Standing(a) /\ GoesBy(a) /\ window # a
    BY <1>2, <1>4, <1>6 DEF Kept, NoneForgotten, GoesBy
  <2> QED BY <1>3, <1>5, <1>6, <2>1, HeededStill
<1>7. Heeded(b)'
  <2>1. CASE window' = b /\ do # "hand"
    BY <1>3, <1>4, <2>1 DEF Heeded
  <2>2. CASE back'[b] # none /\ (do = "hand" => back'[b] = "handed")
    BY <1>3, <1>4, <2>2 DEF Heeded
  <2>3. window' = b => do # "hand"
    <3>1. TakesHand => window' = window
      BY DEF TakesHand
    <3> QED BY <1>1, <1>2, <1>4, <3>1
  <2> QED BY <1>5, <2>1, <2>2, <2>3
<1>8. Len(events') <= Room
  BY <1>2, <1>3, FitsStill DEF NoneForgotten
<1> QED BY <1>6, <1>7, <1>8 DEF NoneForgotten

(* The window asks for a secret, or says that another is asked for. *)
LEMMA AskedForgetsNone ==
  ASSUME Kept, NoneForgotten, WaitForSecret
  PROVE  NoneForgotten'
<1>1. PICK w \in Agents : w = window
  BY DEF WaitForSecret
<1>2. talk[w] = "asked" /\ TypeOK /\ UNCHANGED <<talk, events>>
  BY <1>1 DEF Kept, Looking, WaitForSecret
<1>3. \E what \in {"asked", "refused"} : back' = [back EXCEPT ![w] = what]
  BY <1>1 DEF WaitForSecret, Answer
<1>4. back'[w] # none /\ \A a \in Agents \ {w} : back'[a] = back[a]
  BY <1>2, <1>3 DEF TypeOK, none
<1>5. Len(events') <= Room /\ \A a \in Agents \ {w} : Heeded(a)'
  BY <1>1, <1>2, <1>4, OthersHeeded DEF Passes
<1>6. Heeded(w)'
  BY <1>2, <1>4 DEF Heeded
<1> QED BY <1>5, <1>6 DEF NoneForgotten

(* Asks end, and the agents that waited for the user are told. *)
LEMMA EndingForgetsNone ==
  ASSUME Kept, NoneForgotten, NEW ps, EndAsks(ps), UNCHANGED <<events, talk>>,
         window' = window \/ window \notin Agents
  PROVE  NoneForgotten'
<1>1. \A a \in Agents : back'[a] = back[a] \/ (back[a] = "asked" /\ back'[a] # none)
  BY DEF EndAsks, Kept, TypeOK, none
<1> QED BY <1>1, OthersHeeded DEF Passes, NoneForgotten

(* The user, the terminals and the accept goroutine, and what the window takes of
   nobody who waits. *)
LEMMA RestForgetsNone ==
  ASSUME Kept, NoneForgotten,
         \/ UserDoes \/ AcceptFails \/ Accepting \/ Closed \/ TakesStop \/ TakesMark \/ TakesError
         \/ \E p \in Panes : Types(p) \/ Exits(p) \/ Finishes(p)
         \/ UNCHANGED vars
  PROVE  NoneForgotten'
<1>1. CASE UserDoes
  <2>1. window = "free" /\ window \notin Agents
    BY <1>1, AgentsAssumption DEF UserDoes
  <2>2. ASSUME NEW ps, Drop(ps) PROVE NoneForgotten'
    BY <2>1, <2>2, EndingForgetsNone DEF Drop
  <2>3. ASSUME UNCHANGED <<events, talk, back>> PROVE NoneForgotten'
    BY <2>1, <2>3, OthersHeeded DEF Passes, NoneForgotten
  <2>4. ASSUME NEW p \in Panes, SharePane(p) \/ SetAgentMay(p) PROVE NoneForgotten'
    BY <2>3, <2>4 DEF SharePane, SetAgentMay, talks
  <2>5. ASSUME NEW p \in Panes, UnsharePane(p) \/ ClosePane(p) PROVE NoneForgotten'
    BY <2>2, <2>3, <2>5 DEF UnsharePane, ClosePane, talks
  <2>6. StopSharing => NoneForgotten'
    BY <2>2 DEF StopSharing
  <2> QED BY <1>1, <2>4, <2>5, <2>6 DEF UserDoes
<1>2. CASE AcceptFails \/ AcceptEnds \/ (\E p \in Panes : Exits(p)) \/ UNCHANGED vars
  <2>1. UNCHANGED <<events, window, talk, back>>
    BY <1>2 DEF AcceptFails, AcceptEnds, Exits, vars, talks
  <2> QED BY <2>1, OthersHeeded DEF Passes, NoneForgotten
<1>3. CASE SaysSo
  <2>1. Event("error", none, 0) \in Events
    BY EventIs
  <2>2. Post(Event("error", none, 0)) /\ UNCHANGED <<window, talk, back>>
    BY <1>3 DEF SaysSo, talks
  <2> QED BY <2>1, <2>2, OthersHeeded DEF Passes, NoneForgotten
<1>4. CASE Closed
  <2>1. window \notin Agents /\ UNCHANGED <<events, talk, back>>
    BY <1>4, AgentsAssumption DEF Closed, talks
  <2> QED BY <2>1, OthersHeeded DEF Passes, NoneForgotten
<1>5. CASE TakesStop \/ TakesMark \/ TakesError
  <2>1. /\ events # << >> /\ events' = Tail(events) /\ Head(events).do \notin Pending
        /\ UNCHANGED <<window, talk, back>>
    BY <1>5 DEF TakesStop, TakesMark, TakesError, Takes, Pending, Requests, talks
  <2> QED BY <2>1, OthersHeeded DEF Passes, NoneForgotten
<1>6. ASSUME NEW p \in Panes, Types(p) PROVE NoneForgotten'
  <2>1. UNCHANGED <<events, window, talk>> /\ secret[p] \in Agents
    BY <1>6 DEF Types, Kept, TypeOK
  <2>2. \A a \in Agents : back'[a] = back[a] \/ (back[a] = "asked" /\ back'[a] # none)
    BY <1>6, <2>1 DEF Types, Kept, TypeOK, none
  <2> QED BY <2>1, <2>2, OthersHeeded DEF Passes, NoneForgotten
<1>7. ASSUME NEW p \in Panes, Finishes(p) PROVE NoneForgotten'
  BY <1>7, EndingForgetsNone DEF Finishes
<1> QED BY <1>1, <1>2, <1>3, <1>4, <1>5, <1>6, <1>7 DEF Accepting

LEMMA StepForgetsNone == Kept /\ NoneForgotten /\ [Next]_vars => NoneForgotten'
<1> SUFFICES ASSUME Kept, NoneForgotten, [Next]_vars PROVE NoneForgotten'
  OBVIOUS
<1>1. ASSUME NEW a \in Agents, Accepts(a) \/ HangsUp(a) \/ Asks(a) \/ Talks(a) PROVE NoneForgotten'
  BY <1>1, TalkForgetsNone, AskingForgetsNone
<1>2. CASE Window
  BY <1>2, AnsweringForgetsNone, AskedForgetsNone, RestForgetsNone DEF Window
<1> QED BY <1>1, <1>2, RestForgetsNone DEF Next, World, Goes

LEMMA InitForgetsNone == Init => NoneForgotten
<1> SUFFICES ASSUME Init PROVE NoneForgotten
  OBVIOUS
<1>1. Len(events) = 0 /\ Room \in Nat /\ \A a \in Agents : talk[a] = "away"
  BY NumbersAssumption DEF Init
<1> QED BY <1>1 DEF NoneForgotten, Heeded

(* Whatever the agents ask, the user takes back and the programs do, in any order
   and with any room on the window's channel: a state in which no goroutine can go
   on is one where all that was asked has been answered and every agent cut off
   is gone, or the one where Close waits for an accept goroutine that waits for
   room (agent/server.go, Close). *)
THEOREM NobodyIsStuck == Spec => []NobodyWaitsInVain
<1>1. ASSUME Kept, NoneForgotten PROVE NobodyWaitsInVain
  <2> SUFFICES ASSUME ~CanGo, ~ForEver
               PROVE  /\ window = "free" /\ events = << >>
                      /\ \A a \in Agents : talk[a] \in {"away", "over"} \/ (talk[a] = "ready" /\ a \in sock)
    BY DEF NobodyWaitsInVain
  <2>1. TypeOK /\ Room \in Nat \ {0} /\ Len(events) \in Nat /\ Len(events) <= Room
    BY <1>1, NumbersAssumption DEF Kept, TypeOK, NoneForgotten
  <2>2. window # "closing"
    <3> SUFFICES ASSUME window = "closing" PROVE FALSE
      OBVIOUS
    <3>1. server = "closed" /\ accept = "failed"
      BY <1>1, <2>1 DEF Kept, Sharing, CanGo, TypeOK
    <3>2. Len(events) = Room
      BY <2>1, <3>1 DEF CanGo
    <3> QED BY <3>1, <3>2 DEF ForEver
  <2>3. window = "free" /\ events = << >>
    BY <2>1, <2>2 DEF CanGo, TypeOK
  <2>4. HasRoom
    BY <2>1, <2>3
  <2>5. ASSUME NEW a \in Agents PROVE talk[a] \in {"away", "over"} \/ (talk[a] = "ready" /\ a \in sock)
    <3>1. talk[a] \in Stages /\ back[a] \in Answers
      BY <2>1 DEF TypeOK
    <3>2. ~Waits(a) /\ window # a
      BY <2>3, AgentsAssumption DEF Waits
    <3>3. talk[a] # "asked"
      BY <1>1, <2>3, <2>4, <3>1, <3>2 DEF CanGo, NoneForgotten, Heeded
    <3>4. talk[a] # "handing"
      BY <1>1, <3>2 DEF CanGo, NoneForgotten, Heeded
    <3> QED BY <2>4, <3>1, <3>3, <3>4 DEF CanGo
  <2> QED BY <2>3, <2>5
<1> QED BY <1>1, InitForgetsNone, StepForgetsNone, KeptAlways, PTL DEF Spec
=============================================================================
