--------------------------- MODULE ServeServer ---------------------------
(* This window served to others: serve/server.go, which takes their
   connections and ends them, and serve/control.go, which tells each what this
   window has open.

   A connection is a client; it opens one control channel and one session at
   most.  A snapshot of what is open is a number, 0 for none.  What a
   connection's goroutine does between two locks, calls or channel operations
   is one step.  A goroutine that publishes, the application's or a control
   channel's own, holds the snapshot it sends and the watchers still to be
   given it.                                                                 *)
EXTENDS Integers, FiniteSets

CONSTANTS Clients,    \* the windows that connect
          Listeners,  \* bound: those of them that ask what is open
          Workers,    \* bound: those of them that start a session
          App,        \* the goroutine of the application
          Accept,     \* the goroutine that takes connections
          AtOnce,     \* handshakesAtOnce (8)
          MaxSnaps    \* bound: the snapshots there are

ASSUME ClientsAssumption == Listeners \cup Workers \subseteq Clients /\ App \notin Clients /\ App # Accept
ASSUME AtOnceAssumption == AtOnce \in Nat \ {0} /\ MaxSnaps \in Nat \ {0}

VARIABLES
  conn,       \* each connection: where its goroutine is, its socket, its timer
  session,    \* what each client works in: "none", "live" or "over"
  listening,  \* the listener is open
  closed,     \* Server.closed
  arriving,   \* Server.arriving, the connections part way through connecting
  clients,    \* Server.clients
  taken,      \* the connections Close took off both, still to be closed
  closer,     \* how far each of the two goroutines that may Close has come
  kicked,     \* the client the application is throwing out, as a set
  telling,    \* the watchers going has yet to write the reason to
  told,       \* those it has written it to
  watching,   \* Server.watching
  control,    \* where each control channel's runControl is
  watcher,    \* each watcher's mailbox, and the goroutine that writes from it
  snap,       \* what this window has open: app.serving.snap
  pub         \* what each goroutine is publishing

conns == <<conn, session>>
server == <<listening, closed, arriving, clients, taken, closer>>
going == <<kicked, telling, told>>
mail == <<watching, control, watcher, snap, pub>>
vars == <<conns, server, going, mail>>

Stages == {"away", "accepted", "signing", "signed", "departed", "serving",
           "finishing", "gone", "refused"}
Snaps == 0..MaxSnaps
Publishers == Clients \cup {App}

Idle == [line |-> 0, left |-> {}, waking |-> {}]
NewWatcher == [next |-> 0, stopped |-> FALSE, wake |-> FALSE, at |-> "off",
               line |-> 0, shown |-> 0]

Connections == [at : Stages, open : BOOLEAN, late : BOOLEAN]
Watchers == [next : Snaps, stopped : BOOLEAN, wake : BOOLEAN,
             at : {"off", "wait", "write", "end"}, line : Snaps, shown : Snaps]
Publications == [line : Snaps, left : SUBSET Clients, waking : SUBSET Clients]

TypeOK ==
  /\ conn \in [Clients -> Connections]
  /\ session \in [Clients -> {"none", "live", "over"}]
  /\ listening \in BOOLEAN /\ closed \in BOOLEAN
  /\ arriving \subseteq Clients /\ clients \subseteq Clients /\ taken \subseteq Clients
  /\ closer \in [{App, Accept} -> {"no", "telling", "closing", "done"}]
  /\ kicked \subseteq Clients /\ telling \subseteq Clients /\ told \subseteq Clients
  /\ watching \subseteq Clients
  /\ control \in [Clients -> {"none", "new", "added", "telling", "reading", "ending", "ended"}]
  /\ watcher \in [Clients -> Watchers]
  /\ snap \in Snaps
  /\ pub \in [Publishers -> Publications]

Init ==
  /\ conn = [c \in Clients |-> [at |-> "away", open |-> FALSE, late |-> FALSE]]
  /\ session = [c \in Clients |-> "none"]
  /\ listening = TRUE /\ closed = FALSE /\ arriving = {} /\ clients = {} /\ taken = {}
  /\ closer = [g \in {App, Accept} |-> "no"]
  /\ kicked = {} /\ telling = {} /\ told = {} /\ watching = {}
  /\ control = [c \in Clients |-> "none"]
  /\ watcher = [c \in Clients |-> NewWatcher]
  /\ snap = 1 /\ pub = [p \in Publishers |-> Idle]
---------------------------------------------------------------------------
At(c, stage) == conn[c].at = stage
Moves(c, stage) == conn' = [conn EXCEPT ![c].at = stage]
HungUp(c, stage) == conn' = [conn EXCEPT ![c].at = stage, ![c].open = FALSE]

(* accept: one more connection, on a goroutine of its own. *)
Accepts(c) ==
  /\ listening /\ At(c, "away")
  /\ conn' = [conn EXCEPT ![c].at = "accepted", ![c].open = TRUE]
  /\ UNCHANGED <<session, server, going, mail>>

(* handshake, arrived: hung up on when the server is closed or busy. *)
Arrived(c) ==
  /\ At(c, "accepted")
  /\ IF closed \/ Cardinality(arriving) >= AtOnce
     THEN HungUp(c, "refused") /\ UNCHANGED arriving
     ELSE Moves(c, "signing") /\ arriving' = arriving \cup {c}
  /\ UNCHANGED <<session, listening, closed, clients, taken, closer, going, mail>>

SignsIn(c) ==
  /\ At(c, "signing") /\ conn[c].open
  /\ Moves(c, "signed")
  /\ UNCHANGED <<session, server, going, mail>>

(* The timer closes the socket, a moment after signing in too. *)
TimesOut(c) ==
  /\ conn[c].at \in {"signing", "signed"} /\ ~conn[c].late
  /\ conn' = [conn EXCEPT ![c].open = FALSE, ![c].late = TRUE]
  /\ UNCHANGED <<session, server, going, mail>>

(* handshake, departed: an unknown key, a closed socket or a time that ran out
   end it here. *)
Departs(c) ==
  /\ \/ At(c, "signing") /\ HungUp(c, "refused")
     \/ /\ At(c, "signed")
        /\ IF conn[c].late THEN HungUp(c, "refused") ELSE Moves(c, "departed")
  /\ arriving' = arriving \ {c}
  /\ UNCHANGED <<session, listening, closed, clients, taken, closer, going, mail>>

AddsAnyway(c) ==   \* faulty variant: closed while authenticating, and kept
  /\ At(c, "departed")
  /\ Moves(c, "serving") /\ clients' = clients \cup {c}
  /\ UNCHANGED <<session, listening, closed, arriving, taken, closer, going, mail>>

(* handshake, add: one that came as the server closed is hung up on; the others
   join, and are served. *)
Adds(c) ==
  /\ At(c, "departed")
  /\ IF closed THEN HungUp(c, "refused") /\ UNCHANGED clients
     ELSE Moves(c, "serving") /\ clients' = clients \cup {c}
  /\ UNCHANGED <<session, listening, closed, arriving, taken, closer, going, mail>>

(* The client hangs up, or its link goes; before it is served that is a handshake
   that fails. *)
Leaves(c) ==
  /\ At(c, "serving") /\ conn[c].open /\ conn' = [conn EXCEPT ![c].open = FALSE]
  /\ UNCHANGED <<session, server, going, mail>>

(* runSession: started for the client, until it ends of itself or is closed as
   the connection finishes. *)
StartsSession(c) ==
  /\ At(c, "serving") /\ c \in Workers /\ session[c] = "none"
  /\ session' = [session EXCEPT ![c] = "live"]
  /\ UNCHANGED <<conn, server, going, mail>>

EndsSession(c) ==
  /\ session[c] = "live" /\ session' = [session EXCEPT ![c] = "over"]
  /\ UNCHANGED <<conn, server, going, mail>>

(* conn.Wait returns, and the context ends. *)
Finishes(c) ==
  /\ At(c, "serving") /\ ~conn[c].open /\ Moves(c, "finishing")
  /\ UNCHANGED <<session, server, going, mail>>

DropsAtOnce(c) ==   \* faulty variant: the sessions are not waited for
  /\ At(c, "finishing")
  /\ Moves(c, "gone") /\ clients' = clients \ {c}
  /\ UNCHANGED <<session, listening, closed, arriving, taken, closer, going, mail>>

(* served closes once every session has been hung up on; the client is
   forgotten, and said to have gone. *)
Drops(c) ==
  /\ At(c, "finishing") /\ session[c] # "live" /\ control[c] \in {"none", "ended"}
  /\ Moves(c, "gone") /\ clients' = clients \ {c}
  /\ UNCHANGED <<session, listening, closed, arriving, taken, closer, going, mail>>
---------------------------------------------------------------------------
(* runControl: the channel is taken, and its watcher added unless the server
   has closed. *)
OpensControl(c) ==
  /\ At(c, "serving") /\ c \in Listeners /\ control[c] = "none"
  /\ control' = [control EXCEPT ![c] = "new"]
  /\ UNCHANGED <<conns, server, going, watching, watcher, snap, pub>>

AddsWatcher(c) ==
  /\ control[c] = "new"
  /\ IF closed
     THEN control' = [control EXCEPT ![c] = "ended"] /\ UNCHANGED <<watching, watcher>>
     ELSE /\ watching' = watching \cup {c}
          /\ control' = [control EXCEPT ![c] = "added"]
          /\ watcher' = [watcher EXCEPT ![c].at = "wait"]
  /\ UNCHANGED <<conns, server, going, snap, pub>>

(* Publish: to everyone listening now. *)
Publishes(p, line, list) ==
  pub' = [pub EXCEPT ![p] = IF list = {} THEN Idle
                            ELSE [line |-> line, left |-> list, waking |-> {}]]

(* runControl: what is open right now is read, and then published. *)
ReadsOpens(c) ==
  /\ control[c] = "added"
  /\ control' = [control EXCEPT ![c] = "telling"]
  /\ pub' = [pub EXCEPT ![c].line = snap]
  /\ UNCHANGED <<conns, server, going, watching, watcher, snap>>

TellsOpens(c) ==
  /\ control[c] = "telling"
  /\ control' = [control EXCEPT ![c] = "reading"]
  /\ Publishes(c, pub[c].line, watching)
  /\ UNCHANGED <<conns, server, going, watching, watcher, snap>>

(* The application: what is open changed, and is published. *)
AppFree == pub[App] = Idle /\ kicked = {} /\ closer[App] = "no"

Changes ==
  /\ AppFree /\ snap < MaxSnaps
  /\ snap' = snap + 1 /\ Publishes(App, snap + 1, watching)
  /\ UNCHANGED <<conns, server, going, watching, control, watcher>>

PutsWakingFirst(p, c) ==   \* faulty variant: woken before there is anything
  /\ c \in pub[p].left
  /\ IF c \notin pub[p].waking
     THEN /\ watcher' = [watcher EXCEPT ![c].wake = TRUE]
          /\ pub' = [pub EXCEPT ![p].waking = @ \cup {c}]
     ELSE /\ watcher' = IF watcher[c].stopped THEN watcher
                        ELSE [watcher EXCEPT ![c].next = pub[p].line]
          /\ Publishes(p, pub[p].line, pub[p].left \ {c})
  /\ UNCHANGED <<conns, server, going, watching, control, snap>>

(* put: the snapshot replaces one not yet written, and then the watcher's
   goroutine is woken. *)
Puts(p, c) ==
  /\ c \in pub[p].left /\ pub[p].waking = {}
  /\ IF watcher[c].stopped THEN Publishes(p, pub[p].line, pub[p].left \ {c}) /\ UNCHANGED watcher
     ELSE /\ watcher' = [watcher EXCEPT ![c].next = pub[p].line]
          /\ pub' = [pub EXCEPT ![p].left = @ \ {c}, ![p].waking = {c}]
  /\ UNCHANGED <<conns, server, going, watching, control, snap>>

Wakes(p, c) ==
  /\ c \in pub[p].waking
  /\ watcher' = [watcher EXCEPT ![c].wake = TRUE]
  /\ Publishes(p, pub[p].line, pub[p].left)
  /\ UNCHANGED <<conns, server, going, watching, control, snap>>

(* send: woken, it takes what there is, or ends when it has been stopped. *)
Takes(c) ==
  /\ watcher[c].at = "wait" /\ watcher[c].wake
  /\ watcher' = [watcher EXCEPT ![c] =
       [@ EXCEPT !.wake = FALSE, !.next = 0, !.line = watcher[c].next,
                 !.at = IF watcher[c].next # 0 THEN "write"
                        ELSE IF watcher[c].stopped THEN "end" ELSE "wait"]]
  /\ UNCHANGED <<conns, server, going, watching, control, snap, pub>>

(* A write waits for as long as the client does not read, which may be for ever. *)
Writes(c) ==
  /\ watcher[c].at = "write" /\ conn[c].open /\ c \notin told
  /\ watcher' = [watcher EXCEPT ![c].at = "wait", ![c].line = 0, ![c].shown = watcher[c].line]
  /\ UNCHANGED <<conns, server, going, watching, control, snap, pub>>

(* dropWatcher: forgotten, stopped and woken. *)
Dropped(w) == [w EXCEPT !.stopped = TRUE, !.next = 0, !.wake = TRUE]

WriteFails(c) ==
  /\ watcher[c].at = "write" /\ (~conn[c].open \/ c \in told)
  /\ watching' = watching \ {c}
  /\ watcher' = [watcher EXCEPT ![c] = [Dropped(@) EXCEPT !.at = "end", !.line = 0]]
  /\ UNCHANGED <<conns, server, going, control, snap, pub>>

(* runControl: the connection has finished, or the client let go of the channel,
   which it does once it has read why this window is going. *)
EndsControl(c) ==
  /\ control[c] = "reading" /\ pub[c] = Idle /\ (At(c, "finishing") \/ c \in told)
  /\ control' = [control EXCEPT ![c] = "ending"]
  /\ watching' = watching \ {c}
  /\ watcher' = [watcher EXCEPT ![c] = Dropped(@)]
  /\ UNCHANGED <<conns, server, going, snap, pub>>

ControlEnds(c) ==
  /\ control[c] = "ending" /\ watcher[c].at = "end"
  /\ control' = [control EXCEPT ![c] = "ended"]
  /\ watcher' = [watcher EXCEPT ![c] = [NewWatcher EXCEPT !.stopped = TRUE, !.at = "end"]]
  /\ UNCHANGED <<conns, server, going, watching, snap, pub>>
---------------------------------------------------------------------------
(* going: a goroutine for each writes the reason and waits for it to be read. *)
Tells(c) ==
  /\ c \in telling
  /\ IF conn[c].open /\ control[c] \notin {"ending", "ended"} /\ watcher[c].at # "end"
     THEN watcher[c].at # "write" /\ told' = told \cup {c}
     ELSE UNCHANGED told
  /\ telling' = telling \ {c}
  /\ UNCHANGED <<conns, server, kicked, mail>>

(* disconnectClient: told why, and hung up on within the time that has.  One whose
   socket is closed has nothing more to lose by it. *)
Kicks(c) ==
  /\ AppFree /\ At(c, "serving") /\ conn[c].open
  /\ kicked' = {c} /\ telling' = telling \cup ({c} \cap watching)
  /\ UNCHANGED <<conns, server, told, mail>>

KickCloses(c) ==
  /\ c \in kicked /\ kicked' = {}
  /\ conn' = [conn EXCEPT ![c].open = FALSE]
  /\ UNCHANGED <<session, server, telling, told, mail>>

(* Close: everyone is told why first.  The application closes what it serves, and
   accept when the listener fails. *)
StartsClosing(g) ==
  /\ closer[g] = "no"
  /\ IF g = App THEN AppFree /\ UNCHANGED listening
     ELSE listening /\ ~closed /\ listening' = FALSE
  /\ closer' = [closer EXCEPT ![g] = "telling"] /\ telling' = telling \cup watching
  /\ UNCHANGED <<conns, closed, arriving, clients, taken, kicked, told, mail>>

ShutsSignedOnly(g) ==   \* faulty variant: the half-connected are forgotten
  /\ closer[g] = "telling"
  /\ closed' = TRUE
  /\ IF closed THEN closer' = [closer EXCEPT ![g] = "done"] /\ UNCHANGED <<arriving, clients, taken>>
     ELSE /\ closer' = [closer EXCEPT ![g] = "closing"]
          /\ taken' = clients /\ clients' = {} /\ arriving' = {}
  /\ UNCHANGED <<conns, listening, going, mail>>

(* Close: within the time going has, the one that finds it open takes everyone
   off the lists. *)
Shuts(g) ==
  /\ closer[g] = "telling"
  /\ closed' = TRUE
  /\ IF closed THEN closer' = [closer EXCEPT ![g] = "done"] /\ UNCHANGED <<arriving, clients, taken>>
     ELSE /\ closer' = [closer EXCEPT ![g] = "closing"]
          /\ taken' = clients \cup arriving /\ clients' = {} /\ arriving' = {}
  /\ UNCHANGED <<conns, listening, going, mail>>

(* Close: the listener and then each of those are closed. *)
Closes(g) ==
  /\ closer[g] = "closing" /\ listening' = FALSE
  /\ IF listening \/ taken # {}
     THEN /\ \E who \in SUBSET taken :
               /\ Cardinality(who) = IF listening \/ taken = {} THEN 0 ELSE 1
               /\ taken' = taken \ who
               /\ conn' = [c \in Clients |-> IF c \in who THEN [conn[c] EXCEPT !.open = FALSE] ELSE conn[c]]
          /\ UNCHANGED closer
     ELSE closer' = [closer EXCEPT ![g] = "done"] /\ UNCHANGED <<conn, taken>>
  /\ UNCHANGED <<session, closed, arriving, clients, going, mail>>
---------------------------------------------------------------------------
Connecting(c) == Arrived(c) \/ Departs(c) \/ Adds(c) \/ Finishes(c) \/ Drops(c)
Controlling(c) == AddsWatcher(c) \/ ReadsOpens(c) \/ TellsOpens(c) \/ EndsControl(c)
                  \/ ControlEnds(c)
Sending(c) == Takes(c) \/ WriteFails(c)
Publishing(p) == \E c \in Clients : Puts(p, c) \/ Wakes(p, c)
Closing(g) == Shuts(g) \/ Closes(g)

Next ==
  \/ \E c \in Clients : \/ Accepts(c) \/ SignsIn(c) \/ TimesOut(c) \/ Leaves(c)
                        \/ Connecting(c) \/ StartsSession(c) \/ EndsSession(c)
                        \/ OpensControl(c) \/ Controlling(c) \/ Sending(c) \/ Writes(c)
                        \/ Tells(c) \/ Kicks(c) \/ KickCloses(c)
  \/ \E p \in Publishers : Publishing(p)
  \/ \E g \in {App, Accept} : StartsClosing(g) \/ Closing(g)
  \/ Changes

Spec == Init /\ [][Next]_vars

(* What the server does by itself: a goroutine that can go on does, the timer of
   a handshake runs out, and a session is closed once its connection has finished.  Nothing makes a client
   read.  Every behaviour has finitely many steps, so fairness to all of these
   together is fairness to each. *)
Serving ==
  \/ \E c \in Clients : \/ Connecting(c) \/ TimesOut(c) \/ Controlling(c) \/ Sending(c)
                        \/ KickCloses(c) \/ (At(c, "finishing") /\ EndsSession(c))
  \/ \E p \in Publishers : Publishing(p)
  \/ \E g \in {App, Accept} : Closing(g)

FairSpec == Spec /\ WF_vars(Serving)
---------------------------------------------------------------------------
(* Once Close has returned, a socket still open is one whose own goroutine is
   about to find the server closed. *)
NobodyOutlivesClose ==
  closed /\ (\A g \in {App, Accept} : closer[g] # "closing")
    => ~listening /\ \A c \in Clients : conn[c].open => conn[c].at \in {"accepted", "departed"}

(* A client is not said to have gone while anything of its is still here. *)
GoneMeansOver ==
  \A c \in Clients : At(c, "gone") =>
    /\ ~conn[c].open /\ session[c] # "live" /\ c \notin clients \cup watching
    /\ control[c] \in {"none", "ended"}

(* A goroutine asleep with a snapshot to write, or told to stop, has been woken
   or is about to be. *)
NoWakeIsLost ==
  \A c \in Clients :
    watcher[c].at = "wait" /\ (watcher[c].next # 0 \/ watcher[c].stopped)
      => watcher[c].wake \/ \E p \in Publishers : c \in pub[p].waking

(* A server that has closed ends every connection, one in the middle of a
   handshake and one whose client has stopped reading too. *)
NobodyIsLeft == \A c \in Clients : conn[c].at \in {"away", "refused", "gone"}
EverybodyGoes == closed ~> NobodyIsLeft

(* What a watcher is sent is the latest snapshot: one with nothing on its way
   shows what this window has open.  Not so in this code, and in no run: README,
   Where code and words part. *)
ShowsTheLatest ==
  (\A p \in Publishers : pub[p] = Idle) =>
    \A c \in watching : /\ control[c] = "reading" /\ watcher[c].at = "wait"
                        /\ watcher[c].next = 0
                        => watcher[c].shown = snap
============================================================================
