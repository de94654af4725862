------------------------------ MODULE Tunnel ------------------------------
(* A tunnel over a connection: remote/tunnel.go, which accepts streams and
   carries them; remote/conn.go, the connection it rides on and the one that
   carries that connection; app/tunnels.go and app/connect.go, the row the
   window shows.

   The connection Far is made through the connection Near and rides on it; the
   tunnel rides on Far.  Each of the three is closed by up to three callers at
   once: whoever asks for it ("user"), what carries it, which closes its riders
   first ("carrier"), and itself ("own": an accept loop whose listener failed,
   or a connection that came too late to be registered).  A stream is the
   goroutine carry, with two sockets: near, which was accepted, and far, which
   it dials.  Bytes are not modelled.                                        *)
EXTENDS Integers, FiniteSets

CONSTANTS Arrivals,    \* bound: the connections that arrive at the listening port
          MaxStreams,  \* maxStreams (256), of the sockets held
          Kinds,       \* which of LocalForward, RemoteForward, DynamicForward
          MaxTrouble   \* bound: what the user, the network and the listener do

ASSUME MaxStreamsAssumption == Arrivals \in Nat /\ MaxStreams \in Nat \ {0} /\ MaxTrouble \in Nat
ASSUME KindsAssumption == Kinds \subseteq {"local", "remote", "dynamic"}

VARIABLES
  kind,       \* Tunnel.Kind
  up,         \* the connections whose transport is up
  opened,     \* how far each of Far and the tunnel is opened
  riders,     \* Conn.riders of each connection
  closing,    \* the closing flag of each
  taken,      \* the riders a closing connection took, and closes first
  finished,   \* those whose close is over: Conn.done, Forwarder.closeOnce
  closer,     \* how far each caller of a close has come
  listening,  \* the listener is open
  broke,      \* it failed on its own
  serve,      \* the accept loop
  stream,     \* how far each stream is
  sock,       \* the sockets open, as <<stream, end>>
  live,       \* Forwarder.live
  cut,        \* the sockets closeAll took, still to be closed
  halves,     \* the copying halves of each stream still running
  row,        \* the row of the tunnel: "none", "live", "stopped" or "cleared"
  stopEvent,  \* onStopped is queued for the window
  goneEvent,  \* what came of the watch on Far: "no", "queued" or "seen"
  trouble     \* how much of MaxTrouble there has been

conns == <<up, opened, riders, closing, taken, finished, closer>>
accepting == <<listening, broke, serve>>
carrying == <<stream, sock, live, cut, halves>>
window == <<row, stopEvent, goneEvent>>
vars == <<kind, conns, accepting, carrying, window, trouble>>

Conns == {"Near", "Far"}
Streams == 1..Arrivals    \* in the order they arrive
Things == Conns \cup {"Tunnel"}
Callers == {"user", "carrier", "own"}
Carrier == [r \in {"Far", "Tunnel"} |-> IF r = "Far" THEN "Near" ELSE "Far"]
Sockets == Streams \X {"near", "far"}
Carried == {"asking", "dialing", "answering", "dialled", "copying"}
Refused == {"idle", "held", "ended"}
None == [c \in Callers |-> "no"]

TypeOK ==
  /\ kind \in Kinds /\ up \subseteq Conns
  /\ opened \in [{"Far", "Tunnel"} -> {"no", "asked", "made", "open", "refused", "failed"}]
  /\ riders \in [Conns -> SUBSET {"Far", "Tunnel"}]
  /\ taken \in [Conns -> SUBSET {"Far", "Tunnel"}]
  /\ closing \subseteq Things /\ finished \subseteq closing
  /\ closer \in [Things -> [Callers -> {"no", "called", "runs", "cuts", "waits", "drops", "done"}]]
  /\ listening \in BOOLEAN /\ broke \in BOOLEAN
  /\ serve \in {"no", "accepting", "pausing", "closing", "over"}
  /\ stream \in [Streams -> {"new"} \cup Carried \cup Refused]
  /\ sock \subseteq Sockets /\ live \subseteq Sockets /\ cut \subseteq Sockets
  /\ halves \in [Streams -> SUBSET {"out", "back"}]
  /\ row \in {"none", "live", "stopped", "cleared"} /\ stopEvent \in BOOLEAN
  /\ goneEvent \in {"no", "queued", "seen"} /\ trouble \in 0..MaxTrouble

Init ==
  /\ kind \in Kinds
  /\ up = {"Near"} /\ opened = [r \in {"Far", "Tunnel"} |-> "no"]
  /\ riders = [c \in Conns |-> {}] /\ taken = [c \in Conns |-> {}]
  /\ closing = {} /\ finished = {} /\ closer = [r \in Things |-> None]
  /\ listening = FALSE /\ broke = FALSE /\ serve = "no"
  /\ stream = [s \in Streams |-> "idle"] /\ sock = {} /\ live = {} /\ cut = {}
  /\ halves = [s \in Streams |-> {}]
  /\ row = "none" /\ stopEvent = FALSE /\ goneEvent = "no" /\ trouble = 0
---------------------------------------------------------------------------
(* Closing: Conn.closeRider and Forwarder.closeRider, the same for both.  *)

Trouble == trouble < MaxTrouble /\ trouble' = trouble + 1
Calls(r, by) == closer' = [closer EXCEPT ![r][by] = "called"]

(* The first caller closes; the others wait for it.  A connection takes its
   riders, and calls for the close of each, all at once; a tunnel takes the
   sockets it holds. *)
Begins(r, by) ==
  /\ closer[r][by] = "called"
  /\ IF r \in closing
     THEN /\ closer' = [closer EXCEPT ![r][by] = "waits"]
          /\ UNCHANGED <<closing, riders, taken, live, cut>>
     ELSE /\ closing' = closing \cup {r}
          /\ IF r = "Tunnel"
             THEN /\ closer' = [closer EXCEPT ![r][by] = "runs"]
                  /\ cut' = live /\ live' = {} /\ UNCHANGED <<riders, taken>>
             ELSE /\ closer' = [x \in Things |-> IF x = r THEN [closer[x] EXCEPT ![by] = "runs"]
                                ELSE IF x \in riders[r] THEN [closer[x] EXCEPT !["carrier"] = "called"]
                                ELSE closer[x]]
                  /\ taken' = [taken EXCEPT ![r] = riders[r]]
                  /\ riders' = [riders EXCEPT ![r] = {}]
                  /\ UNCHANGED <<live, cut>>
  /\ UNCHANGED <<kind, trouble, up, opened, finished, accepting, stream, sock, halves, window>>

AfterClosing(r, by) == IF by = "carrier" \/ r = "Near" THEN "done" ELSE "drops"

HangsUpFirst(c, by) ==   \* faulty variant: the transport before its riders
  /\ c \in Conns /\ closer[c][by] = "runs"
  /\ up' = up \ {c} /\ finished' = finished \cup {c}
  /\ closer' = [closer EXCEPT ![c][by] = AfterClosing(c, by)]
  /\ UNCHANGED <<kind, trouble, opened, riders, closing, taken, accepting, carrying, window>>

(* Conn.closeRider: the transport after every rider's close has returned. *)
HangsUp(c, by) ==
  /\ c \in Conns /\ closer[c][by] = "runs"
  /\ \A r \in taken[c] : closer[r]["carrier"] = "done"
  /\ up' = up \ {c} /\ finished' = finished \cup {c}
  /\ closer' = [closer EXCEPT ![c][by] = AfterClosing(c, by)]
  /\ UNCHANGED <<kind, trouble, opened, riders, closing, taken, accepting, carrying, window>>

(* closeAll, stopListening: the far machine that listens for a remote tunnel
   may not answer in time, and goes on listening. *)
StopsListening(by) ==
  /\ closer["Tunnel"][by] = "runs"
  /\ listening' \in IF kind = "remote" THEN {FALSE, listening} ELSE {FALSE}
  /\ closer' = [closer EXCEPT !["Tunnel"][by] = "cuts"]
  /\ UNCHANGED <<kind, trouble, up, opened, riders, closing, taken, finished, broke, serve,
                 carrying, window>>

CutsWaiting(by) ==   \* faulty variant: a rider that waits for the connection closing it
  /\ closer["Tunnel"][by] = "cuts" /\ ("Far" \in closing => "Far" \in finished)
  /\ sock' = sock \ cut /\ cut' = {}
  /\ finished' = finished \cup {"Tunnel"}
  /\ closer' = [closer EXCEPT !["Tunnel"][by] = AfterClosing("Tunnel", by)]
  /\ UNCHANGED <<kind, trouble, up, opened, riders, closing, taken, accepting, stream, live,
                 halves, window>>

(* closeAll: the streams after the listener. *)
Cuts(by) ==
  /\ closer["Tunnel"][by] = "cuts"
  /\ sock' = sock \ cut /\ cut' = {}
  /\ finished' = finished \cup {"Tunnel"}
  /\ closer' = [closer EXCEPT !["Tunnel"][by] = AfterClosing("Tunnel", by)]
  /\ UNCHANGED <<kind, trouble, up, opened, riders, closing, taken, accepting, stream, live,
                 halves, window>>

Waited(r, by) ==
  /\ closer[r][by] = "waits" /\ r \in finished
  /\ closer' = [closer EXCEPT ![r][by] = AfterClosing(r, by)]
  /\ UNCHANGED <<kind, trouble, up, opened, riders, closing, taken, finished, accepting, carrying, window>>

(* Close, and not closeRider: what carries it forgets it. *)
Drops(r, by) ==
  /\ closer[r][by] = "drops"
  /\ riders' = [riders EXCEPT ![Carrier[r]] = @ \ {r}]
  /\ closer' = [closer EXCEPT ![r][by] = "done"]
  /\ UNCHANGED <<kind, trouble, up, opened, closing, taken, finished, accepting, carrying, window>>

(* A connection is closed by the user, the tunnel only through its row. *)
UserCloses(c) ==
  /\ Trouble
  /\ c \in Conns /\ closer[c]["user"] = "no"
  /\ c = "Far" => opened["Far"] = "open"
  /\ Calls(c, "user")
  /\ UNCHANGED <<kind, up, opened, riders, closing, taken, finished, accepting, carrying, window>>

(* The network takes a transport, and one carried inside another with it. *)
TransportEnds(c) ==
  /\ Trouble
  /\ c \in up
  /\ \/ c \notin closing
     \/ c = "Far" /\ "Near" \notin up
  /\ up' = IF c = "Near" THEN {} ELSE up \ {c}
  /\ UNCHANGED <<kind, opened, riders, closing, taken, finished, closer, accepting, carrying, window>>
---------------------------------------------------------------------------
(* Opening: Conn.Through and connect, OpenTunnel, and register.           *)

RegisterAnyway(r) ==   \* faulty variant: register does not look whether it is closing
  /\ opened[r] = "made"
  /\ opened' = [opened EXCEPT ![r] = "open"]
  /\ riders' = [riders EXCEPT ![Carrier[r]] = @ \cup {r}]
  /\ serve' = IF r = "Tunnel" THEN "accepting" ELSE serve
  /\ row' = IF r = "Tunnel" THEN "live" ELSE row
  /\ UNCHANGED <<kind, trouble, up, closing, taken, finished, closer, listening, broke,
                 carrying, stopEvent, goneEvent>>

(* Through and OpenTunnel refuse a connection that is closing; openTunnel has
   none once the window saw it go. *)
Opens(r) ==
  /\ opened[r] = "no" /\ (r = "Tunnel" => opened["Far"] = "open" /\ goneEvent # "seen")
  /\ opened' = [opened EXCEPT ![r] = IF Carrier[r] \in closing THEN "failed" ELSE "asked"]
  /\ UNCHANGED <<kind, trouble, up, riders, closing, taken, finished, closer, accepting, carrying, window>>

(* connect: over the connection that carries it, or not at all. *)
Connects ==
  /\ opened["Far"] = "asked"
  /\ \/ "Near" \in up /\ up' = up \cup {"Far"} /\ opened' = [opened EXCEPT !["Far"] = "made"]
     \/ UNCHANGED up /\ opened' = [opened EXCEPT !["Far"] = "failed"]
  /\ UNCHANGED <<kind, trouble, riders, closing, taken, finished, closer, accepting, carrying,
                 window>>

(* OpenTunnel: the listener is opened before it returns, here or on the far
   machine. *)
Listens ==
  /\ opened["Tunnel"] = "asked"
  /\ \/ /\ kind # "remote" \/ "Far" \in up
        /\ listening' = TRUE /\ opened' = [opened EXCEPT !["Tunnel"] = "made"]
     \/ UNCHANGED listening /\ opened' = [opened EXCEPT !["Tunnel"] = "failed"]
  /\ UNCHANGED <<kind, trouble, up, riders, closing, taken, finished, closer, broke, serve,
                 carrying, window>>

(* register: refused once the connection is closing, when a connection is
   closed and a tunnel stops listening. *)
Registers(r) ==
  /\ opened[r] = "made"
  /\ IF Carrier[r] \in closing
     THEN /\ opened' = [opened EXCEPT ![r] = "refused"]
          /\ IF r = "Far" THEN Calls(r, "own") /\ UNCHANGED listening
             ELSE listening' = FALSE /\ UNCHANGED closer
          /\ UNCHANGED <<riders, serve, row>>
     ELSE /\ opened' = [opened EXCEPT ![r] = "open"]
          /\ riders' = [riders EXCEPT ![Carrier[r]] = @ \cup {r}]
          /\ serve' = IF r = "Tunnel" THEN "accepting" ELSE serve
          /\ row' = IF r = "Tunnel" THEN "live" ELSE row
          /\ UNCHANGED <<listening, closer>>
  /\ UNCHANGED <<kind, trouble, up, closing, taken, finished, broke, carrying, stopEvent, goneEvent>>
---------------------------------------------------------------------------
(* The accept loop: Forwarder.serve.                                      *)

Accepts(s) ==
  /\ serve = "accepting" /\ listening
  /\ stream[s] = "idle" /\ \A t \in 1..s-1 : stream[t] # "idle"
  /\ stream' = [stream EXCEPT ![s] = "new"]
  /\ sock' = sock \cup {<<s, "near">>}
  /\ UNCHANGED <<kind, trouble, conns, accepting, live, cut, halves, window>>

(* A failure to carry on from: a client gone, or no handles left. *)
AcceptPasses ==
  /\ Trouble
  /\ serve = "accepting" /\ listening
  /\ serve' = IF "Tunnel" \in closing THEN "over" ELSE "pausing"
  /\ UNCHANGED <<kind, conns, listening, broke, carrying, window>>

AcceptsAgain ==
  /\ serve = "pausing"
  /\ serve' = "accepting"
  /\ UNCHANGED <<kind, trouble, conns, listening, broke, carrying, window>>

(* The listener breaks by itself; a remote one with its connection. *)
ListenerBreaks ==
  /\ Trouble
  /\ serve \in {"accepting", "pausing"} /\ listening
  /\ listening' = FALSE /\ broke' = TRUE
  /\ UNCHANGED <<kind, conns, serve, carrying, window>>

(* What the loop does of a listener that is closed: one that failed on its own
   ends the tunnel. *)
AcceptFails ==
  /\ serve = "accepting" /\ (~listening \/ (kind = "remote" /\ "Far" \notin up))
  /\ IF "Tunnel" \in closing THEN serve' = "over" /\ UNCHANGED <<closer, broke>>
     ELSE serve' = "closing" /\ Calls("Tunnel", "own") /\ broke' = TRUE
  /\ UNCHANGED <<kind, trouble, up, opened, riders, closing, taken, finished, listening, carrying, window>>

AcceptFailsQuietly ==   \* faulty variant: a tunnel that ended itself tells nobody
  /\ serve = "closing" /\ closer["Tunnel"]["own"] = "done"
  /\ serve' = "over"
  /\ UNCHANGED <<kind, trouble, conns, listening, broke, carrying, window>>

(* stopped: said once it is closed. *)
Stopped ==
  /\ serve = "closing" /\ closer["Tunnel"]["own"] = "done"
  /\ serve' = "over" /\ stopEvent' = TRUE
  /\ UNCHANGED <<kind, trouble, conns, listening, broke, carrying, row, goneEvent>>
---------------------------------------------------------------------------
(* A stream: Forwarder.carry.                                             *)

To(s, at) == stream' = [stream EXCEPT ![s] = at]
Near(s) == <<s, "near">>
Far(s) == <<s, "far">>
Holds(x) == live' = IF "Tunnel" \in closing THEN live ELSE live \cup {x}
(* release and Close of both ends. *)
Ends(s) ==
  /\ To(s, "ended") /\ live' = live \ {Near(s), Far(s)}
  /\ sock' = sock \ {Near(s), Far(s)}

(* hold(near): before anything else. *)
HoldsNear(s) ==
  /\ stream[s] = "new"
  /\ IF "Tunnel" \in closing THEN Ends(s)
     ELSE To(s, "held") /\ live' = live \cup {Near(s)} /\ UNCHANGED sock
  /\ UNCHANGED <<kind, trouble, conns, accepting, cut, halves, window>>

CountsPairs(s) ==   \* faulty variant: two sockets to a stream, so twice as many
  /\ stream[s] = "held"
  /\ IF Cardinality(live) > 2 * MaxStreams THEN Ends(s)
     ELSE To(s, IF kind = "dynamic" THEN "asking" ELSE "dialing") /\ UNCHANGED <<sock, live>>
  /\ UNCHANGED <<kind, trouble, conns, accepting, cut, halves, window>>

(* held() > maxStreams: more than it carries is refused.  A dynamic stream says
   first where it goes; where the others go is known. *)
Counts(s) ==
  /\ stream[s] = "held"
  /\ IF Cardinality(live) > MaxStreams THEN Ends(s)
     ELSE To(s, IF kind = "dynamic" THEN "asking" ELSE "dialing") /\ UNCHANGED <<sock, live>>
  /\ UNCHANGED <<kind, trouble, conns, accepting, cut, halves, window>>

(* socksAsk: within its time, or not. *)
Asks(s) ==
  /\ stream[s] = "asking"
  /\ \/ Near(s) \in sock /\ To(s, "dialing") /\ UNCHANGED <<sock, live>>
     \/ Ends(s)
  /\ UNCHANGED <<kind, trouble, conns, accepting, cut, halves, window>>

(* dial: over the connection, or from here for a remote tunnel; within its
   time.  A dynamic one is answered either way. *)
Dials(s) ==
  /\ stream[s] = "dialing"
  /\ \/ /\ kind = "remote" \/ "Far" \in up
        /\ sock' = sock \cup {Far(s)} /\ UNCHANGED live
        /\ To(s, IF kind = "dynamic" THEN "answering" ELSE "dialled")
     \/ IF kind = "dynamic" THEN To(s, "answering") /\ UNCHANGED <<sock, live>> ELSE Ends(s)
  /\ UNCHANGED <<kind, trouble, conns, accepting, cut, halves, window>>

(* socksAnswer: an answer that does not go through, or says no, ends it. *)
Answers(s) ==
  /\ stream[s] = "answering"
  /\ \/ Near(s) \in sock /\ Far(s) \in sock /\ To(s, "dialled") /\ UNCHANGED <<sock, live>>
     \/ Ends(s)
  /\ UNCHANGED <<kind, trouble, conns, accepting, cut, halves, window>>

KeepsFar(s) ==   \* faulty variant: a far end that opened late is copied all the same
  /\ stream[s] = "dialled"
  /\ To(s, "copying") /\ Holds(Far(s)) /\ halves' = [halves EXCEPT ![s] = {"out", "back"}]
  /\ UNCHANGED <<kind, trouble, conns, accepting, sock, cut, window>>

(* hold(far): one that opened as the tunnel closed is closed again. *)
HoldsFar(s) ==
  /\ stream[s] = "dialled"
  /\ IF "Tunnel" \in closing THEN Ends(s) /\ UNCHANGED halves
     ELSE /\ To(s, "copying") /\ live' = live \cup {Far(s)} /\ UNCHANGED sock
          /\ halves' = [halves EXCEPT ![s] = {"out", "back"}]
  /\ UNCHANGED <<kind, trouble, conns, accepting, cut, window>>

(* both: a half whose copy stopped closes both ends, which stops the other. *)
HalfEnds(s, h) ==
  /\ stream[s] = "copying" /\ h \in halves[s]
  /\ sock' = sock \ {Near(s), Far(s)}
  /\ halves' = [halves EXCEPT ![s] = @ \ {h}]
  /\ UNCHANGED <<kind, trouble, conns, accepting, stream, live, cut, window>>

Releases(s) ==
  /\ stream[s] = "copying" /\ halves[s] = {}
  /\ To(s, "ended") /\ live' = live \ {Near(s), Far(s)}
  /\ UNCHANGED <<kind, trouble, conns, accepting, sock, cut, halves, window>>
---------------------------------------------------------------------------
(* The window's row: app/tunnels.go and connect.go, on its one goroutine,
   which waits for the opening and the closes it calls for. *)
WindowFree ==
  closer["Tunnel"]["user"] \in {"no", "done"} /\ opened["Tunnel"] \notin {"asked", "made"}

(* Held.Stop and Held.Close: the tunnel is closed, and has been if its close is
   over. *)
ClosesTunnel ==
  IF closer["Tunnel"]["user"] = "no" THEN Calls("Tunnel", "user") ELSE UNCHANGED closer

(* closeTunnel. *)
RowCloses ==
  /\ Trouble
  /\ WindowFree /\ row \in {"live", "stopped"}
  /\ IF row = "live" THEN ClosesTunnel ELSE UNCHANGED closer
  /\ row' = "cleared"
  /\ UNCHANGED <<kind, up, opened, riders, closing, taken, finished, accepting, carrying, stopEvent, goneEvent>>

(* tunnelStopped: one closed or stopped already is left as it is. *)
RowStops ==
  /\ WindowFree /\ stopEvent /\ stopEvent' = FALSE
  /\ IF row = "live" THEN ClosesTunnel /\ row' = "stopped" ELSE UNCHANGED <<closer, row>>
  /\ UNCHANGED <<kind, trouble, up, opened, riders, closing, taken, finished, accepting, carrying, goneEvent>>

(* The watch on the connection: Wait returns once its transport has ended. *)
WaitReturns ==
  /\ opened["Far"] = "open" /\ "Far" \notin up /\ goneEvent = "no"
  /\ goneEvent' = "queued"
  /\ UNCHANGED <<kind, trouble, conns, accepting, carrying, row, stopEvent>>

(* tunnelsDiedOn: cleared when the connection, or the one it goes through, was
   let go of on purpose, and left stopped when it dropped. *)
RowDies ==
  /\ WindowFree /\ goneEvent = "queued" /\ goneEvent' = "seen"
  /\ IF row = "live"
     THEN /\ ClosesTunnel
          /\ row' = IF \A c \in Conns : closer[c]["user"] = "no" THEN "stopped" ELSE "cleared"
     ELSE UNCHANGED <<closer, row>>
  /\ UNCHANGED <<kind, trouble, up, opened, riders, closing, taken, finished, accepting, carrying, stopEvent>>
---------------------------------------------------------------------------
User == \E c \in Conns : UserCloses(c) \/ TransportEnds(c)
Opening == Connects \/ Listens \/ \E r \in {"Far", "Tunnel"} : Opens(r) \/ Registers(r)
Closing(r, by) ==
  \/ Begins(r, by) \/ HangsUp(r, by) \/ Waited(r, by) \/ Drops(r, by)
  \/ r = "Tunnel" /\ (StopsListening(by) \/ Cuts(by))
Serve == AcceptsAgain \/ AcceptFails \/ Stopped
Carry(s) ==
  \/ HoldsNear(s) \/ Counts(s) \/ Asks(s) \/ Dials(s) \/ Answers(s)
  \/ HoldsFar(s) \/ Releases(s)
Peer == \E s \in Streams : Accepts(s) \/ \E h \in {"out", "back"} : HalfEnds(s, h)
Rows == RowStops \/ WaitReturns \/ RowDies

Next ==
  \/ User \/ Opening \/ (\E r \in Things, by \in Callers : Closing(r, by))
  \/ Serve \/ AcceptPasses \/ ListenerBreaks
  \/ (\E s \in Streams : Carry(s)) \/ Peer \/ Rows \/ RowCloses

Spec == Init /\ [][Next]_vars

(* Every goroutine goes on; a copy goes on to its end once an end of it is
   closed.  A peer need not hang up, nor a user close anything.  Each goroutine
   comes to an end, so none can keep the others waiting, and to be fair to all
   of them together is to be fair to each. *)
CutHalf(s, h) == HalfEnds(s, h) /\ ~({Near(s), Far(s)} \subseteq sock)
Goes ==
  \/ Opening \/ Serve \/ Rows \/ (\E r \in Things, by \in Callers : Closing(r, by))
  \/ \E s \in Streams : Carry(s) \/ \E h \in {"out", "back"} : CutHalf(s, h)
FairSpec == Spec /\ WF_vars(Goes)
---------------------------------------------------------------------------
(* Once a tunnel's close has returned, the only sockets still open are in the
   hands of a stream about to be told it came too late: one just accepted, and
   one just dialled (tunnel.go, hold before anything else). *)
NothingLeftOpen ==
  "Tunnel" \in finished =>
    \A s \in Streams :
      /\ Near(s) \in sock => stream[s] = "new"
      /\ Far(s) \in sock => stream[s] \in {"answering", "dialled"}

(* A connection is hung up by a close only when all that rode on it has ended,
   and nothing is ever open over one whose close is over: conn.go, "Closing the
   connection closes everything riding on it", the riders first, and register,
   "a rider registered then would never be closed by anything". *)
NoneOutlives ==
  \A c \in Conns \cap finished :
    \A r \in {"Far", "Tunnel"} : Carrier[r] = c /\ opened[r] = "open" => r \in finished

(* A tunnel that is not closing carries no more streams at a time than
   maxStreams, though each looks at the count before the others are done. *)
AtMostItCarries ==
  "Tunnel" \notin closing => Cardinality({s \in Streams : stream[s] \in Carried}) <= MaxStreams

(* A close that was called for has returned, and the streams of a tunnel that is
   closing have ended. *)
AllIsClosed ==
  /\ \A r \in Things, by \in Callers : closer[r][by] \in {"no", "done"}
  /\ "Tunnel" \in closing => \A s \in Streams : stream[s] \in {"idle", "ended"}

(* So it is in the end, whoever else closes the same thing, its carrier or its
   riders. *)
ClosingEnds == <>[]AllIsClosed

(* The row of a tunnel that no longer listens is not left saying it does: the
   window hears of a tunnel that ended on its own, and of a connection that
   went with its tunnels (tunnels.go, tunnelStopped and tunnelsDiedOn). *)
RowIsRight == row = "live" => listening
RowIsTrue == <>[]RowIsRight
===========================================================================
