-------------------------- MODULE ServeServerProofs --------------------------
(* What ServeServer promises, for any number of windows that connect, of
   handshakes at once and of snapshots.

   Each promise needs what the goroutines it is about know of one another: Ends,
   what a client still has when its connection is where it is; Held and Ending,
   on which list a socket is that Close must find; Woken and Fresh, who still has
   to wake a writer; Winding, what ends a control channel and its writer once the
   socket is shut.                                                            *)
EXTENDS ServeServer, TLAPS

(* A connection has a session and a control channel only while it is served, and
   a watcher only while its control channel is. *)
Ends(c) ==
  /\ conn[c].open => conn[c].at \in {"accepted", "signing", "signed", "departed", "serving"}
  /\ session[c] = "live" => conn[c].at \in {"serving", "finishing"}
  /\ control[c] \notin {"none", "ended"} => conn[c].at \in {"serving", "finishing"}
  /\ c \in watching => control[c] \in {"added", "telling", "reading"}
  /\ c \in clients => conn[c].at \in {"serving", "finishing"}

(* A socket is on a list Close takes, or was taken, or its own goroutine is
   about to look whether the server is closed. *)
Held(c) ==
  conn[c].open /\ conn[c].at \notin {"accepted", "departed"} =>
    IF closed THEN c \in taken
    ELSE IF conn[c].at = "serving" THEN c \in clients ELSE c \in arriving

Ending == closed => (\E g \in {App, Accept} : closer[g] = "closing") \/ (~listening /\ taken = {})

(* A writer with something to do is awake or about to be woken; one not begun is
   given nothing to do; a stopped one has nothing to write. *)
Woken(c) ==
  /\ watcher[c].at # "end" /\ (watcher[c].next # 0 \/ watcher[c].stopped)
       => watcher[c].wake \/ \E p \in Publishers : c \in pub[p].waking
  /\ watcher[c].stopped => watcher[c].next = 0
  /\ control[c] \in {"none", "new"} => watcher[c].at = "off"

(* A control channel that has yet to publish owes nobody anything, and no
   goroutine that publishes owes two a wake-up at once. *)
Fresh(c) ==
  control[c] \in {"none", "new", "added", "telling"} => pub[c].left = {} /\ pub[c].waking = {}

OneAtATime == \A p \in Publishers : \A c, d \in pub[p].waking : c = d

Kept ==
  /\ TypeOK /\ Ending /\ OneAtATime
  /\ \A c \in Clients : Ends(c) /\ Held(c) /\ Woken(c) /\ Fresh(c)

LEMMA SnapNumbers == 0 \in Snaps /\ 1 \in Snaps /\ Snaps \subseteq Nat
  BY AtOnceAssumption DEF Snaps

LEMMA IdleType == Idle \in Publications
  BY SnapNumbers, Zenon DEF Idle, Publications

(* The parts of what a connection, a watcher and a publication are. *)
LEMMA ConnParts ==
  ASSUME TypeOK, NEW c \in Clients
  PROVE  conn[c].at \in Stages /\ conn[c].open \in BOOLEAN /\ conn[c].late \in BOOLEAN
  BY Zenon DEF TypeOK, Connections

LEMMA WatcherParts ==
  ASSUME TypeOK, NEW c \in Clients
  PROVE  /\ watcher[c].next \in Snaps /\ watcher[c].stopped \in BOOLEAN
         /\ watcher[c].wake \in BOOLEAN /\ watcher[c].line \in Snaps
         /\ watcher[c].shown \in Snaps /\ watcher[c].at \in {"off", "wait", "write", "end"}
  BY Zenon DEF TypeOK, Watchers

LEMMA PubParts ==
  ASSUME TypeOK, NEW p \in Publishers
  PROVE  pub[p].line \in Snaps /\ pub[p].left \in SUBSET Clients /\ pub[p].waking \in SUBSET Clients
  BY Zenon DEF TypeOK, Publications

(* What each way to change a connection makes of it. *)
LEMMA HungUpIs ==
  ASSUME TypeOK, NEW c \in Clients, NEW st \in Stages, HungUp(c, st)
  PROVE  /\ conn' \in [Clients -> Connections]
         /\ \A d \in Clients \ {c} : conn'[d] = conn[d]
         /\ conn'[c].at = st /\ conn'[c].open = FALSE /\ conn'[c].late = conn[c].late
  BY Zenon DEF HungUp, Connections, TypeOK

LEMMA MovesIs ==
  ASSUME TypeOK, NEW c \in Clients, NEW st \in Stages, Moves(c, st)
  PROVE  /\ conn' \in [Clients -> Connections]
         /\ \A d \in Clients \ {c} : conn'[d] = conn[d]
         /\ conn'[c].at = st /\ conn'[c].open = conn[c].open /\ conn'[c].late = conn[c].late
  BY Zenon DEF Moves, Connections, TypeOK

LEMMA ClosedIs ==
  ASSUME TypeOK, NEW c \in Clients, conn' = [conn EXCEPT ![c].open = FALSE]
  PROVE  /\ conn' \in [Clients -> Connections]
         /\ \A d \in Clients \ {c} : conn'[d] = conn[d]
         /\ conn'[c].at = conn[c].at /\ conn'[c].open = FALSE /\ conn'[c].late = conn[c].late
  BY Zenon DEF Connections, TypeOK

(* What Publishes makes of what a goroutine publishes. *)
LEMMA PublishesIs ==
  ASSUME TypeOK, NEW p \in Publishers, NEW n \in Snaps, NEW list \in SUBSET Clients,
         Publishes(p, n, list)
  PROVE  /\ pub' \in [Publishers -> Publications]
         /\ \A q \in Publishers \ {p} : pub'[q] = pub[q]
         /\ pub'[p].left = list /\ pub'[p].waking = {}
  BY IdleType, Zenon DEF Publishes, TypeOK, Publications, Idle

LEMMA InitKept == Init => Kept
<1> SUFFICES ASSUME Init PROVE Kept
  OBVIOUS
<1>1. NewWatcher \in Watchers
  BY SnapNumbers, Zenon DEF NewWatcher, Watchers
<1>2. [at |-> "away", open |-> FALSE, late |-> FALSE] \in Connections
  BY Zenon DEF Connections, Stages
<1>3. TypeOK
  BY <1>1, <1>2, IdleType, SnapNumbers DEF Init, TypeOK
<1>4. \A c \in Clients : conn[c].at = "away" /\ conn[c].open = FALSE
  BY Zenon DEF Init
<1>5. \A c \in Clients : watcher[c].next = 0 /\ watcher[c].stopped = FALSE /\ watcher[c].at = "off"
  BY Zenon DEF Init, NewWatcher
<1>6. \A p \in Publishers : pub[p].left = {} /\ pub[p].waking = {}
  BY Zenon DEF Init, Idle
<1>7. \A c \in Clients : Ends(c) /\ Held(c)
  BY <1>4 DEF Init, Ends, Held
<1>8. \A c \in Clients : Woken(c) /\ Fresh(c)
  BY <1>5, <1>6 DEF Woken, Fresh, Publishers
<1> QED
  BY <1>3, <1>6, <1>7, <1>8 DEF Kept, Ending, OneAtATime, Init

(* What a step leaves alone, the parts about it keep. *)
LEMMA ConnKept ==
  ASSUME Kept, UNCHANGED <<conn, session, listening, closed, arriving, clients, taken, closer>>,
         control' = control, watching' \subseteq watching
  PROVE  Ending' /\ \A c \in Clients : Ends(c)' /\ Held(c)'
  BY DEF Kept, Ends, Held, Ending

LEMMA MailKept ==
  ASSUME Kept, UNCHANGED mail
  PROVE  OneAtATime' /\ \A c \in Clients : Woken(c)' /\ Fresh(c)'
  BY DEF Kept, OneAtATime, Woken, Fresh, mail

(* A connection's own goroutine, and what ends its socket. *)
LEMMA ConnectionKept ==
  ASSUME Kept, NEW c \in Clients,
         \/ Accepts(c) \/ Arrived(c) \/ SignsIn(c) \/ TimesOut(c) \/ Departs(c) \/ Adds(c)
         \/ Leaves(c) \/ StartsSession(c) \/ EndsSession(c) \/ Finishes(c) \/ Drops(c)
  PROVE  Kept'
<1>0. UNCHANGED <<listening, closed, taken, closer, going, mail>>
  BY DEF Accepts, Arrived, SignsIn, TimesOut, Departs, Adds, Leaves, StartsSession, EndsSession,
         Finishes, Drops, server
<1>1. OneAtATime' /\ \A d \in Clients : Woken(d)' /\ Fresh(d)'
  BY <1>0, MailKept
<1>2. Ending'
  BY <1>0 DEF Kept, Ending
<1>3. "accepted" \in Stages /\ "refused" \in Stages /\ "signing" \in Stages /\ "signed" \in Stages
      /\ "departed" \in Stages /\ "serving" \in Stages /\ "finishing" \in Stages /\ "gone" \in Stages
  BY DEF Stages
<1>4. TypeOK /\ Ends(c) /\ Held(c) /\ conn[c].at \in Stages /\ conn[c].open \in BOOLEAN
  BY ConnParts DEF Kept
<1>5. /\ conn' \in [Clients -> Connections] /\ (\A d \in Clients \ {c} : conn'[d] = conn[d])
      /\ Accepts(c) => conn'[c].at = "accepted"
      /\ Arrived(c) => \/ conn'[c].at = "refused" /\ ~conn'[c].open /\ arriving' = arriving
                       \/ conn'[c].at = "signing" /\ ~closed /\ arriving' = arriving \cup {c}
      /\ SignsIn(c) => conn'[c].at = "signed" /\ conn'[c].open = conn[c].open
      /\ TimesOut(c) \/ Leaves(c) => conn'[c].at = conn[c].at /\ ~conn'[c].open
      /\ Departs(c) => \/ conn'[c].at = "refused" /\ ~conn'[c].open
                       \/ conn'[c].at = "departed"
      /\ Adds(c) => \/ conn'[c].at = "refused" /\ ~conn'[c].open /\ clients' = clients
                    \/ conn'[c].at = "serving" /\ ~closed /\ clients' = clients \cup {c}
      /\ StartsSession(c) \/ EndsSession(c) => conn' = conn
      /\ Finishes(c) => conn'[c].at = "finishing" /\ conn'[c].open = conn[c].open
      /\ Drops(c) => conn'[c].at = "gone" /\ conn'[c].open = conn[c].open
  <2>1. Accepts(c) => conn' \in [Clients -> Connections] /\ (\A d \in Clients \ {c} : conn'[d] = conn[d])
                     /\ conn'[c].at = "accepted"
    <3> DEFINE r == [conn[c] EXCEPT !.at = "accepted", !.open = TRUE]
    <3>1. r \in Connections /\ r.at = "accepted"
      BY <1>3, <1>4, Zenon DEF TypeOK, Connections
    <3>2. Accepts(c) => conn' = [conn EXCEPT ![c] = r]
      BY <1>4, Zenon DEF Accepts, TypeOK
    <3> HIDE DEF r
    <3> QED BY <1>4, <3>1, <3>2, Zenon DEF TypeOK
  <2>2. TimesOut(c) => conn' \in [Clients -> Connections] /\ (\A d \in Clients \ {c} : conn'[d] = conn[d])
                     /\ conn'[c].at = conn[c].at /\ conn'[c].open = FALSE
    <3> SUFFICES ASSUME TimesOut(c)
                 PROVE  conn' \in [Clients -> Connections] /\ (\A d \in Clients \ {c} : conn'[d] = conn[d])
                        /\ conn'[c].at = conn[c].at /\ conn'[c].open = FALSE
      OBVIOUS
    <3> DEFINE r == [conn[c] EXCEPT !.open = FALSE, !.late = TRUE]
    <3>1. r \in Connections /\ r.at = conn[c].at /\ r.open = FALSE
      BY <1>4, Zenon DEF TypeOK, Connections
    <3>2. conn' = [conn EXCEPT ![c] = r]
      BY <1>4, Zenon DEF TimesOut, TypeOK
    <3> QED BY <1>4, <3>1, <3>2, Zenon DEF TypeOK
  <2>3. Arrived(c) \/ SignsIn(c) \/ Departs(c) \/ Adds(c) \/ Finishes(c) \/ Drops(c)
          => conn' \in [Clients -> Connections] /\ (\A d \in Clients \ {c} : conn'[d] = conn[d])
    BY <1>3, <1>4, HungUpIs, MovesIs, Zenon DEF Arrived, SignsIn, Departs, Adds, Finishes, Drops
  <2>4. /\ Arrived(c) => \/ conn'[c].at = "refused" /\ ~conn'[c].open /\ arriving' = arriving
                         \/ conn'[c].at = "signing" /\ ~closed /\ arriving' = arriving \cup {c}
        /\ SignsIn(c) => conn'[c].at = "signed" /\ conn'[c].open = conn[c].open
        /\ Departs(c) => \/ conn'[c].at = "refused" /\ ~conn'[c].open
                         \/ conn'[c].at = "departed"
    BY <1>3, <1>4, HungUpIs, MovesIs, Zenon DEF Arrived, SignsIn, Departs
  <2>5. /\ Adds(c) => \/ conn'[c].at = "refused" /\ ~conn'[c].open /\ clients' = clients
                      \/ conn'[c].at = "serving" /\ ~closed /\ clients' = clients \cup {c}
        /\ Finishes(c) => conn'[c].at = "finishing" /\ conn'[c].open = conn[c].open
        /\ Drops(c) => conn'[c].at = "gone" /\ conn'[c].open = conn[c].open
    BY <1>3, <1>4, HungUpIs, MovesIs, Zenon DEF Adds, Finishes, Drops
  <2>6. Leaves(c) => conn' \in [Clients -> Connections] /\ (\A d \in Clients \ {c} : conn'[d] = conn[d])
                     /\ conn'[c].at = conn[c].at /\ ~conn'[c].open
    BY <1>4, ClosedIs, Zenon DEF Leaves
  <2>7. StartsSession(c) \/ EndsSession(c) => conn' = conn
    BY DEF StartsSession, EndsSession
  <2> QED BY <1>4, <2>1, <2>3, <2>4, <2>2, <2>5, <2>6, <2>7 DEF TypeOK
<1>6. TypeOK'
  BY <1>0, <1>4, <1>5 DEF TypeOK, Accepts, Arrived, SignsIn, TimesOut, Departs, Adds, Leaves, StartsSession,
     EndsSession, Finishes, Drops, server, going, mail
<1>7. \A d \in Clients : Ends(d)'
  <2>1. \A d \in Clients \ {c} : Ends(d)'
    <3>1. UNCHANGED <<control, watching>> /\ clients' \subseteq clients \cup {c}
          /\ \A d \in Clients \ {c} : session'[d] = session[d]
      <4>1. UNCHANGED <<control, watching>>
        BY <1>0 DEF mail
      <4>2. clients' \subseteq clients \cup {c}
        BY <1>5 DEF Accepts, Arrived, SignsIn, TimesOut, Departs, Adds, Leaves,
           StartsSession, EndsSession, Finishes, Drops, server
      <4>3. \A d \in Clients \ {c} : session'[d] = session[d]
        BY <1>4 DEF TypeOK, Accepts, Arrived, SignsIn, TimesOut, Departs, Adds, Leaves,
           StartsSession, EndsSession, Finishes, Drops, conns
      <4> QED BY <4>1, <4>2, <4>3
    <3> QED BY <3>1, <1>5 DEF Kept, Ends
  <2>2. Ends(c)'
    <3>1. CASE Accepts(c) \/ Arrived(c) \/ SignsIn(c) \/ TimesOut(c)
      BY <3>1, <1>4, <1>5 DEF Ends, At, Accepts, Arrived, SignsIn, TimesOut, server, mail
    <3>2. CASE Departs(c) \/ Adds(c) \/ Leaves(c)
      BY <3>2, <1>4, <1>5 DEF Ends, At, Departs, Adds, Leaves, server, mail
    <3>3. CASE StartsSession(c) \/ EndsSession(c)
      BY <3>3, <1>4, <1>5 DEF TypeOK, Ends, At, StartsSession, EndsSession, server, mail
    <3>4. CASE Finishes(c) \/ Drops(c)
      BY <3>4, <1>4, <1>5 DEF Ends, At, Finishes, Drops, server, mail
    <3> QED BY <3>1, <3>2, <3>3, <3>4
  <2> QED BY <2>1, <2>2
<1>8. \A d \in Clients : Held(d)'
  BY <1>0, <1>4, <1>5 DEF Kept, Ends, Held, At, Accepts, Arrived, SignsIn, TimesOut, Departs, Adds, Leaves, StartsSession,
     EndsSession, Finishes, Drops, server, mail
<1> QED
  BY <1>1, <1>2, <1>6, <1>7, <1>8 DEF Kept

(* A control channel, and what it publishes first. *)
LEMMA ControlKept ==
  ASSUME Kept, NEW c \in Clients,
         OpensControl(c) \/ AddsWatcher(c) \/ ReadsOpens(c) \/ TellsOpens(c) \/ EndsControl(c) \/ ControlEnds(c)
  PROVE  Kept'
<1>0. /\ UNCHANGED <<conn, session, listening, closed, arriving, clients, taken, closer>>
      /\ UNCHANGED <<kicked, telling, told, snap>>
  BY DEF OpensControl, AddsWatcher, ReadsOpens, TellsOpens, EndsControl, ControlEnds, conns, server, going
<1>1. /\ TypeOK /\ Ending /\ OneAtATime /\ c \in Publishers /\ App \in Publishers
      /\ \A d \in Clients : Ends(d) /\ Held(d) /\ Woken(d) /\ Fresh(d)
  BY DEF Kept, Publishers
<1>2. Ending' /\ \A d \in Clients : Held(d)'
  BY <1>0, <1>1 DEF Ending, Held
<1>3. CASE OpensControl(c)
  <2>1. TypeOK'
    BY <1>0, <1>1, <1>3 DEF OpensControl, TypeOK
  <2>2. \A d \in Clients : Ends(d)' /\ Woken(d)' /\ Fresh(d)'
    BY <1>0, <1>1, <1>3 DEF OpensControl, TypeOK, Ends, Woken, Fresh, At
  <2> QED BY <1>1, <1>2, <1>3, <2>1, <2>2 DEF Kept, OneAtATime, OpensControl
<1>4. CASE AddsWatcher(c)
  <2>1. /\ watcher' \in [Clients -> Watchers] /\ \A d \in Clients \ {c} : watcher'[d] = watcher[d]
        /\ watcher'[c].next = watcher[c].next /\ watcher'[c].stopped = watcher[c].stopped
        /\ watcher'[c].wake = watcher[c].wake
    <3> DEFINE r == [watcher[c] EXCEPT !.at = "wait"]
    <3>1. watcher' = watcher \/ watcher' = [watcher EXCEPT ![c] = r]
      BY <1>1, <1>4, Zenon DEF AddsWatcher, TypeOK
    <3>2. r \in Watchers /\ r.next = watcher[c].next /\ r.stopped = watcher[c].stopped
          /\ r.wake = watcher[c].wake
      BY <1>1, Zenon DEF TypeOK, Watchers
    <3> HIDE DEF r
    <3>3. CASE watcher' = watcher
      BY <1>1, <3>3 DEF TypeOK
    <3>4. CASE watcher' = [watcher EXCEPT ![c] = r]
      BY <1>1, <3>2, <3>4, Zenon DEF TypeOK
    <3> QED BY <3>1, <3>3, <3>4
  <2>2. TypeOK'
    BY <1>0, <1>1, <1>4, <2>1 DEF AddsWatcher, TypeOK
  <2>3. \A d \in Clients : Ends(d)' /\ Fresh(d)'
    BY <1>0, <1>1, <1>4 DEF AddsWatcher, TypeOK, Ends, Fresh
  <2>4. \A d \in Clients : Woken(d)'
    BY <1>1, <1>4, <2>1 DEF AddsWatcher, TypeOK, Woken
  <2> QED BY <1>1, <1>2, <1>4, <2>2, <2>3, <2>4 DEF Kept, OneAtATime, AddsWatcher
<1>5. CASE ReadsOpens(c)
  <2>1. /\ pub' \in [Publishers -> Publications] /\ \A p \in Publishers \ {c} : pub'[p] = pub[p]
        /\ pub'[c].left = pub[c].left /\ pub'[c].waking = pub[c].waking
    BY <1>1, <1>5, Zenon DEF ReadsOpens, TypeOK, Publications
  <2>2. TypeOK'
    BY <1>0, <1>1, <1>5, <2>1 DEF ReadsOpens, TypeOK
  <2>3. \A p \in Publishers : pub'[p].left = pub[p].left /\ pub'[p].waking = pub[p].waking
    BY <2>1
  <2>4. \A d \in Clients : Ends(d)' /\ Fresh(d)' /\ Woken(d)'
    BY <1>0, <1>1, <1>5, <2>3 DEF ReadsOpens, TypeOK, Ends, Fresh, Woken, Publishers
  <2> QED BY <1>1, <1>2, <2>2, <2>3, <2>4 DEF Kept, OneAtATime
<1>6. CASE TellsOpens(c)
  <2>1. pub[c].line \in Snaps /\ watching \in SUBSET Clients
    BY <1>1, PubParts DEF TypeOK
  <2>2. /\ pub' \in [Publishers -> Publications] /\ \A p \in Publishers \ {c} : pub'[p] = pub[p]
        /\ pub'[c].waking = {}
    BY <1>1, <1>6, <2>1, PublishesIs, Zenon DEF TellsOpens
  <2>3. TypeOK'
    BY <1>0, <1>1, <1>6, <2>2 DEF TellsOpens, TypeOK
  <2>4. \A p \in Publishers : pub'[p].waking = pub[p].waking
    BY <1>1, <1>6, <2>2 DEF TellsOpens, Fresh
  <2>5. \A d \in Clients : Ends(d)' /\ Woken(d)'
    BY <1>0, <1>1, <1>6, <2>4 DEF TellsOpens, TypeOK, Ends, Woken
  <2>6. \A d \in Clients : Fresh(d)'
    BY <1>1, <1>6, <2>2 DEF TellsOpens, TypeOK, Fresh, Publishers
  <2> QED BY <1>1, <1>2, <2>3, <2>4, <2>5, <2>6 DEF Kept, OneAtATime
<1>7. CASE EndsControl(c)
  <2>1. /\ watcher' \in [Clients -> Watchers] /\ \A d \in Clients \ {c} : watcher'[d] = watcher[d]
        /\ watcher'[c].next = 0 /\ watcher'[c].wake = TRUE
    <3> DEFINE r == Dropped(watcher[c])
    <3>1. r \in Watchers /\ r.next = 0 /\ r.wake = TRUE
      BY <1>1, SnapNumbers, Zenon DEF Dropped, TypeOK, Watchers
    <3>2. watcher' = [watcher EXCEPT ![c] = r]
      BY <1>7 DEF EndsControl
    <3> QED BY <1>1, <3>1, <3>2, Zenon DEF TypeOK
  <2>2. TypeOK'
    BY <1>0, <1>1, <1>7, <2>1 DEF EndsControl, TypeOK
  <2>3. \A d \in Clients : Ends(d)' /\ Fresh(d)'
    BY <1>0, <1>1, <1>7 DEF EndsControl, TypeOK, Ends, Fresh
  <2>4. \A d \in Clients : Woken(d)'
    BY <1>1, <1>7, <2>1 DEF EndsControl, TypeOK, Woken
  <2> QED BY <1>1, <1>2, <1>7, <2>2, <2>3, <2>4 DEF Kept, OneAtATime, EndsControl
<1>8. CASE ControlEnds(c)
  <2>1. /\ watcher' \in [Clients -> Watchers] /\ \A d \in Clients \ {c} : watcher'[d] = watcher[d]
        /\ watcher'[c].next = 0 /\ watcher'[c].at = "end"
    <3> DEFINE r == [NewWatcher EXCEPT !.stopped = TRUE, !.at = "end"]
    <3>1. r \in Watchers /\ r.next = 0 /\ r.at = "end"
      BY SnapNumbers, Zenon DEF NewWatcher, Watchers
    <3>2. watcher' = [watcher EXCEPT ![c] = r]
      BY <1>8 DEF ControlEnds
    <3> QED BY <1>1, <3>1, <3>2, Zenon DEF TypeOK
  <2>2. TypeOK'
    BY <1>0, <1>1, <1>8, <2>1 DEF ControlEnds, TypeOK
  <2>3. \A d \in Clients : Ends(d)' /\ Fresh(d)'
    BY <1>0, <1>1, <1>8 DEF ControlEnds, TypeOK, Ends, Fresh
  <2>4. \A d \in Clients : Woken(d)'
    BY <1>1, <1>8, <2>1 DEF ControlEnds, TypeOK, Woken
  <2> QED BY <1>1, <1>2, <1>8, <2>2, <2>3, <2>4 DEF Kept, OneAtATime, ControlEnds
<1> QED
  BY <1>3, <1>4, <1>5, <1>6, <1>7, <1>8

(* A watcher's mailbox: what is put in it, and the goroutine that empties it. *)
LEMMA MailboxKept ==
  ASSUME Kept, NEW c \in Clients,
         (\E p \in Publishers : Puts(p, c) \/ Wakes(p, c)) \/ Takes(c) \/ Writes(c) \/ WriteFails(c)
  PROVE  Kept'
<1>0. /\ UNCHANGED <<conn, session, listening, closed, arriving, clients, taken, closer>>
      /\ UNCHANGED <<kicked, telling, told, control, snap>> /\ watching' \subseteq watching
  BY DEF Puts, Wakes, Takes, Writes, WriteFails, conns, server, going
<1>1. /\ TypeOK /\ OneAtATime /\ 0 \in Snaps
      /\ \A d \in Clients : Ends(d) /\ Woken(d) /\ Fresh(d)
  BY SnapNumbers DEF Kept
<1>2. Ending' /\ \A d \in Clients : Ends(d)' /\ Held(d)'
  BY <1>0, ConnKept
<1>3. ASSUME NEW p \in Publishers, Puts(p, c) PROVE Kept'
  <2>1. pub[p].line \in Snaps /\ pub[p].left \in SUBSET Clients /\ pub[p].left \ {c} \in SUBSET Clients
        /\ {c} \in SUBSET Clients /\ pub[p].waking = {} /\ c \in pub[p].left
    BY <1>1, <1>3, PubParts DEF Puts
  <2>2. CASE watcher[c].stopped
    <3>1. watcher' = watcher /\ Publishes(p, pub[p].line, pub[p].left \ {c})
      BY <1>3, <2>2 DEF Puts
    <3>2. pub' \in [Publishers -> Publications] /\ \A q \in Publishers \ {p} : pub'[q] = pub[q]
      BY <1>1, <2>1, <3>1, PublishesIs, Zenon
    <3>3. pub'[p].left = pub[p].left \ {c} /\ pub'[p].waking = {}
      BY <1>1, <2>1, <3>1, PublishesIs, Zenon
    <3>4. \A q \in Publishers : pub'[q].waking = pub[q].waking /\ pub'[q].left \subseteq pub[q].left
      BY <2>1, <3>2, <3>3
    <3>5. TypeOK'
      BY <1>0, <1>1, <1>3, <3>1, <3>2 DEF TypeOK, Puts
    <3>6. \A d \in Clients : Woken(d)'
      <4>1. watcher' = watcher /\ control' = control
        BY <1>0, <3>1
      <4> QED BY <1>1, <3>4, <4>1 DEF Woken
    <3>7. \A d \in Clients : Fresh(d)'
      <4>1. control' = control
        BY <1>0
      <4> QED BY <1>1, <3>4, <4>1 DEF Fresh, Publishers
    <3> QED BY <1>1, <1>2, <3>4, <3>5, <3>6, <3>7 DEF Kept, OneAtATime
  <2>3. CASE ~watcher[c].stopped
    <3>1. /\ watcher' = [watcher EXCEPT ![c].next = pub[p].line]
          /\ pub' = [pub EXCEPT ![p].left = @ \ {c}, ![p].waking = {c}]
      BY <1>3, <2>3 DEF Puts
    <3>2. /\ watcher' \in [Clients -> Watchers] /\ \A d \in Clients \ {c} : watcher'[d] = watcher[d]
          /\ watcher'[c].at = watcher[c].at /\ watcher'[c].stopped = watcher[c].stopped
      <4> DEFINE r == [watcher[c] EXCEPT !.next = pub[p].line]
      <4>1. r \in Watchers /\ r.at = watcher[c].at /\ r.stopped = watcher[c].stopped
        BY <1>1, <2>1, Zenon DEF TypeOK, Watchers
      <4>2. watcher' = [watcher EXCEPT ![c] = r]
        BY <1>1, <3>1, Zenon DEF TypeOK
      <4> HIDE DEF r
      <4> QED BY <1>1, <4>1, <4>2, Zenon DEF TypeOK
    <3>3. \E r \in Publications : /\ pub' = [pub EXCEPT ![p] = r]
                                  /\ r.left = pub[p].left \ {c} /\ r.waking = {c}
      <4> DEFINE r == [pub[p] EXCEPT !.left = @ \ {c}, !.waking = {c}]
      <4>1. r \in Publications /\ r.left = pub[p].left \ {c} /\ r.waking = {c}
        BY <1>1, <2>1, Zenon DEF TypeOK, Publications
      <4>2. pub' = [pub EXCEPT ![p] = r]
        BY <1>1, <3>1, Zenon DEF TypeOK
      <4> HIDE DEF r
      <4> QED BY <4>1, <4>2
    <3>4. pub' \in [Publishers -> Publications] /\ \A q \in Publishers \ {p} : pub'[q] = pub[q]
      BY <3>3, <1>1, Zenon DEF TypeOK
    <3>5. pub'[p].left = pub[p].left \ {c} /\ pub'[p].waking = {c}
      BY <3>3, <1>1, Zenon DEF TypeOK
    <3>6. TypeOK'
      BY <1>0, <1>1, <1>3, <3>2, <3>4 DEF TypeOK, Puts
    <3>7. OneAtATime'
      BY <1>1, <3>4, <3>5 DEF OneAtATime
    <3>8. \A d \in Clients : Fresh(d)'
      BY <1>0, <1>1, <2>1, <3>4, <3>5 DEF Fresh, Publishers
    <3>9. Woken(c)'
      BY <1>0, <1>1, <2>3, <3>2, <3>5 DEF Woken
    <3>10. \A d \in Clients \ {c} : Woken(d)'
      BY <1>0, <1>1, <2>1, <3>2, <3>4 DEF Woken
    <3> QED BY <1>2, <3>6, <3>7, <3>8, <3>9, <3>10 DEF Kept
  <2> QED BY <2>2, <2>3
<1>4. ASSUME NEW p \in Publishers, Wakes(p, c) PROVE Kept'
  <2>1. pub[p].line \in Snaps /\ pub[p].left \in SUBSET Clients /\ pub[p].waking = {c}
    BY <1>1, <1>4, PubParts DEF Wakes, OneAtATime
  <2>2. /\ pub' \in [Publishers -> Publications] /\ \A q \in Publishers \ {p} : pub'[q] = pub[q]
        /\ pub'[p].left = pub[p].left /\ pub'[p].waking = {}
    BY <1>1, <1>4, <2>1, PublishesIs, Zenon DEF Wakes
  <2>3. /\ watcher' \in [Clients -> Watchers] /\ \A d \in Clients \ {c} : watcher'[d] = watcher[d]
        /\ watcher'[c].at = watcher[c].at /\ watcher'[c].stopped = watcher[c].stopped
        /\ watcher'[c].next = watcher[c].next /\ watcher'[c].wake = TRUE
    BY <1>1, <1>4, Zenon DEF Wakes, TypeOK, Watchers
  <2>4. TypeOK'
    BY <1>0, <1>1, <1>4, <2>2, <2>3 DEF TypeOK, Wakes
  <2>5. OneAtATime' /\ \A d \in Clients : Fresh(d)'
    BY <1>0, <1>1, <2>2 DEF OneAtATime, Fresh, Publishers
  <2>6. Woken(c)'
    BY <1>0, <1>1, <2>3 DEF Woken
  <2>7. \A d \in Clients \ {c} : Woken(d)'
    BY <1>0, <1>1, <2>1, <2>2, <2>3 DEF Woken
  <2> QED BY <1>2, <2>4, <2>5, <2>6, <2>7 DEF Kept
<1>5. ASSUME Takes(c) \/ Writes(c) \/ WriteFails(c) PROVE Kept'
  <2>0. OneAtATime' /\ (\A d \in Clients : Fresh(d)') /\ pub' = pub
    BY <1>0, <1>1, <1>5 DEF OneAtATime, Fresh, Takes, Writes, WriteFails
  <2>1. watcher[c].next \in Snaps /\ watcher[c].line \in Snaps /\ watcher[c] \in Watchers
    BY <1>1, WatcherParts DEF TypeOK
  <2>2. CASE Takes(c)
    <3> DEFINE to == IF watcher[c].next # 0 THEN "write"
                     ELSE IF watcher[c].stopped THEN "end" ELSE "wait"
               r == [watcher[c] EXCEPT !.wake = FALSE, !.next = 0, !.line = watcher[c].next, !.at = to]
    <3>1. to \in {"off", "wait", "write", "end"}
      OBVIOUS
    <3>2. watcher' = [watcher EXCEPT ![c] = r]
      BY <2>2 DEF Takes
    <3> HIDE DEF to
    <3>3. r \in Watchers /\ r.next = 0 /\ r.at = to /\ r.stopped = watcher[c].stopped
      BY <1>1, <2>1, <3>1, Zenon DEF Watchers
    <3> HIDE DEF r
    <3>4. /\ watcher' \in [Clients -> Watchers] /\ \A d \in Clients \ {c} : watcher'[d] = watcher[d]
          /\ watcher'[c] = r
      BY <1>1, <3>2, <3>3, Zenon DEF TypeOK
    <3>5. TypeOK'
      BY <1>0, <1>1, <2>0, <2>2, <3>4 DEF TypeOK, Takes
    <3>6. Woken(c)'
      BY <1>0, <1>1, <2>2, <3>3, <3>4 DEF Woken, Takes, to
    <3>7. \A d \in Clients \ {c} : Woken(d)'
      BY <1>0, <1>1, <2>0, <3>4 DEF Woken
    <3> QED BY <1>2, <2>0, <3>5, <3>6, <3>7 DEF Kept
  <2>3. CASE Writes(c)
    <3>1. /\ watcher' \in [Clients -> Watchers] /\ \A d \in Clients \ {c} : watcher'[d] = watcher[d]
          /\ watcher'[c].next = watcher[c].next /\ watcher'[c].stopped = watcher[c].stopped
          /\ watcher'[c].wake = watcher[c].wake
      <4> DEFINE r == [watcher[c] EXCEPT !.at = "wait", !.line = 0, !.shown = watcher[c].line]
      <4>1. r \in Watchers /\ r.next = watcher[c].next /\ r.stopped = watcher[c].stopped
            /\ r.wake = watcher[c].wake
        BY <1>1, <2>1, Zenon DEF Watchers
      <4>2. watcher' = [watcher EXCEPT ![c] = r]
        BY <1>1, <2>3, Zenon DEF Writes, TypeOK
      <4> HIDE DEF r
      <4> QED BY <1>1, <4>1, <4>2, Zenon DEF TypeOK
    <3>2. TypeOK'
      BY <1>0, <1>1, <2>0, <2>3, <3>1 DEF TypeOK, Writes
    <3>3. Woken(c)'
      BY <1>0, <1>1, <2>0, <2>3, <3>1 DEF Woken, Writes
    <3>4. \A d \in Clients \ {c} : Woken(d)'
      BY <1>0, <1>1, <2>0, <3>1 DEF Woken
    <3> QED BY <1>2, <2>0, <3>2, <3>3, <3>4 DEF Kept
  <2>4. CASE WriteFails(c)
    <3>1. /\ watcher' \in [Clients -> Watchers] /\ \A d \in Clients \ {c} : watcher'[d] = watcher[d]
          /\ watcher'[c].next = 0 /\ watcher'[c].at = "end"
      <4> DEFINE r == [Dropped(watcher[c]) EXCEPT !.at = "end", !.line = 0]
      <4>1. r \in Watchers /\ r.next = 0 /\ r.at = "end"
        BY <1>1, <2>1, Zenon DEF Watchers, Dropped
      <4>2. watcher' = [watcher EXCEPT ![c] = r]
        BY <2>4 DEF WriteFails
      <4> HIDE DEF r
      <4> QED BY <1>1, <4>1, <4>2, Zenon DEF TypeOK
    <3>2. TypeOK'
      BY <1>0, <1>1, <2>0, <2>4, <3>1 DEF TypeOK, WriteFails
    <3>3. Woken(c)'
      BY <1>0, <1>1, <2>4, <3>1 DEF Woken, WriteFails
    <3>4. \A d \in Clients \ {c} : Woken(d)'
      BY <1>0, <1>1, <2>0, <3>1 DEF Woken
    <3> QED BY <1>2, <2>0, <3>2, <3>3, <3>4 DEF Kept
  <2> QED BY <1>5, <2>2, <2>3, <2>4
<1> QED
  BY <1>3, <1>4, <1>5

(* The application's goroutine, and the two that may close the server. *)
LEMMA ChangesKept ==
  ASSUME Kept, Changes
  PROVE  Kept'
<1>1. /\ UNCHANGED <<conn, session, listening, closed, arriving, clients, taken, closer>>
      /\ UNCHANGED <<kicked, telling, told, watching, control, watcher>>
  BY DEF Changes, conns, server, going
<1>2. TypeOK /\ App \in Publishers /\ watching \in SUBSET Clients /\ pub[App].waking = {}
  <2>1. TypeOK /\ App \in Publishers /\ watching \in SUBSET Clients
    BY DEF Kept, TypeOK, Publishers
  <2>2. Idle.waking = {}
    BY DEF Idle
  <2> QED BY <2>1, <2>2, Zenon DEF Changes, AppFree
<1>3. snap + 1 \in Snaps /\ snap' = snap + 1
  BY <1>2, AtOnceAssumption DEF Changes, TypeOK, Snaps
<1>4. /\ pub' \in [Publishers -> Publications] /\ \A q \in Publishers \ {App} : pub'[q] = pub[q]
      /\ pub'[App].waking = {}
  BY <1>2, <1>3, PublishesIs, Zenon DEF Changes
<1>5. TypeOK'
  BY <1>1, <1>2, <1>3, <1>4 DEF TypeOK
<1>6. \A p \in Publishers : pub'[p].waking = pub[p].waking
  BY <1>2, <1>4
<1>7. Ending' /\ (\A d \in Clients : Ends(d)' /\ Held(d)')
  BY <1>1, ConnKept
<1>8. OneAtATime' /\ \A d \in Clients : Woken(d)'
  BY <1>1, <1>6 DEF Kept, OneAtATime, Woken
<1>9. \A d \in Clients : Fresh(d)'
  BY <1>1, <1>4, ClientsAssumption DEF Kept, Fresh, Publishers
<1> QED BY <1>5, <1>7, <1>8, <1>9 DEF Kept

LEMMA GoingKept ==
  ASSUME Kept,
         \/ \E c \in Clients : Tells(c) \/ Kicks(c) \/ KickCloses(c)
         \/ \E g \in {App, Accept} : StartsClosing(g) \/ Shuts(g) \/ Closes(g)
  PROVE  Kept'
<1>0. OneAtATime' /\ (\A d \in Clients : Woken(d)' /\ Fresh(d)') /\ UNCHANGED <<session, mail>>
  <2>1. UNCHANGED <<session, mail>>
    BY DEF Tells, Kicks, KickCloses, StartsClosing, Shuts, Closes, conns
  <2> QED BY <2>1, MailKept
<1>1. /\ TypeOK /\ Ending /\ \A d \in Clients : Ends(d) /\ Held(d)
  BY DEF Kept
<1>2. ASSUME NEW c \in Clients, Tells(c) \/ Kicks(c) PROVE Kept'
  <2>1. UNCHANGED <<conn, session, listening, closed, arriving, clients, taken, closer, control, watching>>
    BY <1>0, <1>2 DEF Tells, Kicks, conns, server, mail
  <2>2. TypeOK'
    BY <1>0, <1>1, <1>2, <2>1 DEF TypeOK, Tells, Kicks, mail
  <2>3. Ending' /\ (\A d \in Clients : Ends(d)' /\ Held(d)')
    BY <2>1, ConnKept
  <2> QED BY <1>0, <2>2, <2>3 DEF Kept
<1>3. ASSUME NEW c \in Clients, KickCloses(c) PROVE Kept'
  <2>1. UNCHANGED <<session, listening, closed, arriving, clients, taken, closer, control, watching>>
    BY <1>0, <1>3 DEF KickCloses, server, mail
  <2>2. /\ conn' \in [Clients -> Connections] /\ \A d \in Clients \ {c} : conn'[d] = conn[d]
        /\ conn'[c].at = conn[c].at /\ conn'[c].open = FALSE
    BY <1>1, <1>3, ClosedIs, Zenon DEF KickCloses
  <2>3. TypeOK'
    BY <1>0, <1>1, <1>3, <2>1, <2>2 DEF TypeOK, KickCloses, mail
  <2>4. Ending' /\ (\A d \in Clients : Ends(d)' /\ Held(d)')
    BY <1>1, <2>1, <2>2 DEF Ending, Ends, Held
  <2> QED BY <1>0, <2>3, <2>4 DEF Kept
<1>4. ASSUME NEW g \in {App, Accept}, StartsClosing(g) PROVE Kept'
  <2>1. UNCHANGED <<conn, session, closed, arriving, clients, taken, control, watching>>
        /\ listening' \in {listening, FALSE}
    BY <1>0, <1>4 DEF StartsClosing, conns, mail
  <2>2. TypeOK'
    BY <1>0, <1>1, <1>4, <2>1 DEF TypeOK, StartsClosing, mail
  <2>3. Ending' /\ (\A d \in Clients : Ends(d)' /\ Held(d)')
    BY <1>1, <1>4, <2>1 DEF Ending, Ends, Held, StartsClosing, TypeOK
  <2> QED BY <1>0, <2>2, <2>3 DEF Kept
<1>5. ASSUME NEW g \in {App, Accept}, Shuts(g) PROVE Kept'
  <2>1. UNCHANGED <<conn, session, control, watching, listening>>
    BY <1>0, <1>5 DEF Shuts, conns, mail
  <2>2. TypeOK'
    BY <1>0, <1>1, <1>5, <2>1 DEF TypeOK, Shuts, going, mail
  <2>3. Ending'
    BY <1>1, <1>5, <2>1 DEF Ending, Shuts, TypeOK
  <2>4. \A d \in Clients : Ends(d)' /\ Held(d)'
    BY <1>1, <1>5, <2>1 DEF Ends, Held, Shuts, TypeOK
  <2> QED BY <1>0, <2>2, <2>3, <2>4 DEF Kept
<1>6. ASSUME NEW g \in {App, Accept}, Closes(g) PROVE Kept'
  <2>1. UNCHANGED <<session, closed, arriving, clients, control, watching, kicked, telling, told>>
        /\ listening' = FALSE /\ closer[g] = "closing"
    BY <1>0, <1>6 DEF Closes, going, mail
  <2>2. CASE listening \/ taken # {}
    <3>1. PICK who \in SUBSET taken :
            /\ taken' = taken \ who
            /\ conn' = [c \in Clients |-> IF c \in who THEN [conn[c] EXCEPT !.open = FALSE] ELSE conn[c]]
      BY <1>6, <2>2 DEF Closes
    <3>2. \A d \in Clients : d \notin who => conn'[d] = conn[d]
      BY <3>1
    <3>3. \A d \in who : d \in Clients /\ conn'[d] = [conn[d] EXCEPT !.open = FALSE]
      BY <1>1, <3>1 DEF TypeOK
    <3>4. \A d \in who : conn'[d] \in Connections /\ conn'[d].at = conn[d].at /\ conn'[d].open = FALSE
      <4> SUFFICES ASSUME NEW d \in who
                   PROVE  conn'[d] \in Connections /\ conn'[d].at = conn[d].at /\ conn'[d].open = FALSE
        OBVIOUS
      <4>1. d \in Clients /\ conn[d] \in Connections
        BY <1>1 DEF TypeOK
      <4> QED BY <3>3, <4>1, Zenon DEF Connections
    <3>5. conn' \in [Clients -> Connections]
      <4>1. \A d \in Clients : conn'[d] \in Connections
        BY <1>1, <3>2, <3>4 DEF TypeOK
      <4>2. conn' = [d \in Clients |-> conn'[d]]
        BY <3>1, Zenon
      <4> QED BY <4>1, <4>2, Zenon
    <3>6. closer' = closer
      BY <1>6, <2>2 DEF Closes
    <3>7. TypeOK'
      BY <1>0, <1>1, <2>1, <3>1, <3>5, <3>6 DEF TypeOK, mail
    <3>8. Ending'
      BY <1>1, <2>1, <3>6 DEF Ending
    <3>9. \A d \in Clients : Ends(d)' /\ Held(d)'
      BY <1>1, <2>1, <3>1, <3>2, <3>4 DEF Ends, Held
    <3> QED BY <1>0, <3>7, <3>8, <3>9 DEF Kept
  <2>3. CASE ~listening /\ taken = {}
    <3>1. UNCHANGED <<conn, taken>> /\ closer' = [closer EXCEPT ![g] = "done"]
      BY <1>6, <2>3 DEF Closes
    <3>2. TypeOK'
      BY <1>0, <1>1, <2>1, <3>1 DEF TypeOK, mail
    <3>3. Ending' /\ \A d \in Clients : Ends(d)' /\ Held(d)'
      BY <1>1, <2>1, <2>3, <3>1 DEF Ending, Ends, Held
    <3> QED BY <1>0, <3>2, <3>3 DEF Kept
  <2> QED BY <2>2, <2>3
<1> QED
  BY <1>2, <1>3, <1>4, <1>5, <1>6

LEMMA NextKept == Kept /\ [Next]_vars => Kept'
<1> SUFFICES ASSUME Kept, [Next]_vars PROVE Kept'
  OBVIOUS
<1>1. ASSUME NEW c \in Clients, Accepts(c) \/ SignsIn(c) \/ TimesOut(c) \/ Leaves(c) \/ Connecting(c)
                                \/ StartsSession(c) \/ EndsSession(c)
      PROVE  Kept'
  BY <1>1, ConnectionKept DEF Connecting
<1>2. ASSUME NEW c \in Clients, OpensControl(c) \/ Controlling(c) PROVE Kept'
  BY <1>2, ControlKept DEF Controlling
<1>3. ASSUME NEW c \in Clients, Sending(c) \/ Writes(c) PROVE Kept'
  BY <1>3, MailboxKept DEF Sending
<1>4. ASSUME NEW c \in Clients, Tells(c) \/ Kicks(c) \/ KickCloses(c) PROVE Kept'
  BY <1>4, GoingKept
<1>5. ASSUME NEW p \in Publishers, Publishing(p) PROVE Kept'
  BY <1>5, MailboxKept DEF Publishing
<1>6. ASSUME NEW g \in {App, Accept}, StartsClosing(g) \/ Closing(g) PROVE Kept'
  BY <1>6, GoingKept DEF Closing
<1>7. ASSUME Changes PROVE Kept'
  BY <1>7, ChangesKept
<1>8. ASSUME UNCHANGED vars PROVE Kept'
  <2>1. UNCHANGED mail /\ UNCHANGED <<conn, session, listening, closed, arriving, clients, taken, closer>>
        /\ UNCHANGED <<kicked, telling, told>>
    BY <1>8 DEF vars, conns, server, going
  <2>2. TypeOK'
    BY <2>1 DEF Kept, TypeOK, mail
  <2>3. Ending' /\ (\A d \in Clients : Ends(d)' /\ Held(d)')
    BY <2>1, ConnKept DEF mail
  <2> QED BY <2>1, <2>2, <2>3, MailKept DEF Kept
<1> QED
  BY <1>1, <1>2, <1>3, <1>4, <1>5, <1>6, <1>7, <1>8 DEF Next

(* Kept holds of every state the server, its clients and the window come to. *)
THEOREM KeptAlways == Spec => []Kept
  BY InitKept, NextKept, PTL DEF Spec

(* The lists, the mailboxes and the goroutines have the shapes the code gives
   them. *)
THEOREM TypeCorrect == Spec => []TypeOK
  BY KeptAlways, PTL DEF Kept

(* Whatever arrives, signs in or runs out of time as Close goes through its
   lists, it leaves no socket that nobody will close. *)
THEOREM NobodyStays == Spec => []NobodyOutlivesClose
<1>1. Kept => NobodyOutlivesClose
  <2> SUFFICES ASSUME Kept, closed, \A g \in {App, Accept} : closer[g] # "closing"
               PROVE  ~listening /\ \A c \in Clients : conn[c].open => conn[c].at \in {"accepted", "departed"}
    BY DEF NobodyOutlivesClose
  <2>1. ~listening /\ taken = {}
    BY DEF Kept, Ending
  <2> QED BY <2>1 DEF Kept, Held
<1> QED BY <1>1, KeptAlways, PTL

(* However sessions, channels and sockets end, a client said to have gone has
   left nothing behind. *)
THEOREM GoneIsOver == Spec => []GoneMeansOver
<1>1. Kept => GoneMeansOver
  BY DEF Kept, Ends, At, GoneMeansOver
<1> QED BY <1>1, KeptAlways, PTL

(* However many publish to one mailbox, and whoever stops it meanwhile, its
   writer does not sleep on what it has to do. *)
THEOREM EveryWakeArrives == Spec => []NoWakeIsLost
<1>1. Kept => NoWakeIsLost
  BY DEF Kept, Woken, NoWakeIsLost
<1> QED BY <1>1, KeptAlways, PTL

---------------------------------------------------------------------------
(* What each of the steps in Serving waits for, once the server is closed. *)
CanServe ==
  \/ \E c \in Clients :
       \/ conn[c].at \in {"accepted", "signing", "signed", "departed"}
       \/ At(c, "serving") /\ ~conn[c].open
       \/ At(c, "finishing") /\ (session[c] = "live" \/ control[c] \in {"none", "ended"})
       \/ control[c] \in {"new", "added", "telling"}
       \/ control[c] = "reading" /\ pub[c] = Idle /\ (At(c, "finishing") \/ c \in told)
       \/ control[c] = "ending" /\ watcher[c].at = "end"
       \/ watcher[c].at = "wait" /\ watcher[c].wake
       \/ watcher[c].at = "write" /\ (~conn[c].open \/ c \in told)
       \/ c \in kicked
  \/ \E p \in Publishers : pub[p].left # {} \/ pub[p].waking # {}
  \/ \E g \in {App, Accept} : closer[g] \in {"telling", "closing"}

(* A control channel at its end has told its writer to stop, and one that reads and
   publishes something has somebody to publish it to. *)
Winding(c) ==
  /\ control[c] = "ending" => watcher[c].stopped
  /\ control[c] \in {"added", "telling", "reading", "ending"} => watcher[c].at # "off"
  /\ control[c] = "reading" => pub[c] = Idle \/ pub[c].left # {} \/ pub[c].waking # {}

AllWinding == \A c \in Clients : Winding(c)

(* A closed server none of whose goroutines has a step left has nobody left:
   no connection is shaking hands, served or finishing. *)
StuckIsEmpty == closed /\ ~CanServe => NobodyIsLeft

LEMMA PublishesSome ==
  ASSUME TypeOK, NEW p \in Publishers, NEW n, NEW list, Publishes(p, n, list)
  PROVE  /\ pub'[p] = Idle \/ pub'[p].left # {}
         /\ \A q \in Publishers \ {p} : pub'[q] = pub[q]
<1> DEFINE r == IF list = {} THEN Idle ELSE [line |-> n, left |-> list, waking |-> {}]
<1>1. r = Idle \/ r.left # {}
  BY Zenon
<1>2. pub' = [pub EXCEPT ![p] = r]
  BY DEF Publishes
<1> HIDE DEF r
<1> QED BY <1>1, <1>2, Zenon DEF TypeOK

(* What a mailbox is made of does not concern its control channel, but for where
   its writer is and whether it was stopped. *)
LEMMA WindingStays ==
  ASSUME AllWinding, UNCHANGED control,
         \A c \in Clients : /\ watcher[c].stopped => watcher'[c].stopped
                            /\ watcher'[c].at = "off" => watcher[c].at = "off"
                            /\ pub'[c] = pub[c] \/ pub'[c] = Idle \/ pub'[c].left # {} \/ pub'[c].waking # {}
  PROVE  AllWinding'
  BY DEF AllWinding, Winding

LEMMA ControlWinds ==
  ASSUME TypeOK, AllWinding, NEW c \in Clients,
         OpensControl(c) \/ AddsWatcher(c) \/ ReadsOpens(c) \/ TellsOpens(c) \/ EndsControl(c) \/ ControlEnds(c)
  PROVE  AllWinding'
<1>1. c \in Publishers /\ Clients \subseteq Publishers
  BY DEF Publishers
<1>2. /\ \E at : control' = [control EXCEPT ![c] = at]
      /\ watcher' = watcher \/ \E r : watcher' = [watcher EXCEPT ![c] = r]
      /\ pub' = pub \/ \E r : pub' = [pub EXCEPT ![c] = r]
  <2>1. \E at : control' = [control EXCEPT ![c] = at]
    BY DEF OpensControl, AddsWatcher, ReadsOpens, TellsOpens, EndsControl, ControlEnds
  <2>2. watcher' = watcher \/ \E r : watcher' = [watcher EXCEPT ![c] = r]
    BY Zenon DEF OpensControl, AddsWatcher, ReadsOpens, TellsOpens, EndsControl, ControlEnds
  <2>3. pub' = pub \/ \E r : pub' = [pub EXCEPT ![c] = r]
    BY Zenon DEF OpensControl, AddsWatcher, ReadsOpens, TellsOpens, EndsControl, ControlEnds, Publishes
  <2> QED BY <2>1, <2>2, <2>3
<1>3. \A d \in Clients \ {c} : control'[d] = control[d] /\ watcher'[d] = watcher[d] /\ pub'[d] = pub[d]
  BY <1>1, <1>2 DEF TypeOK
<1>4. Winding(c)'
  <2>1. CASE OpensControl(c) \/ ReadsOpens(c) \/ ControlEnds(c)
    <3>1. control'[c] \in {"new", "telling", "ended"}
      BY <2>1 DEF OpensControl, ReadsOpens, ControlEnds, TypeOK
    <3>2. ReadsOpens(c) => watcher'[c].at # "off"
      BY DEF ReadsOpens, AllWinding, Winding
    <3>3. control'[c] = "telling" => ReadsOpens(c)
      BY <2>1 DEF OpensControl, ControlEnds, TypeOK
    <3> QED BY <3>1, <3>2, <3>3 DEF Winding
  <2>2. CASE AddsWatcher(c)
    <3>1. control'[c] = "ended" \/ (control'[c] = "added" /\ watcher' = [watcher EXCEPT ![c] = [watcher[c] EXCEPT !.at = "wait"]])
      BY <2>2, Zenon DEF AddsWatcher, TypeOK
    <3> DEFINE r == [watcher[c] EXCEPT !.at = "wait"]
    <3>2. r.at = "wait"
      BY Zenon DEF TypeOK, Watchers
    <3> HIDE DEF r
    <3>3. watcher' = [watcher EXCEPT ![c] = r] => watcher'[c].at = "wait"
      BY <3>2, Zenon DEF TypeOK
    <3>4. control'[c] = "ended" \/ (control'[c] = "added" /\ watcher'[c].at = "wait")
      BY <3>1, <3>3 DEF r
    <3> QED BY <3>4 DEF Winding
  <2>3. CASE TellsOpens(c)
    <3>1. control'[c] = "reading" /\ watcher'[c] = watcher[c] /\ watcher[c].at # "off"
      BY <2>3 DEF TellsOpens, TypeOK, AllWinding, Winding
    <3>2. pub'[c] = Idle \/ pub'[c].left # {}
      BY <1>1, <2>3, PublishesSome DEF TellsOpens
    <3> QED BY <3>1, <3>2 DEF Winding
  <2>4. CASE EndsControl(c)
    <3> DEFINE r == Dropped(watcher[c])
    <3>1. r.stopped = TRUE /\ r.at = watcher[c].at
      BY Zenon DEF Dropped, TypeOK, Watchers
    <3>2. watcher' = [watcher EXCEPT ![c] = r] /\ control'[c] = "ending" /\ watcher[c].at # "off"
      BY <2>4 DEF EndsControl, TypeOK, AllWinding, Winding
    <3> HIDE DEF r
    <3>3. watcher'[c].stopped = TRUE /\ watcher'[c].at = watcher[c].at
      BY <3>1, <3>2, Zenon DEF TypeOK
    <3> QED BY <3>2, <3>3 DEF Winding
  <2> QED BY <2>1, <2>2, <2>3, <2>4
<1> QED BY <1>3, <1>4 DEF AllWinding, Winding

LEMMA WriterWinds ==
  ASSUME TypeOK, AllWinding, NEW c \in Clients, Sending(c) \/ Writes(c)
  PROVE  AllWinding'
<1>0. UNCHANGED <<control, pub>>
  BY DEF Sending, Takes, Writes, WriteFails
<1>1. CASE Takes(c)
  <2> DEFINE at == IF watcher[c].next # 0 THEN "write" ELSE IF watcher[c].stopped THEN "end" ELSE "wait"
             r == [watcher[c] EXCEPT !.wake = FALSE, !.next = 0, !.line = watcher[c].next, !.at = at]
  <2>1. at # "off"
    OBVIOUS
  <2>2. watcher' = [watcher EXCEPT ![c] = r]
    BY <1>1, Zenon DEF Takes
  <2> HIDE DEF at
  <2>3. r.stopped = watcher[c].stopped /\ r.at # "off"
    BY <2>1, Zenon DEF TypeOK, Watchers
  <2> HIDE DEF r
  <2>4. \A d \in Clients : watcher'[d].stopped = watcher[d].stopped /\ (d # c => watcher'[d].at = watcher[d].at)
    BY <2>2, <2>3, Zenon DEF TypeOK
  <2>5. watcher'[c].at # "off"
    BY <2>2, <2>3, Zenon DEF TypeOK
  <2> QED BY <1>0, <2>4, <2>5, WindingStays
<1>2. CASE Writes(c)
  <2> DEFINE r == [watcher[c] EXCEPT !.at = "wait", !.line = 0, !.shown = watcher[c].line]
  <2>1. watcher' = [watcher EXCEPT ![c] = r]
    BY <1>2, Zenon DEF Writes, TypeOK
  <2>2. r.stopped = watcher[c].stopped /\ r.at = "wait"
    BY Zenon DEF TypeOK, Watchers
  <2> HIDE DEF r
  <2>3. \A d \in Clients : watcher'[d].stopped = watcher[d].stopped /\ (d # c => watcher'[d].at = watcher[d].at)
    BY <2>1, <2>2, Zenon DEF TypeOK
  <2>4. watcher'[c].at = "wait"
    BY <2>1, <2>2, Zenon DEF TypeOK
  <2> QED BY <1>0, <2>3, <2>4, WindingStays
<1>3. CASE WriteFails(c)
  <2> DEFINE r == [Dropped(watcher[c]) EXCEPT !.at = "end", !.line = 0]
  <2>1. watcher' = [watcher EXCEPT ![c] = r]
    BY <1>3, Zenon DEF WriteFails
  <2>2. r.stopped = TRUE /\ r.at = "end"
    BY Zenon DEF Dropped, TypeOK, Watchers
  <2> HIDE DEF r
  <2>3. \A d \in Clients : (d # c => watcher'[d] = watcher[d])
    BY <2>1, Zenon DEF TypeOK
  <2>4. watcher'[c].at = "end" /\ watcher'[c].stopped = TRUE
    BY <2>1, <2>2, Zenon DEF TypeOK
  <2> QED BY <1>0, <2>3, <2>4, WindingStays
<1> QED BY <1>1, <1>2, <1>3 DEF Sending

LEMMA PublishingWinds ==
  ASSUME TypeOK, AllWinding, NEW p \in Publishers, NEW c \in Clients, Puts(p, c) \/ Wakes(p, c)
  PROVE  AllWinding'
<1>0. UNCHANGED control /\ Clients \subseteq Publishers
  BY DEF Puts, Wakes, Publishers
<1>1. /\ pub'[p] = Idle \/ pub'[p].left # {} \/ pub'[p].waking # {}
      /\ \A q \in Publishers \ {p} : pub'[q] = pub[q]
  <2>1. ASSUME NEW n, NEW list, Publishes(p, n, list)
        PROVE  /\ pub'[p] = Idle \/ pub'[p].left # {} \/ pub'[p].waking # {}
               /\ \A q \in Publishers \ {p} : pub'[q] = pub[q]
    BY <2>1, PublishesSome
  <2>2. CASE pub' = [pub EXCEPT ![p].left = @ \ {c}, ![p].waking = {c}]
    <3> DEFINE r == [pub[p] EXCEPT !.left = @ \ {c}, !.waking = {c}]
    <3>1. pub' = [pub EXCEPT ![p] = r]
      BY <2>2, Zenon DEF TypeOK
    <3>2. r.waking = {c}
      BY Zenon DEF TypeOK, Publications
    <3> HIDE DEF r
    <3>3. pub'[p].waking = {c} /\ \A q \in Publishers \ {p} : pub'[q] = pub[q]
      BY <3>1, <3>2, Zenon DEF TypeOK
    <3> QED BY <3>3
  <2> QED BY <2>1, <2>2 DEF Puts, Wakes
<1>2. \A d \in Clients : watcher'[d].stopped = watcher[d].stopped /\ watcher'[d].at = watcher[d].at
  <2>1. PICK r : /\ watcher' = watcher \/ watcher' = [watcher EXCEPT ![c] = r]
                 /\ r.stopped = watcher[c].stopped /\ r.at = watcher[c].at
    <3>1. CASE Puts(p, c)
      <4> DEFINE r == [watcher[c] EXCEPT !.next = pub[p].line]
      <4>1. watcher' = watcher \/ watcher' = [watcher EXCEPT ![c] = r]
        BY <3>1, Zenon DEF Puts, TypeOK
      <4>2. r.stopped = watcher[c].stopped /\ r.at = watcher[c].at
        BY Zenon DEF TypeOK, Watchers
      <4> QED BY <4>1, <4>2
    <3>2. CASE Wakes(p, c)
      <4> DEFINE r == [watcher[c] EXCEPT !.wake = TRUE]
      <4>1. watcher' = [watcher EXCEPT ![c] = r]
        BY <3>2, Zenon DEF Wakes, TypeOK
      <4>2. r.stopped = watcher[c].stopped /\ r.at = watcher[c].at
        BY Zenon DEF TypeOK, Watchers
      <4> QED BY <4>1, <4>2
    <3> QED BY <3>1, <3>2
  <2> QED BY <2>1, Zenon DEF TypeOK
<1> QED BY <1>0, <1>1, <1>2, WindingStays

LEMMA NextWinds == TypeOK /\ AllWinding /\ [Next]_vars => AllWinding'
<1> SUFFICES ASSUME TypeOK, AllWinding, [Next]_vars PROVE AllWinding'
  OBVIOUS
<1>1. ASSUME UNCHANGED mail PROVE AllWinding'
  BY <1>1, WindingStays DEF mail
<1>2. ASSUME NEW c \in Clients, \/ Accepts(c) \/ SignsIn(c) \/ TimesOut(c) \/ Leaves(c) \/ Connecting(c)
                                \/ StartsSession(c) \/ EndsSession(c) \/ Tells(c) \/ Kicks(c) \/ KickCloses(c)
      PROVE  AllWinding'
  BY <1>1, <1>2 DEF Accepts, SignsIn, TimesOut, Leaves, Connecting, Arrived, Departs, Adds, Finishes, Drops,
                    StartsSession, EndsSession, Tells, Kicks, KickCloses
<1>3. ASSUME NEW g \in {App, Accept}, StartsClosing(g) \/ Closing(g) PROVE AllWinding'
  <2>1. UNCHANGED mail
    BY <1>3 DEF StartsClosing, Closing, Shuts, Closes, mail
  <2> QED BY <1>1, <2>1
<1>4. CASE Changes
  <2>1. App \in Publishers /\ \A c \in Clients : c \in Publishers \ {App}
    BY ClientsAssumption DEF Publishers
  <2>2. \A c \in Clients : pub'[c] = pub[c]
    BY <1>4, <2>1, PublishesSome DEF Changes
  <2> QED BY <1>4, <2>2, WindingStays DEF Changes
<1>5. CASE UNCHANGED vars
  BY <1>1, <1>5 DEF vars
<1> QED BY <1>2, <1>3, <1>4, <1>5, ControlWinds, WriterWinds, PublishingWinds
        DEF Next, Controlling, Publishing

LEMMA InitWinds == Init => AllWinding
<1> SUFFICES ASSUME Init PROVE AllWinding
  OBVIOUS
<1>1. \A c \in Clients : control[c] = "none"
  BY Zenon DEF Init
<1> QED BY <1>1 DEF AllWinding, Winding

(* A server that has closed and can do nothing more has nobody left, in the
   middle of a handshake or with a client that has stopped reading: what
   EverybodyGoes rests on, besides that whatever can go on does (serve/server.go,
   Close and handshake). *)
THEOREM ClosedLeavesNobody ==
  Spec => []StuckIsEmpty
<1>1. ASSUME Kept, AllWinding, closed, ~CanServe, NEW c \in Clients
      PROVE  conn[c].at \in {"away", "refused", "gone"}
  <2>1. /\ TypeOK /\ Ending /\ Ends(c) /\ Held(c) /\ Woken(c) /\ Winding(c) /\ conn[c].at \in Stages
        /\ c \in Publishers
    BY <1>1, ConnParts DEF Kept, AllWinding, Publishers
  <2>2. conn[c].at \notin {"accepted", "signing", "signed", "departed"}
    BY <1>1 DEF CanServe
  <2>3. conn[c].at # "serving"
    <3> SUFFICES ASSUME At(c, "serving") PROVE FALSE
      BY DEF At
    <3>1. conn[c].open
      BY <1>1 DEF CanServe
    <3>2. c \in taken
      BY <1>1, <2>1, <3>1 DEF Held, At
    <3> QED BY <1>1, <2>1, <3>2 DEF Ending, CanServe
  <2>4. conn[c].at # "finishing"
    <3> SUFFICES ASSUME At(c, "finishing") PROVE FALSE
      BY DEF At
    <3>1. control[c] \notin {"none", "ended", "new", "added", "telling"} /\ ~conn[c].open
      BY <1>1, <2>1 DEF CanServe, Ends, At
    <3>2. pub[c].left = {} /\ pub[c].waking = {} /\ \A p \in Publishers : c \notin pub[p].waking
      BY <1>1, <2>1 DEF CanServe
    <3>3. control[c] # "reading"
      BY <1>1, <2>1, <3>2 DEF CanServe, Winding
    <3>4. control[c] = "ending"
      BY <2>1, <3>1, <3>3 DEF TypeOK
    <3>5. watcher[c].stopped /\ watcher[c].at \in {"wait", "write", "end"}
      BY <2>1, <3>4, WatcherParts DEF Winding
    <3>6. watcher[c].at = "wait" => watcher[c].wake
      BY <2>1, <3>2, <3>5 DEF Woken
    <3> QED BY <1>1, <3>1, <3>4, <3>5, <3>6 DEF CanServe
  <2> QED BY <2>1, <2>2, <2>3, <2>4 DEF Stages
<1>2. Kept /\ AllWinding => StuckIsEmpty
  BY <1>1 DEF StuckIsEmpty, NobodyIsLeft
<1>3. Kept /\ AllWinding /\ [Next]_vars => AllWinding'
  BY NextWinds DEF Kept
<1> QED BY <1>2, <1>3, InitWinds, KeptAlways, PTL DEF Spec

=============================================================================
