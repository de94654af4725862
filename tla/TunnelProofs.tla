---------------------------- MODULE TunnelProofs ----------------------------
(* What Tunnel promises, for any number of streams and any limit: a closed tunnel
   leaves no socket behind, nothing outlives what it rides on, a tunnel carries
   no more than it may, and the closes of it and its connections do not wait for
   one another.

   The first three are about who answers for a thing while goroutines pass each
   other: a rider is known to what carries it, or was taken by its close, or is
   over; a socket is held, or was taken by the close, or its stream is about to
   look.  The last is about who a close waits for: Runs, Carries, OpenFirst and
   RowTold.                                                                   *)
EXTENDS Tunnel, FiniteSetTheorems, TLAPS

USE DEF Conns, Things, Callers, Carrier, Streams, Sockets, Carried, Refused, Near, Far

Riders == {"Far", "Tunnel"}
Steps == {"no", "called", "runs", "cuts", "waits", "drops", "done"}

(* A caller that closes something has said so, and one that goes on after it was
   closed finds it closed.  Nothing carries Near. *)
Closers ==
  \A r \in Things, by \in Callers :
    /\ closer[r][by] \in {"runs", "cuts", "waits"} => r \in closing
    /\ closer[r][by] \in {"drops", "done"} => r \in finished
    /\ r = "Near" => closer[r][by] # "drops"

(* What is open on a connection is over, or the connection knows it, or its close
   took it; once the close is over, it is over. *)
Riding ==
  \A r \in Riders : opened[r] = "open" =>
    /\ r \in finished \/ r \in IF Carrier[r] \in closing THEN taken[Carrier[r]] ELSE riders[Carrier[r]]
    /\ Carrier[r] \in finished => r \in finished

(* The sockets the tunnel answers for. *)
InHand == IF "Tunnel" \in closing THEN cut ELSE live

(* A socket that is open is in hand, or its stream is about to look whether the
   tunnel is closing; a stream that is carried has its own in hand. *)
StreamHeld(s) ==
  /\ Near(s) \in sock => stream[s] = "new" \/ Near(s) \in InHand
  /\ Far(s) \in sock => stream[s] \in {"answering", "dialled"} \/ Far(s) \in InHand
  /\ stream[s] = "copying" /\ halves[s] = {} => Near(s) \notin sock /\ Far(s) \notin sock
  /\ "Tunnel" \notin closing /\ stream[s] \in Carried \cup {"held"} => Near(s) \in live

Holding ==
  /\ "Tunnel" \in finished => cut = {}
  /\ \A s \in Streams : StreamHeld(s)

CarriedNow == {s \in Streams : stream[s] \in Carried}

Kept == TypeOK /\ Closers /\ Riding /\ Holding /\ AtMostItCarries

LEMMA StreamsFinite ==
  /\ IsFiniteSet(Streams) /\ IsFiniteSet(Sockets)
  /\ \A T \in SUBSET Streams : IsFiniteSet(T) /\ Cardinality(T) \in Nat
<1>1. IsFiniteSet(Streams)
  BY FS_Interval, MaxStreamsAssumption
<1>2. IsFiniteSet({"near", "far"})
  <2>1. IsFiniteSet({"near"})
    BY FS_Singleton
  <2>2. {"near"} \cup {"far"} = {"near", "far"}
    OBVIOUS
  <2>3. IsFiniteSet({"near"} \cup {"far"})
    BY <2>1, FS_AddElement, Zenon
  <2> QED BY <2>2, <2>3
<1>3. IsFiniteSet(Sockets)
  BY <1>1, <1>2, FS_Product
<1>4. \A T \in SUBSET Streams : IsFiniteSet(T)
  BY <1>1, FS_Subset
<1> QED BY <1>1, <1>3, <1>4, FS_CardinalityType

(* Streams each of which has its near socket among some are not more than those. *)
LEMMA NearsCount ==
  ASSUME NEW T \in SUBSET Streams, NEW L \in SUBSET Sockets, \A s \in T : Near(s) \in L
  PROVE  Cardinality(T) <= Cardinality(L)
<1> DEFINE f == [s \in T |-> Near(s)]
<1>1. f \in Injection(T, L)
  BY DEF Injection, IsInjective
<1>2. IsFiniteSet(L)
  BY StreamsFinite, FS_Subset
<1> QED BY <1>1, <1>2, FS_Injection

LEMMA FewerCarried ==
  ASSUME NEW S, NEW T, S \subseteq T, T \subseteq Streams
  PROVE  Cardinality(S) <= Cardinality(T) /\ Cardinality(S) \in Nat /\ Cardinality(T) \in Nat
  BY StreamsFinite, FS_Subset

LEMMA InitKept == Init => Kept
<1> SUFFICES ASSUME Init PROVE Kept
  OBVIOUS
<1>1. TypeOK
  <2>1. /\ kind \in Kinds /\ up \subseteq Conns /\ closing \subseteq Things /\ finished \subseteq closing
        /\ opened \in [{"Far", "Tunnel"} -> {"no", "asked", "made", "open", "refused", "failed"}]
        /\ riders \in [Conns -> SUBSET {"Far", "Tunnel"}] /\ taken \in [Conns -> SUBSET {"Far", "Tunnel"}]
    BY DEF Init
  <2>2. closer \in [Things -> [Callers -> Steps]]
    BY DEF Init, None, Steps
  <2>3. /\ listening \in BOOLEAN /\ broke \in BOOLEAN /\ stopEvent \in BOOLEAN
        /\ serve \in {"no", "accepting", "pausing", "closing", "over"}
        /\ row \in {"none", "live", "stopped", "cleared"} /\ goneEvent \in {"no", "queued", "seen"}
    BY DEF Init
  <2>4. /\ stream \in [Streams -> {"new"} \cup Carried \cup Refused]
        /\ sock \subseteq Sockets /\ live \subseteq Sockets /\ cut \subseteq Sockets
        /\ halves \in [Streams -> SUBSET {"out", "back"}]
    BY DEF Init
  <2>5. trouble \in 0..MaxTrouble
    BY MaxStreamsAssumption DEF Init
  <2> QED BY <2>1, <2>2, <2>3, <2>4, <2>5 DEF TypeOK, Steps
<1>2. Closers
  BY DEF Init, Closers, None
<1>3. Riding
  BY DEF Init, Riding, Riders
<1>4. Holding
  BY DEF Init, Holding, StreamHeld
<1>5. AtMostItCarries
  <2>1. CarriedNow = {}
    BY DEF Init, CarriedNow
  <2> QED BY <2>1, FS_EmptySet, MaxStreamsAssumption DEF AtMostItCarries, CarriedNow
<1> QED BY <1>1, <1>2, <1>3, <1>4, <1>5 DEF Kept

Moves(r, by, at) == closer' = [closer EXCEPT ![r][by] = at]

(* One caller of one close comes to another step. *)
LEMMA CallerMoves ==
  ASSUME TypeOK, NEW r \in Things, NEW by \in Callers, NEW at \in Steps,
         Moves(r, by, at)
  PROVE  /\ closer' \in [Things -> [Callers -> Steps]] /\ closer'[r][by] = at
         /\ \A x \in Things, c \in Callers : <<x, c>> # <<r, by>> => closer'[x][c] = closer[x][c]
<1>1. closer \in [Things -> [Callers -> Steps]]
  BY DEF TypeOK, Steps
<1>2. closer[r] \in [Callers -> Steps]
  BY <1>1
<1> DEFINE g == [closer[r] EXCEPT ![by] = at]
<1>3. g \in [Callers -> Steps] /\ g[by] = at /\ \A c \in Callers \ {by} : g[c] = closer[r][c]
  BY <1>2
<1>4. closer' = [closer EXCEPT ![r] = g]
  BY Zenon DEF Moves
<1> HIDE DEF g
<1> QED BY <1>1, <1>3, <1>4

(* The close of something goes on; its callers stay right when what they wait for
   is. *)
LEMMA ClosersKept ==
  ASSUME Kept, NEW r \in Things, NEW by \in Callers, NEW at \in Steps,
         Moves(r, by, at), closing \subseteq closing', finished \subseteq finished',
         at \in {"runs", "cuts", "waits"} => r \in closing',
         at \in {"drops", "done"} => r \in finished',
         at = "drops" => r # "Near"
  PROVE  Closers'
<1>0. TypeOK
  BY DEF Kept
<1>1. /\ closer'[r][by] = at
      /\ \A x \in Things, c \in Callers : <<x, c>> # <<r, by>> => closer'[x][c] = closer[x][c]
  BY <1>0, CallerMoves
<1> SUFFICES ASSUME NEW x \in Things, NEW c \in Callers
             PROVE  /\ closer'[x][c] \in {"runs", "cuts", "waits"} => x \in closing'
                    /\ closer'[x][c] \in {"drops", "done"} => x \in finished'
                    /\ x = "Near" => closer'[x][c] # "drops"
  BY DEF Closers
<1>2. CASE <<x, c>> = <<r, by>>
  BY <1>1, <1>2
<1>3. CASE <<x, c>> # <<r, by>>
  BY <1>1, <1>3 DEF Kept, Closers
<1> QED BY <1>2, <1>3

(* What is carried stays as it is, while nothing closes. *)
LEMMA CarryingKept ==
  ASSUME Kept, UNCHANGED carrying, "Tunnel" \in closing' <=> "Tunnel" \in closing,
         "Tunnel" \in finished' <=> "Tunnel" \in finished
  PROVE  Holding' /\ AtMostItCarries'
<1>1. UNCHANGED <<stream, sock, live, cut, halves>>
  BY DEF carrying
<1>2. Holding'
  BY <1>1 DEF Kept, Holding, StreamHeld, InHand
<1> QED BY <1>1, <1>2 DEF Kept, AtMostItCarries

LEMMA RidingKept ==
  ASSUME Kept, UNCHANGED <<opened, riders, closing, taken, finished>>
  PROVE  Riding'
  BY DEF Kept, Riding

(* Only callers, and what has no part in this, change. *)
LEMMA CalledKept ==
  ASSUME Kept, TypeOK', UNCHANGED <<opened, riders, closing, taken, finished, carrying>>,
         closer' = closer \/ \E r \in Things, by \in Callers : Moves(r, by, "called")
  PROVE  Kept'
<1>1. Holding' /\ AtMostItCarries'
  BY CarryingKept
<1>2. Riding'
  BY RidingKept
<1>3. Closers'
  <2>1. CASE closer' = closer
    BY <2>1 DEF Kept, Closers
  <2>2. ASSUME NEW r \in Things, NEW by \in Callers, Moves(r, by, "called") PROVE Closers'
    <3>1. "called" \in Steps
      BY DEF Steps
    <3> QED BY <2>2, <3>1, ClosersKept
  <2> QED BY <2>1, <2>2
<1> QED BY <1>1, <1>2, <1>3 DEF Kept

LEMMA CalledType ==
  ASSUME TypeOK, closer' = closer \/ \E r \in Things, by \in Callers : Moves(r, by, "called")
  PROVE  closer' \in [Things -> [Callers -> Steps]]
<1>1. "called" \in Steps
  BY DEF Steps
<1>2. closer \in [Things -> [Callers -> Steps]]
  BY DEF TypeOK, Steps
<1> QED BY <1>1, <1>2, CallerMoves

LEMMA UserKept ==
  ASSUME Kept, NEW c \in Conns, UserCloses(c) \/ TransportEnds(c)
  PROVE  Kept'
<1>1. /\ UNCHANGED <<kind, opened, riders, closing, taken, finished, accepting, carrying, window>> /\ TypeOK
      /\ trouble < MaxTrouble /\ trouble' = trouble + 1
  BY DEF UserCloses, TransportEnds, Trouble, Kept
<1>2. closer' = closer \/ \E r \in Things, by \in Callers : Moves(r, by, "called")
  BY DEF UserCloses, TransportEnds, Calls, Moves
<1>3. up' \subseteq Conns
  <2>1. up \subseteq Conns
    BY <1>1 DEF TypeOK
  <2>2. UNCHANGED up \/ up' = {} \/ up' = up \ {c}
    BY DEF UserCloses, TransportEnds
  <2> QED BY <2>1, <2>2
<1>4. trouble' \in 0..MaxTrouble
  BY <1>1, MaxStreamsAssumption DEF TypeOK
<1>5. closer' \in [Things -> [Callers -> Steps]]
  BY <1>1, <1>2, CalledType
<1>6. TypeOK'
  BY <1>1, <1>3, <1>4, <1>5 DEF TypeOK, Steps, accepting, carrying, window
<1> QED BY <1>1, <1>2, <1>6, CalledKept

LEMMA ServeKept ==
  ASSUME Kept, AcceptPasses \/ AcceptsAgain \/ ListenerBreaks \/ AcceptFails \/ Stopped
  PROVE  Kept'
<1>1. /\ UNCHANGED <<kind, up, opened, riders, closing, taken, finished, carrying, row, goneEvent>> /\ TypeOK
  BY DEF AcceptPasses, AcceptsAgain, ListenerBreaks, AcceptFails, Stopped, Kept, conns, window
<1>2. closer' = closer \/ \E r \in Things, by \in Callers : Moves(r, by, "called")
  BY DEF AcceptPasses, AcceptsAgain, ListenerBreaks, AcceptFails, Stopped, Calls, Moves, conns
<1>3. trouble' \in 0..MaxTrouble
  <2>1. trouble \in 0..MaxTrouble /\ (trouble' = trouble \/ Trouble)
    BY <1>1 DEF AcceptPasses, AcceptsAgain, ListenerBreaks, AcceptFails, Stopped, TypeOK
  <2> QED BY <2>1, MaxStreamsAssumption DEF Trouble
<1>4. /\ serve' \in {"no", "accepting", "pausing", "closing", "over"}
      /\ listening' \in BOOLEAN /\ broke' \in BOOLEAN /\ stopEvent' \in BOOLEAN
  BY <1>1 DEF AcceptPasses, AcceptsAgain, ListenerBreaks, AcceptFails, Stopped, TypeOK, accepting, window
<1>5. closer' \in [Things -> [Callers -> Steps]]
  BY <1>1, <1>2, CalledType
<1>6. TypeOK'
  BY <1>1, <1>3, <1>4, <1>5 DEF TypeOK, Steps, carrying
<1> QED BY <1>1, <1>2, <1>6, CalledKept

LEMMA RowsKept ==
  ASSUME Kept, RowCloses \/ RowStops \/ WaitReturns \/ RowDies
  PROVE  Kept'
<1>1. /\ UNCHANGED <<kind, up, opened, riders, closing, taken, finished, accepting, carrying>> /\ TypeOK
  BY DEF RowCloses, RowStops, WaitReturns, RowDies, Kept, conns
<1>2. closer' = closer \/ \E r \in Things, by \in Callers : Moves(r, by, "called")
  BY DEF RowCloses, RowStops, WaitReturns, RowDies, ClosesTunnel, Calls, Moves, conns
<1>3. trouble' \in 0..MaxTrouble
  <2>1. trouble \in 0..MaxTrouble /\ (trouble' = trouble \/ Trouble)
    BY <1>1 DEF RowCloses, RowStops, WaitReturns, RowDies, TypeOK
  <2> QED BY <2>1, MaxStreamsAssumption DEF Trouble
<1>4. /\ row' \in {"none", "live", "stopped", "cleared"} /\ stopEvent' \in BOOLEAN
      /\ goneEvent' \in {"no", "queued", "seen"}
  BY <1>1 DEF RowCloses, RowStops, WaitReturns, RowDies, TypeOK
<1>5. closer' \in [Things -> [Callers -> Steps]]
  BY <1>1, <1>2, CalledType
<1>6. TypeOK'
  BY <1>1, <1>3, <1>4, <1>5 DEF TypeOK, Steps, accepting, carrying
<1> QED BY <1>1, <1>2, <1>6, CalledKept

(* A close that begins, of a connection: it takes its riders, and calls for the
   close of each. *)
LEMMA BeginsConn ==
  ASSUME Kept, NEW c \in Conns, NEW by \in Callers, Begins(c, by), c \notin closing
  PROVE  Kept'
<1>1. /\ UNCHANGED <<kind, trouble, up, opened, finished, accepting, carrying, window>> /\ TypeOK
      /\ closing' = closing \cup {c} /\ taken' = [taken EXCEPT ![c] = riders[c]]
      /\ riders' = [riders EXCEPT ![c] = {}]
      /\ closer' = [x \in Things |-> IF x = c THEN [closer[x] EXCEPT ![by] = "runs"]
                                ELSE IF x \in riders[c] THEN [closer[x] EXCEPT !["carrier"] = "called"]
                                ELSE closer[x]]
  BY DEF Begins, Kept, carrying
<1>2. /\ closer \in [Things -> [Callers -> Steps]] /\ finished \subseteq closing /\ closing \subseteq Things
      /\ riders \in [Conns -> SUBSET {"Far", "Tunnel"}] /\ taken \in [Conns -> SUBSET {"Far", "Tunnel"}]
  BY <1>1 DEF TypeOK, Steps
<1>3. \A x \in Things, b \in Callers :
         \/ closer'[x][b] = closer[x][b] \/ closer'[x][b] = "called"
         \/ x = c /\ closer'[x][b] = "runs"
  BY <1>1, <1>2
<1>4. closer' \in [Things -> [Callers -> Steps]]
  <2>1. \A x \in Things : closer[x] \in [Callers -> Steps] /\ "runs" \in Steps /\ "called" \in Steps
    BY <1>2 DEF Steps
  <2>2. \A x \in Things : /\ [closer[x] EXCEPT ![by] = "runs"] \in [Callers -> Steps]
                          /\ [closer[x] EXCEPT !["carrier"] = "called"] \in [Callers -> Steps]
    BY <2>1
  <2> QED BY <1>1, <2>1, <2>2
<1>5. Closers'
  BY <1>1, <1>3 DEF Kept, Closers
<1>6. /\ riders' \in [Conns -> SUBSET {"Far", "Tunnel"}] /\ taken' \in [Conns -> SUBSET {"Far", "Tunnel"}]
      /\ taken'[c] = riders[c]
      /\ \A d \in Conns \ {c} : riders'[d] = riders[d] /\ taken'[d] = taken[d]
  BY <1>1, <1>2
<1>7. Riding'
  BY <1>1, <1>2, <1>6 DEF Kept, Riding, Riders
<1>8. Holding' /\ AtMostItCarries'
  BY <1>1, CarryingKept
<1>9. TypeOK'
  BY <1>1, <1>2, <1>4, <1>6 DEF TypeOK, Steps, accepting, carrying, window
<1> QED BY <1>5, <1>7, <1>8, <1>9 DEF Kept

(* And of the tunnel: it takes the sockets in hand. *)
LEMMA BeginsTunnel ==
  ASSUME Kept, NEW by \in Callers, Begins("Tunnel", by), "Tunnel" \notin closing
  PROVE  Kept'
<1>1. /\ UNCHANGED <<kind, trouble, up, opened, riders, taken, finished, accepting, stream, sock, halves, window>>
      /\ TypeOK /\ closing' = closing \cup {"Tunnel"} /\ Moves("Tunnel", by, "runs")
      /\ cut' = live /\ live' = {}
  BY DEF Begins, Kept, Moves
<1>2. "runs" \in Steps /\ "Tunnel" \in Things
  BY DEF Steps
<1>3. Closers'
  BY <1>1, <1>2, ClosersKept
<1>4. Riding'
  BY <1>1 DEF Kept, Riding, Riders
<1>5. Holding'
  BY <1>1 DEF Kept, TypeOK, Holding, StreamHeld, InHand
<1>6. AtMostItCarries'
  BY <1>1 DEF AtMostItCarries
<1>7. closer' \in [Things -> [Callers -> Steps]]
  BY <1>1, <1>2, CallerMoves
<1>8. TypeOK'
  BY <1>1, <1>7 DEF TypeOK, Steps, accepting, window
<1> QED BY <1>3, <1>4, <1>5, <1>6, <1>8 DEF Kept

(* One that comes later waits. *)
LEMMA WaitsKept ==
  ASSUME Kept, NEW r \in Things, NEW by \in Callers, r \in closing, NEW at \in Steps, Moves(r, by, at),
         at = "waits" \/ (r \in finished /\ at = AfterClosing(r, by)),
         UNCHANGED <<kind, trouble, up, opened, riders, closing, taken, finished, accepting, carrying, window>>
  PROVE  Kept'
<1>1. Closers'
  BY ClosersKept DEF AfterClosing
<1>2. Riding' /\ Holding' /\ AtMostItCarries'
  BY RidingKept, CarryingKept
<1>3. closer' \in [Things -> [Callers -> Steps]] /\ TypeOK
  BY CallerMoves DEF Kept
<1>4. TypeOK'
  BY <1>3 DEF TypeOK, Steps, accepting, carrying, window
<1> QED BY <1>1, <1>2, <1>4 DEF Kept

(* A connection whose riders are closed hangs up. *)
LEMMA HangsUpKept ==
  ASSUME Kept, NEW c \in Conns, NEW by \in Callers, HangsUp(c, by)
  PROVE  Kept'
<1> DEFINE at == AfterClosing(c, by)
<1>1. /\ UNCHANGED <<kind, trouble, opened, riders, closing, taken, accepting, carrying, window>> /\ TypeOK
      /\ closer[c][by] = "runs" /\ \A r \in taken[c] : closer[r]["carrier"] = "done"
      /\ up' = up \ {c} /\ finished' = finished \cup {c} /\ Moves(c, by, at)
  BY DEF HangsUp, Kept, Moves
<1>2. c \in closing /\ taken[c] \subseteq Riders /\ at \in {"done", "drops"} /\ (at = "drops" => c # "Near")
  BY <1>1 DEF Kept, Closers, TypeOK, Riders, AfterClosing
<1>3. at \in Steps /\ c \in Things
  BY <1>2 DEF Steps
<1>4. \A r \in taken[c] : r \in finished
  BY <1>1, <1>2 DEF Kept, Closers, Riders
<1> HIDE DEF at
<1>5. Closers'
  BY <1>1, <1>2, <1>3, ClosersKept
<1>6. Riding'
  BY <1>1, <1>2, <1>4 DEF Kept, Riding, Riders
<1>7. Holding' /\ AtMostItCarries'
  BY <1>1, CarryingKept
<1>8. closer' \in [Things -> [Callers -> Steps]]
  BY <1>1, <1>3, CallerMoves
<1>9. TypeOK'
  BY <1>1, <1>2, <1>8 DEF TypeOK, Steps, accepting, carrying, window
<1> QED BY <1>5, <1>6, <1>7, <1>9 DEF Kept

(* The tunnel stops listening, then cuts what it took. *)
LEMMA CutsKept ==
  ASSUME Kept, NEW by \in Callers, StopsListening(by) \/ Cuts(by)
  PROVE  Kept'
<1>1. CASE StopsListening(by)
  <2>1. /\ UNCHANGED <<kind, trouble, up, opened, riders, closing, taken, finished, broke, serve, carrying, window>>
        /\ TypeOK /\ closer["Tunnel"][by] = "runs" /\ Moves("Tunnel", by, "cuts")
        /\ listening' \in BOOLEAN
    BY <1>1 DEF StopsListening, Kept, TypeOK, Moves
  <2>2. "Tunnel" \in closing /\ "cuts" \in Steps /\ "Tunnel" \in Things
    BY <2>1 DEF Kept, Closers, Steps
  <2>3. Closers'
    BY <2>1, <2>2, ClosersKept
  <2>4. Riding' /\ Holding' /\ AtMostItCarries'
    BY <2>1, RidingKept, CarryingKept
  <2>5. closer' \in [Things -> [Callers -> Steps]]
    BY <2>1, <2>2, CallerMoves
  <2>6. TypeOK'
    BY <2>1, <2>5 DEF TypeOK, Steps, carrying, window
  <2> QED BY <2>3, <2>4, <2>6 DEF Kept
<1>2. CASE Cuts(by)
  <2> DEFINE at == AfterClosing("Tunnel", by)
  <2>1. /\ UNCHANGED <<kind, trouble, up, opened, riders, closing, taken, accepting, stream, live, halves, window>>
        /\ TypeOK /\ closer["Tunnel"][by] = "cuts" /\ Moves("Tunnel", by, at)
        /\ sock' = sock \ cut /\ cut' = {} /\ finished' = finished \cup {"Tunnel"}
    BY <1>2 DEF Cuts, Kept, Moves
  <2>2. "Tunnel" \in closing /\ at \in {"drops", "done"} /\ "Tunnel" \in Things
    BY <2>1 DEF Kept, Closers, AfterClosing
  <2>3. at \in Steps
    BY <2>2 DEF Steps
  <2> HIDE DEF at
  <2>4. Closers'
    BY <2>1, <2>2, <2>3, ClosersKept
  <2>5. Riding'
    BY <2>1 DEF Kept, Riding, Riders
  <2>6. Holding' /\ AtMostItCarries'
    BY <2>1, <2>2 DEF Kept, Holding, StreamHeld, InHand, AtMostItCarries
  <2>7. closer' \in [Things -> [Callers -> Steps]]
    BY <2>1, <2>2, <2>3, CallerMoves
  <2>8. TypeOK'
    BY <2>1, <2>2, <2>7 DEF TypeOK, Steps, accepting, window
  <2> QED BY <2>4, <2>5, <2>6, <2>8 DEF Kept
<1> QED BY <1>1, <1>2

(* What closed by itself is forgotten by what carries it, for it is over. *)
LEMMA DropsKept ==
  ASSUME Kept, NEW r \in Things, NEW by \in Callers, Drops(r, by)
  PROVE  Kept'
<1>1. /\ UNCHANGED <<kind, trouble, up, opened, closing, taken, finished, accepting, carrying, window>> /\ TypeOK
      /\ closer[r][by] = "drops" /\ riders' = [riders EXCEPT ![Carrier[r]] = @ \ {r}] /\ Moves(r, by, "done")
  BY DEF Drops, Kept, Moves
<1>2. r \in Riders /\ r \in finished /\ "done" \in Steps
  BY <1>1 DEF Kept, Closers, Riders, Steps
<1>3. /\ riders' \in [Conns -> SUBSET {"Far", "Tunnel"}]
      /\ \A c \in Conns : riders[c] \subseteq riders'[c] \cup {r}
  BY <1>1, <1>2 DEF TypeOK, Riders
<1>4. Closers'
  BY <1>1, <1>2, ClosersKept
<1>5. Riding'
  BY <1>1, <1>2, <1>3 DEF Kept, Riding, Riders
<1>6. Holding' /\ AtMostItCarries'
  BY <1>1, CarryingKept
<1>7. closer' \in [Things -> [Callers -> Steps]]
  BY <1>1, <1>2, CallerMoves
<1>8. TypeOK'
  BY <1>1, <1>3, <1>7 DEF TypeOK, Steps, accepting, carrying, window
<1> QED BY <1>4, <1>5, <1>6, <1>8 DEF Kept

LEMMA ClosingKept ==
  ASSUME Kept, NEW r \in Things, NEW by \in Callers, Closing(r, by)
  PROVE  Kept'
<1>1. CASE Begins(r, by) /\ r \in closing
  <2>1. /\ Moves(r, by, "waits") /\ "waits" \in Steps
        /\ UNCHANGED <<kind, trouble, up, opened, riders, closing, taken, finished, accepting, carrying, window>>
    BY <1>1 DEF Begins, Moves, Steps, carrying
  <2> QED BY <1>1, <2>1, WaitsKept
<1>2. CASE Waited(r, by)
  <2> DEFINE at == AfterClosing(r, by)
  <2>1. /\ Moves(r, by, at) /\ at \in Steps /\ r \in finished /\ r \in closing
        /\ UNCHANGED <<kind, trouble, up, opened, riders, closing, taken, finished, accepting, carrying, window>>
    BY <1>2 DEF Waited, Moves, Steps, AfterClosing, Kept, TypeOK
  <2> QED BY <2>1, WaitsKept
<1>3. CASE Begins(r, by) /\ r \notin closing
  BY <1>3, BeginsConn, BeginsTunnel
<1>4. CASE HangsUp(r, by)
  <2>1. r \in Conns
    BY <1>4 DEF HangsUp
  <2> QED BY <1>4, <2>1, HangsUpKept
<1> QED BY <1>1, <1>2, <1>3, <1>4, DropsKept, CutsKept DEF Closing

(* A connection or a tunnel is asked for, made, and kept or refused: kept by what
   carries it, which is not closing. *)
LEMMA OpeningKept ==
  ASSUME Kept, NEW r \in Riders, Opens(r) \/ Registers(r) \/ Connects \/ Listens
  PROVE  Kept'
<1>1. /\ UNCHANGED <<kind, trouble, closing, taken, finished, carrying, broke, stopEvent, goneEvent>> /\ TypeOK
  BY DEF Opens, Registers, Connects, Listens, Kept, accepting, conns, window
<1>2. /\ opened \in [{"Far", "Tunnel"} -> {"no", "asked", "made", "open", "refused", "failed"}]
      /\ riders \in [Conns -> SUBSET {"Far", "Tunnel"}] /\ up \subseteq Conns /\ finished \subseteq closing
  BY <1>1 DEF TypeOK
<1>3. /\ opened' \in [{"Far", "Tunnel"} -> {"no", "asked", "made", "open", "refused", "failed"}]
      /\ up' \subseteq Conns
  <2>1. opened' = opened \/ \E x \in Riders, at \in {"asked", "made", "failed", "refused", "open"} :
                             opened' = [opened EXCEPT ![x] = at]
    BY DEF Opens, Registers, Connects, Listens, Riders
  <2>2. up' = up \/ up' = up \cup {"Far"}
    BY DEF Opens, Registers, Connects, Listens, conns
  <2>3. opened' \in [{"Far", "Tunnel"} -> {"no", "asked", "made", "open", "refused", "failed"}]
    <3>1. CASE opened' = opened
      BY <1>2, <3>1
    <3>2. ASSUME NEW x \in Riders, NEW at \in {"asked", "made", "failed", "refused", "open"},
                 opened' = [opened EXCEPT ![x] = at]
          PROVE  opened' \in [{"Far", "Tunnel"} -> {"no", "asked", "made", "open", "refused", "failed"}]
      BY <1>2, <3>2
    <3> QED BY <2>1, <3>1, <3>2
  <2>4. up' \subseteq Conns
    BY <1>2, <2>2
  <2> QED BY <2>3, <2>4
<1>4. /\ closer' = closer \/ \E x \in Things, by \in Callers : Moves(x, by, "called")
      /\ listening' \in BOOLEAN /\ serve' \in {"no", "accepting", "pausing", "closing", "over"}
      /\ row' \in {"none", "live", "stopped", "cleared"}
  <2>1. listening \in BOOLEAN /\ serve \in {"no", "accepting", "pausing", "closing", "over"}
        /\ row \in {"none", "live", "stopped", "cleared"}
    BY <1>1 DEF TypeOK
  <2>2. CASE Opens(r)
    BY <2>1, <2>2 DEF Opens, accepting, window
  <2>3. CASE Connects
    BY <2>1, <2>3 DEF Connects, accepting, window
  <2>4. CASE Listens
    BY <2>1, <2>4 DEF Listens, window
  <2>5. CASE Registers(r)
    <3>1. closer' = closer \/ Moves(r, "own", "called")
      BY <2>5 DEF Registers, Calls, Moves
    <3> QED BY <2>1, <2>5, <3>1 DEF Registers, Riders
  <2> QED BY <2>2, <2>3, <2>4, <2>5
<1>5. \/ UNCHANGED riders /\ \A x \in Riders : opened'[x] = "open" => opened[x] = "open"
      \/ /\ Carrier[r] \notin closing /\ riders' = [riders EXCEPT ![Carrier[r]] = @ \cup {r}]
         /\ \A x \in Riders \ {r} : opened'[x] = opened[x]
  BY <1>2 DEF Opens, Registers, Connects, Listens, Riders
<1>6. riders' \in [Conns -> SUBSET {"Far", "Tunnel"}]
  BY <1>2, <1>5 DEF Riders
<1>7. Riding'
  <2>1. CASE UNCHANGED riders /\ \A x \in Riders : opened'[x] = "open" => opened[x] = "open"
    BY <1>1, <2>1 DEF Kept, Riding
  <2>2. CASE /\ Carrier[r] \notin closing /\ riders' = [riders EXCEPT ![Carrier[r]] = @ \cup {r}]
             /\ \A x \in Riders \ {r} : opened'[x] = opened[x]
    <3>1. /\ r \in riders'[Carrier[r]] /\ Carrier[r] \notin finished
          /\ \A c \in Conns : riders[c] \subseteq riders'[c]
      BY <1>2, <2>2 DEF Riders
    <3> QED BY <1>1, <2>2, <3>1 DEF Kept, Riding, Riders
  <2> QED BY <1>5, <2>1, <2>2
<1>8. Closers'
  <2>1. CASE closer' = closer
    BY <1>1, <2>1 DEF Kept, Closers
  <2>2. ASSUME NEW x \in Things, NEW by \in Callers, Moves(x, by, "called") PROVE Closers'
    <3>1. "called" \in Steps
      BY DEF Steps
    <3> QED BY <1>1, <2>2, <3>1, ClosersKept
  <2> QED BY <1>4, <2>1, <2>2
<1>9. Holding' /\ AtMostItCarries'
  BY <1>1, CarryingKept
<1>10. closer' \in [Things -> [Callers -> Steps]]
  BY <1>1, <1>4, CalledType
<1>11. TypeOK'
  BY <1>1, <1>2, <1>3, <1>4, <1>6, <1>10 DEF TypeOK, Steps, carrying
<1> QED BY <1>7, <1>8, <1>9, <1>11 DEF Kept

Stages == {"new"} \cup Carried \cup Refused

(* One stream goes on, and with its own sockets only; the others are as they
   were. *)
LEMMA StreamKept ==
  ASSUME Kept, NEW s \in Streams, NEW at \in Stages, stream' = [stream EXCEPT ![s] = at],
         UNCHANGED <<kind, trouble, conns, accepting, cut, window>>,
         halves' \in [Streams -> SUBSET {"out", "back"}],
         sock' \subseteq Sockets, live' \subseteq Sockets, StreamHeld(s)',
         \A t \in Streams \ {s} :
           /\ halves'[t] = halves[t]
           /\ (Near(t) \in sock' <=> Near(t) \in sock) /\ (Far(t) \in sock' <=> Far(t) \in sock)
           /\ (Near(t) \in live' <=> Near(t) \in live) /\ (Far(t) \in live' <=> Far(t) \in live),
         AtMostItCarries'
  PROVE  Kept'
<1>1. UNCHANGED <<up, opened, riders, closing, taken, finished, closer>> /\ TypeOK
  BY DEF Kept, conns
<1>2. stream' \in [Streams -> Stages] /\ \A t \in Streams \ {s} : stream'[t] = stream[t]
  BY <1>1 DEF TypeOK, Stages
<1>3. Holding'
  <2>1. ASSUME NEW t \in Streams \ {s} PROVE StreamHeld(t)'
    BY <1>1, <1>2, <2>1 DEF Kept, Holding, StreamHeld, InHand
  <2> QED BY <1>1, <2>1 DEF Kept, Holding
<1>4. Closers'
  BY <1>1 DEF Kept, Closers
<1>5. Riding'
  BY <1>1, RidingKept
<1>6. TypeOK'
  BY <1>1, <1>2 DEF TypeOK, Stages, accepting, window
<1> QED BY <1>3, <1>4, <1>5, <1>6 DEF Kept

(* No more are carried when the one that goes on was carried, or is not now. *)
LEMMA NoMoreCarried ==
  ASSUME Kept, NEW s \in Streams, NEW at \in Stages, stream' = [stream EXCEPT ![s] = at],
         UNCHANGED conns, stream[s] \in Carried \/ at \notin Carried
  PROVE  AtMostItCarries'
<1>1. stream \in [Streams -> Stages] /\ closing' = closing
  BY DEF Kept, TypeOK, Stages, conns
<1>2. CarriedNow' \subseteq CarriedNow /\ CarriedNow \subseteq Streams
  BY <1>1 DEF CarriedNow
<1>3. /\ Cardinality(CarriedNow') <= Cardinality(CarriedNow)
      /\ Cardinality(CarriedNow') \in Nat /\ Cardinality(CarriedNow) \in Nat
  BY <1>2, FewerCarried
<1>4. "Tunnel" \notin closing => Cardinality(CarriedNow) <= MaxStreams
  BY DEF Kept, AtMostItCarries, CarriedNow
<1>5. "Tunnel" \notin closing => Cardinality(CarriedNow') <= MaxStreams
  BY <1>3, <1>4, MaxStreamsAssumption
<1> QED BY <1>1, <1>5 DEF AtMostItCarries, CarriedNow

(* A stream that ends lets go of both its sockets. *)
LEMMA EndsKept ==
  ASSUME Kept, NEW s \in Streams, Ends(s), UNCHANGED <<kind, trouble, conns, accepting, cut, halves, window>>
  PROVE  Kept'
<1>1. /\ halves \in [Streams -> SUBSET {"out", "back"}] /\ sock \subseteq Sockets /\ live \subseteq Sockets
      /\ stream \in [Streams -> Stages] /\ "ended" \in Stages
  BY DEF Kept, TypeOK, Stages
<1>2. /\ stream' = [stream EXCEPT ![s] = "ended"] /\ live' = live \ {Near(s), Far(s)}
      /\ sock' = sock \ {Near(s), Far(s)}
  BY DEF Ends, To
<1>3. stream'[s] = "ended" /\ Near(s) \notin sock' /\ Far(s) \notin sock'
  BY <1>1, <1>2
<1>4. StreamHeld(s)'
  BY <1>3 DEF StreamHeld
<1>5. AtMostItCarries'
  BY <1>1, <1>2, NoMoreCarried
<1> QED BY <1>1, <1>2, <1>4, <1>5, StreamKept

LEMMA AcceptsKept ==
  ASSUME Kept, NEW s \in Streams, Accepts(s)
  PROVE  Kept'
<1>1. /\ halves \in [Streams -> SUBSET {"out", "back"}] /\ sock \subseteq Sockets /\ live \subseteq Sockets
      /\ stream \in [Streams -> Stages] /\ "new" \in Stages /\ StreamHeld(s)
  BY DEF Kept, TypeOK, Stages, Holding
<1>2. /\ stream' = [stream EXCEPT ![s] = "new"] /\ sock' = sock \cup {Near(s)} /\ stream[s] = "idle"
      /\ UNCHANGED <<kind, trouble, conns, accepting, live, cut, halves, window>>
  BY DEF Accepts
<1>3. stream'[s] = "new" /\ UNCHANGED closing /\ (Far(s) \in sock' <=> Far(s) \in sock)
  BY <1>1, <1>2 DEF conns
<1>4. StreamHeld(s)'
  BY <1>1, <1>2, <1>3 DEF StreamHeld, InHand
<1>5. AtMostItCarries'
  BY <1>1, <1>2, NoMoreCarried
<1>6. sock' \subseteq Sockets
  BY <1>1, <1>2
<1> QED BY <1>1, <1>2, <1>4, <1>5, <1>6, StreamKept

LEMMA HoldsNearKept ==
  ASSUME Kept, NEW s \in Streams, HoldsNear(s)
  PROVE  Kept'
<1>1. /\ halves \in [Streams -> SUBSET {"out", "back"}] /\ sock \subseteq Sockets /\ live \subseteq Sockets
      /\ stream \in [Streams -> Stages] /\ "held" \in Stages /\ StreamHeld(s)
  BY DEF Kept, TypeOK, Stages, Holding
<1>2. /\ stream[s] = "new" /\ UNCHANGED <<kind, trouble, conns, accepting, cut, halves, window>>
      /\ \/ Ends(s)
         \/ /\ "Tunnel" \notin closing /\ UNCHANGED sock
            /\ stream' = [stream EXCEPT ![s] = "held"] /\ live' = live \cup {Near(s)}
  BY DEF HoldsNear, To
<1>3. CASE /\ "Tunnel" \notin closing /\ UNCHANGED sock
           /\ stream' = [stream EXCEPT ![s] = "held"] /\ live' = live \cup {Near(s)}
  <2>1. stream'[s] = "held" /\ UNCHANGED closing
    BY <1>1, <1>2, <1>3 DEF conns
  <2>2. StreamHeld(s)'
    BY <1>1, <1>2, <1>3, <2>1 DEF StreamHeld, InHand
  <2>3. AtMostItCarries'
    BY <1>1, <1>2, <1>3, NoMoreCarried
  <2>4. live' \subseteq Sockets
    BY <1>1, <1>3
  <2> QED BY <1>1, <1>2, <1>3, <2>2, <2>3, <2>4, StreamKept
<1> QED BY <1>2, <1>3, EndsKept

(* A stream is carried only while the sockets in hand, its own among them, are
   not more than the limit; and each stream that is carried has one there. *)
LEMMA CountsKept ==
  ASSUME Kept, NEW s \in Streams, Counts(s)
  PROVE  Kept'
<1>1. /\ halves \in [Streams -> SUBSET {"out", "back"}] /\ sock \subseteq Sockets /\ live \subseteq Sockets
      /\ stream \in [Streams -> Stages] /\ StreamHeld(s)
  BY DEF Kept, TypeOK, Stages, Holding
<1>2. /\ stream[s] = "held" /\ UNCHANGED <<kind, trouble, conns, accepting, cut, halves, window>>
      /\ \/ Ends(s)
         \/ /\ ~(Cardinality(live) > MaxStreams) /\ UNCHANGED <<sock, live>>
            /\ stream' = [stream EXCEPT ![s] = IF kind = "dynamic" THEN "asking" ELSE "dialing"]
  BY DEF Counts, To
<1>3. CASE /\ ~(Cardinality(live) > MaxStreams) /\ UNCHANGED <<sock, live>>
           /\ stream' = [stream EXCEPT ![s] = IF kind = "dynamic" THEN "asking" ELSE "dialing"]
  <2>1. PICK at \in {"asking", "dialing"} : stream' = [stream EXCEPT ![s] = at]
    BY <1>3
  <2>2. stream'[s] = at /\ UNCHANGED closing /\ at \in Stages
    BY <1>1, <1>2, <2>1 DEF conns, Stages
  <2>3. StreamHeld(s)'
    BY <1>1, <1>2, <1>3, <2>2 DEF StreamHeld, InHand
  <2>4. ASSUME "Tunnel" \notin closing PROVE Cardinality(CarriedNow') <= MaxStreams
    <3>1. \A t \in CarriedNow' : Near(t) \in live
      <4> SUFFICES ASSUME NEW t \in Streams, stream'[t] \in Carried PROVE Near(t) \in live
        BY DEF CarriedNow
      <4>1. stream[t] \in Carried \cup {"held"} /\ StreamHeld(t)
        BY <1>1, <1>2, <2>1 DEF Kept, Holding
      <4> QED BY <2>4, <4>1 DEF StreamHeld
    <3>2. Cardinality(CarriedNow') <= Cardinality(live)
      BY <1>1, <3>1, NearsCount DEF CarriedNow
    <3>3. Cardinality(live) \in Nat /\ Cardinality(CarriedNow') \in Nat
      <4>1. CarriedNow' \in SUBSET Streams /\ IsFiniteSet(live)
        BY <1>1, StreamsFinite, FS_Subset DEF CarriedNow
      <4> QED BY <4>1, StreamsFinite, FS_CardinalityType
    <3> QED BY <1>3, <3>2, <3>3, MaxStreamsAssumption
  <2>5. AtMostItCarries'
    BY <2>2, <2>4 DEF AtMostItCarries, CarriedNow
  <2> QED BY <1>1, <1>2, <1>3, <2>1, <2>2, <2>3, <2>5, StreamKept
<1> QED BY <1>2, <1>3, EndsKept

(* Between its two looks a stream only says where it goes, and dials. *)
LEMMA DialsKept ==
  ASSUME Kept, NEW s \in Streams, Asks(s) \/ Dials(s) \/ Answers(s)
  PROVE  Kept'
<1>1. /\ halves \in [Streams -> SUBSET {"out", "back"}] /\ sock \subseteq Sockets /\ live \subseteq Sockets
      /\ stream \in [Streams -> Stages] /\ StreamHeld(s)
  BY DEF Kept, TypeOK, Stages, Holding
<1>2. UNCHANGED <<kind, trouble, conns, accepting, cut, halves, window>>
  BY DEF Asks, Dials, Answers
<1>3. ASSUME NEW from \in {"asking", "dialing", "answering"}, NEW at \in {"dialing", "answering", "dialled"},
             stream[s] = from, stream' = [stream EXCEPT ![s] = at], UNCHANGED live,
             from = "answering" => at = "dialled",
             UNCHANGED sock \/ (sock' = sock \cup {Far(s)} /\ at \in {"answering", "dialled"})
      PROVE  Kept'
  <2>1. stream'[s] = at /\ UNCHANGED closing /\ at \in Stages /\ sock' \subseteq Sockets
    BY <1>1, <1>2, <1>3 DEF conns, Stages
  <2>2. /\ Near(s) \in sock' <=> Near(s) \in sock
        /\ \A t \in Streams \ {s} : /\ Near(t) \in sock' <=> Near(t) \in sock
                                   /\ Far(t) \in sock' <=> Far(t) \in sock
    BY <1>3
  <2>3. StreamHeld(s)'
    BY <1>1, <1>2, <1>3, <2>1, <2>2 DEF StreamHeld, InHand
  <2>4. AtMostItCarries'
    BY <1>1, <1>2, <1>3, <2>1, NoMoreCarried
  <2> QED BY <1>1, <1>2, <1>3, <2>1, <2>2, <2>3, <2>4, StreamKept
<1>4. CASE Ends(s)
  BY <1>2, <1>4, EndsKept
<1>5. CASE Asks(s) /\ ~Ends(s)
  BY <1>3, <1>5 DEF Asks, To
<1>6. CASE Dials(s) /\ ~Ends(s)
  BY <1>3, <1>6 DEF Dials, To
<1>7. CASE Answers(s) /\ ~Ends(s)
  BY <1>3, <1>7 DEF Answers, To
<1> QED BY <1>4, <1>5, <1>6, <1>7

LEMMA HoldsFarKept ==
  ASSUME Kept, NEW s \in Streams, HoldsFar(s)
  PROVE  Kept'
<1>1. /\ halves \in [Streams -> SUBSET {"out", "back"}] /\ sock \subseteq Sockets /\ live \subseteq Sockets
      /\ stream \in [Streams -> Stages] /\ "copying" \in Stages /\ StreamHeld(s)
  BY DEF Kept, TypeOK, Stages, Holding
<1>2. /\ stream[s] = "dialled" /\ UNCHANGED <<kind, trouble, conns, accepting, cut, window>>
      /\ \/ Ends(s) /\ UNCHANGED halves
         \/ /\ "Tunnel" \notin closing /\ UNCHANGED sock /\ halves' = [halves EXCEPT ![s] = {"out", "back"}]
            /\ stream' = [stream EXCEPT ![s] = "copying"] /\ live' = live \cup {Far(s)}
  BY DEF HoldsFar, To
<1>3. CASE /\ "Tunnel" \notin closing /\ UNCHANGED sock /\ halves' = [halves EXCEPT ![s] = {"out", "back"}]
           /\ stream' = [stream EXCEPT ![s] = "copying"] /\ live' = live \cup {Far(s)}
  <2>1. /\ stream'[s] = "copying" /\ UNCHANGED closing /\ halves'[s] # {} /\ live' \subseteq Sockets
        /\ halves' \in [Streams -> SUBSET {"out", "back"}] /\ \A t \in Streams \ {s} : halves'[t] = halves[t]
    BY <1>1, <1>2, <1>3 DEF conns
  <2>2. StreamHeld(s)'
    BY <1>1, <1>2, <1>3, <2>1 DEF StreamHeld, InHand
  <2>3. AtMostItCarries'
    BY <1>1, <1>2, <1>3, NoMoreCarried
  <2> QED BY <1>1, <1>2, <1>3, <2>1, <2>2, <2>3, StreamKept
<1> QED BY <1>2, <1>3, EndsKept

LEMMA CopyingKept ==
  ASSUME Kept, NEW s \in Streams, Releases(s) \/ \E h \in {"out", "back"} : HalfEnds(s, h)
  PROVE  Kept'
<1>1. /\ halves \in [Streams -> SUBSET {"out", "back"}] /\ sock \subseteq Sockets /\ live \subseteq Sockets
      /\ stream \in [Streams -> Stages] /\ "copying" \in Stages /\ "ended" \in Stages /\ StreamHeld(s)
  BY DEF Kept, TypeOK, Stages, Holding
<1>2. ASSUME NEW h \in {"out", "back"}, HalfEnds(s, h) PROVE Kept'
  <2>1. /\ stream[s] = "copying" /\ UNCHANGED <<kind, trouble, conns, accepting, stream, live, cut, window>>
        /\ sock' = sock \ {Near(s), Far(s)} /\ halves' = [halves EXCEPT ![s] = @ \ {h}]
    BY <1>2 DEF HalfEnds
  <2>2. /\ stream' = [stream EXCEPT ![s] = "copying"] /\ stream'[s] = "copying" /\ UNCHANGED closing
        /\ Near(s) \notin sock' /\ Far(s) \notin sock' /\ sock' \subseteq Sockets
        /\ halves' \in [Streams -> SUBSET {"out", "back"}] /\ \A t \in Streams \ {s} : halves'[t] = halves[t]
    BY <1>1, <2>1 DEF conns
  <2>3. StreamHeld(s)'
    BY <1>1, <2>1, <2>2 DEF StreamHeld
  <2>4. AtMostItCarries'
    BY <1>1, <2>1, <2>2, NoMoreCarried
  <2> QED BY <1>1, <2>1, <2>2, <2>3, <2>4, StreamKept
<1>3. CASE Releases(s)
  <2>1. /\ UNCHANGED <<kind, trouble, conns, accepting, sock, cut, halves, window>>
        /\ stream' = [stream EXCEPT ![s] = "ended"] /\ live' = live \ {Near(s), Far(s)}
        /\ stream[s] = "copying" /\ halves[s] = {}
    BY <1>3 DEF Releases, To
  <2>2. Near(s) \notin sock /\ Far(s) \notin sock
    BY <1>1, <2>1 DEF StreamHeld
  <2>3. Ends(s)
    BY <2>1, <2>2 DEF Ends, To
  <2> QED BY <2>1, <2>3, EndsKept
<1> QED BY <1>2, <1>3

LEMMA StepKept == Kept /\ [Next]_vars => Kept'
<1> SUFFICES ASSUME Kept, [Next]_vars PROVE Kept'
  OBVIOUS
<1>1. CASE User
  BY <1>1, UserKept DEF User
<1>2. CASE Opening
  <2>1. "Far" \in Riders
    BY DEF Riders
  <2> QED BY <1>2, <2>1, OpeningKept DEF Opening, Riders
<1>3. ASSUME NEW r \in Things, NEW by \in Callers, Closing(r, by) PROVE Kept'
  BY <1>3, ClosingKept
<1>4. CASE Serve \/ AcceptPasses \/ ListenerBreaks
  BY <1>4, ServeKept DEF Serve
<1>5. ASSUME NEW s \in Streams, Carry(s) PROVE Kept'
  BY <1>5, HoldsNearKept, CountsKept, DialsKept, HoldsFarKept, CopyingKept DEF Carry
<1>6. CASE Peer
  BY <1>6, AcceptsKept, CopyingKept DEF Peer
<1>7. CASE Rows \/ RowCloses
  BY <1>7, RowsKept DEF Rows
<1>8. CASE UNCHANGED vars
  <2>1. /\ UNCHANGED <<kind, trouble, up, opened, riders, closing, taken, finished, closer>>
        /\ UNCHANGED <<accepting, carrying, window>>
    BY <1>8 DEF vars, conns
  <2>2. TypeOK'
    BY <2>1 DEF Kept, TypeOK, accepting, carrying, window
  <2> QED BY <2>1, <2>2, CalledKept
<1> QED BY <1>1, <1>2, <1>3, <1>4, <1>5, <1>6, <1>7, <1>8 DEF Next

THEOREM KeptAlways == Spec => []Kept
  BY InitKept, StepKept, PTL DEF Spec

(* Every variable of the tunnel and of what it rides on keeps its kind
   (remote/tunnel.go, remote/conn.go, app/tunnels.go). *)
THEOREM TypeCorrect == Spec => []TypeOK
<1>1. Kept => TypeOK
  BY DEF Kept
<1> QED BY <1>1, KeptAlways, PTL

(* Whoever closes the tunnel, and whatever its streams are doing then, the only
   sockets left open are those of a stream about to look (tunnel.go, hold,
   release and closeAll). *)
THEOREM ClosedIsClosed == Spec => []NothingLeftOpen
<1>1. Kept => NothingLeftOpen
  BY DEF Kept, TypeOK, Holding, StreamHeld, InHand, NothingLeftOpen
<1> QED BY <1>1, KeptAlways, PTL

(* However closes and openings meet, what rode on a connection is over once the
   close of that connection is (conn.go, register and closeRider). *)
THEOREM RidersFirst == Spec => []NoneOutlives
<1>1. Kept => NoneOutlives
  BY DEF Kept, Riding, Riders, NoneOutlives
<1> QED BY <1>1, KeptAlways, PTL

(* A tunnel carries no more streams at a time than maxStreams, however many look
   at the count together (tunnel.go, carry). *)
THEOREM LimitHolds == Spec => []AtMostItCarries
<1>1. Kept => AtMostItCarries
  BY DEF Kept
<1> QED BY <1>1, KeptAlways, PTL

-----------------------------------------------------------------------------
(* What each of the steps in Goes waits for. *)
CanGo ==
  \/ opened["Far"] = "no" \/ \E r \in Riders : opened[r] \in {"asked", "made"}
  \/ opened["Tunnel"] = "no" /\ opened["Far"] = "open" /\ goneEvent # "seen"
  \/ \E r \in Things, by \in Callers :
       \/ closer[r][by] \in {"called", "drops"}
       \/ closer[r][by] = "waits" /\ r \in finished
       \/ closer[r][by] = "runs" /\ r \in Conns /\ \A x \in taken[r] : closer[x]["carrier"] = "done"
       \/ closer[r][by] \in {"runs", "cuts"} /\ r = "Tunnel"
  \/ serve = "pausing"
  \/ serve = "accepting" /\ (~listening \/ (kind = "remote" /\ "Far" \notin up))
  \/ serve = "closing" /\ closer["Tunnel"]["own"] = "done"
  \/ WindowFree /\ (stopEvent \/ goneEvent = "queued")
  \/ opened["Far"] = "open" /\ "Far" \notin up /\ goneEvent = "no"
  \/ \E s \in Streams :
       \/ stream[s] \in {"new", "held", "asking", "dialing", "answering", "dialled"}
       \/ stream[s] = "copying" /\ (halves[s] = {} \/ ~({Near(s), Far(s)} \subseteq sock))

(* What is closing and is not closed has one who closes it; a connection waits only
   for what it carries, whose close it has called for. *)
Runs(r) == r \in closing \ finished => \E by \in Callers : closer[r][by] \in {"runs", "cuts"}
Carries ==
  /\ \A by \in Callers : closer["Near"][by] # "cuts" /\ closer["Far"][by] # "cuts"
  /\ \A c \in Conns : riders[c] \cup taken[c] \subseteq {r \in Riders : Carrier[r] = c}
  /\ \A r \in Riders : /\ r \in taken[Carrier[r]] => closer[r]["carrier"] # "no"
                       /\ closer[r]["carrier"] # "no" => Carrier[r] \in closing

(* What was never open is not closed, nor what was never asked for carried. *)
OpenFirst ==
  /\ opened["Far"] \notin {"open", "refused"} =>
       "Far" \notin closing /\ \A by \in Callers : closer["Far"][by] = "no"
  /\ opened["Tunnel"] # "open" =>
       "Tunnel" \notin closing /\ \A by \in Callers : closer["Tunnel"][by] = "no"
  /\ \A c \in Conns : \A r \in riders[c] : opened[r] = "open"
  /\ opened["Tunnel"] # "no" => opened["Far"] = "open"
  /\ "Far" \in finished => "Far" \notin up

(* A tunnel that shows as live is served, or its loop has ended and the window has
   yet to hear of it: from the loop, or from the connection that went. *)
RowTold ==
  /\ IF opened["Tunnel"] = "open" THEN serve \in {"accepting", "pausing", "closing", "over"}
     ELSE serve = "no" /\ row = "none"
  /\ serve = "closing" => closer["Tunnel"]["own"] # "no"
  /\ closer["Tunnel"]["own"] # "no" => serve \in {"closing", "over"}
  /\ closer["Tunnel"]["user"] # "no" => row \in {"stopped", "cleared"}
  /\ row = "live" /\ "Tunnel" \in closing =>
       closer["Tunnel"]["own"] # "no" \/ closer["Tunnel"]["carrier"] # "no"
  /\ row = "live" /\ serve = "over" => stopEvent \/ closer["Tunnel"]["carrier"] # "no"
  /\ goneEvent = "seen" => row # "live" /\ opened["Tunnel"] \notin {"asked", "made"}

AllRun == \A r \in Things : Runs(r)
Winds == AllRun /\ Carries /\ OpenFirst /\ RowTold

(* Where no goroutine has a step left, all that anyone closes is closed, and the
   row is right. *)
StuckIsOver == ~CanGo => AllIsClosed /\ RowIsRight

LEMMA InitWinds == Init => Winds
  BY DEF Init, None, Winds, AllRun, Runs, Carries, OpenFirst, RowTold, Riders

(* A close that goes on by one step leaves every other with who closes it. *)
LEMMA RunsStay ==
  ASSUME TypeOK, AllRun, NEW r \in Things, NEW by \in Callers, NEW at \in Steps, Moves(r, by, at),
         UNCHANGED closing, finished \subseteq finished',
         closer[r][by] \in {"runs", "cuts"} => at \in {"runs", "cuts"} \/ r \in finished'
  PROVE  AllRun'
<1>1. /\ closer'[r][by] = at
      /\ \A x \in Things, c \in Callers : <<x, c>> # <<r, by>> => closer'[x][c] = closer[x][c]
  BY CallerMoves
<1> SUFFICES ASSUME NEW x \in Things, x \in closing' \ finished'
             PROVE  \E c \in Callers : closer'[x][c] \in {"runs", "cuts"}
  BY DEF AllRun, Runs
<1>2. PICK c \in Callers : closer[x][c] \in {"runs", "cuts"}
  BY DEF AllRun, Runs
<1>3. CASE <<x, c>> = <<r, by>>
  BY <1>1, <1>2, <1>3
<1>4. CASE <<x, c>> # <<r, by>>
  BY <1>1, <1>2, <1>4
<1> QED BY <1>3, <1>4

LEMMA CarriesStay ==
  ASSUME TypeOK, Carries, NEW r \in Things, NEW by \in Callers, NEW at \in Steps, Moves(r, by, at),
         UNCHANGED <<closing, taken>>,
         \A c \in Conns : riders'[c] \subseteq {x \in Riders : Carrier[x] = c},
         at = "cuts" => r = "Tunnel", at # "no", by = "carrier" => closer[r][by] # "no"
  PROVE  Carries'
<1>1. /\ closer'[r][by] = at
      /\ \A x \in Things, c \in Callers : <<x, c>> # <<r, by>> => closer'[x][c] = closer[x][c]
  BY CallerMoves
<1>2. \A c \in Callers : closer'["Near"][c] # "cuts" /\ closer'["Far"][c] # "cuts"
  BY <1>1 DEF Carries
<1>3. \A c \in Conns : riders'[c] \cup taken'[c] \subseteq {x \in Riders : Carrier[x] = c}
  BY DEF Carries
<1>4. ASSUME NEW x \in Riders
      PROVE  /\ x \in taken'[Carrier[x]] => closer'[x]["carrier"] # "no"
             /\ closer'[x]["carrier"] # "no" => Carrier[x] \in closing'
  <2>1. x \in Things /\ "carrier" \in Callers
    BY DEF Riders
  <2>2. (closer'[x]["carrier"] = "no") <=> (closer[x]["carrier"] = "no")
    BY <1>1, <2>1
  <2> QED BY <2>2 DEF Carries
<1> QED BY <1>2, <1>3, <1>4 DEF Carries

(* Of what is opened, and of the row, a close that goes on concerns only who has
   called for one. *)
LEMMA OpenStays ==
  ASSUME TypeOK, OpenFirst, NEW r \in Things, NEW by \in Callers, NEW at \in Steps, Moves(r, by, at),
         UNCHANGED <<opened, closing>>, \A c \in Conns : riders'[c] \subseteq riders[c],
         r = "Far" => opened["Far"] \in {"open", "refused"}, r = "Tunnel" => opened["Tunnel"] = "open",
         up' \subseteq up, "Far" \in finished' => "Far" \in finished \/ "Far" \notin up'
  PROVE  OpenFirst'
<1>1. \A x \in Things, c \in Callers : <<x, c>> # <<r, by>> => closer'[x][c] = closer[x][c]
  BY CallerMoves
<1>2. opened'["Far"] \notin {"open", "refused"} =>
        "Far" \notin closing' /\ \A c \in Callers : closer'["Far"][c] = "no"
  BY <1>1 DEF OpenFirst
<1>3. opened'["Tunnel"] # "open" =>
        "Tunnel" \notin closing' /\ \A c \in Callers : closer'["Tunnel"][c] = "no"
  BY <1>1 DEF OpenFirst
<1> QED BY <1>2, <1>3 DEF OpenFirst

LEMMA RowStays ==
  ASSUME TypeOK, RowTold, NEW r \in Things, NEW by \in Callers, NEW at \in Steps, Moves(r, by, at),
         UNCHANGED <<opened, closing, serve, row, stopEvent, goneEvent>>,
         at # "no", closer[r][by] # "no" \/ r # "Tunnel"
  PROVE  RowTold'
<1>1. /\ closer'[r][by] = at
      /\ \A x \in Things, c \in Callers : <<x, c>> # <<r, by>> => closer'[x][c] = closer[x][c]
  BY CallerMoves
<1>2. \A c \in Callers : (closer'["Tunnel"][c] = "no") <=> (closer["Tunnel"][c] = "no")
  BY <1>1
<1> QED BY <1>2 DEF RowTold

(* All of it, where nothing opens or begins to close. *)
LEMMA MoveWinds ==
  ASSUME TypeOK, Winds, NEW r \in Things, NEW by \in Callers, NEW at \in Steps, Moves(r, by, at),
         UNCHANGED <<opened, closing, taken, serve, window>>, finished \subseteq finished',
         \A c \in Conns : riders'[c] \subseteq riders[c],
         up' \subseteq up, "Far" \in finished' => "Far" \in finished \/ "Far" \notin up',
         at = "cuts" => r = "Tunnel", at # "no",
         \/ closer[r][by] # "no"
         \/ by # "carrier" /\ r # "Tunnel" /\ (r = "Far" => opened["Far"] \in {"open", "refused"}),
         closer[r][by] \in {"runs", "cuts"} => at \in {"runs", "cuts"} \/ r \in finished'
  PROVE  Winds'
<1>1. AllRun'
  BY RunsStay DEF Winds
<1>2. Carries'
  <2>1. \A c \in Conns : riders'[c] \subseteq {x \in Riders : Carrier[x] = c}
    BY DEF Winds, Carries
  <2> QED BY <2>1, CarriesStay DEF Winds
<1>3. OpenFirst'
  <2>1. /\ r = "Far" => opened["Far"] \in {"open", "refused"}
        /\ r = "Tunnel" => opened["Tunnel"] = "open"
    BY DEF Winds, OpenFirst
  <2> QED BY <2>1, OpenStays DEF Winds
<1>4. RowTold'
  BY RowStays DEF Winds, window
<1> QED BY <1>1, <1>2, <1>3, <1>4 DEF Winds

(* And where no close goes on. *)
LEMMA QuietWinds ==
  ASSUME Winds, UNCHANGED <<opened, riders, closing, taken, finished, closer, serve, window>>, up' \subseteq up
  PROVE  Winds'
  BY DEF Winds, AllRun, Runs, Carries, OpenFirst, RowTold, window

LEMMA UserWinds ==
  ASSUME TypeOK, Winds, NEW c \in Conns, UserCloses(c) \/ TransportEnds(c)
  PROVE  Winds'
<1>1. CASE UserCloses(c)
  <2>1. /\ UNCHANGED <<up, opened, riders, closing, taken, finished, accepting, window>>
        /\ Moves(c, "user", "called") /\ closer[c]["user"] = "no"
        /\ c = "Far" => opened["Far"] = "open"
    BY <1>1 DEF UserCloses, Calls, Moves
  <2>2. "called" \in Steps /\ c \in Things
    BY DEF Steps
  <2> QED BY <2>1, <2>2, MoveWinds DEF accepting
<1>2. CASE TransportEnds(c)
  BY <1>2, QuietWinds DEF TransportEnds, accepting
<1> QED BY <1>1, <1>2

LEMMA BeginsWinds ==
  ASSUME TypeOK, Closers, Winds, NEW r \in Things, NEW by \in Callers, Begins(r, by)
  PROVE  Winds'
<1>0. "runs" \in Steps /\ "waits" \in Steps
  BY DEF Steps
<1>1. CASE r \in closing
  <2>1. /\ Moves(r, by, "waits") /\ closer[r][by] = "called"
        /\ UNCHANGED <<up, opened, riders, closing, taken, finished, accepting, window>>
    BY <1>1 DEF Begins, Moves
  <2> QED BY <1>0, <2>1, MoveWinds DEF accepting
<1>2. CASE r \notin closing /\ r = "Tunnel"
  <2>1. /\ Moves(r, by, "runs") /\ closer[r][by] = "called" /\ closing' = closing \cup {r}
        /\ UNCHANGED <<up, opened, riders, taken, finished, accepting, window>>
    BY <1>2 DEF Begins, Moves
  <2>2. /\ closer'[r][by] = "runs"
        /\ \A x \in Things, c \in Callers : <<x, c>> # <<r, by>> => closer'[x][c] = closer[x][c]
    BY <1>0, <2>1, CallerMoves
  <2>3. AllRun'
    <3>1. Runs("Tunnel")'
      BY <1>2, <2>1, <2>2 DEF Runs
    <3>2. ASSUME NEW x \in Conns PROVE Runs(x)'
      BY <1>2, <2>1, <2>2 DEF Winds, AllRun, Runs
    <3> QED BY <3>1, <3>2 DEF AllRun
  <2>4. Carries'
    BY <1>2, <2>1, <2>2 DEF Winds, Carries, Riders
  <2>5. OpenFirst'
    BY <1>2, <2>1, <2>2 DEF Winds, OpenFirst
  <2>6. RowTold'
    BY <1>2, <2>1, <2>2 DEF Winds, RowTold, accepting, window
  <2> QED BY <2>3, <2>4, <2>5, <2>6 DEF Winds
<1>3. CASE r \notin closing /\ r \in Conns
  <2>1. /\ closer' = [x \in Things |-> IF x = r THEN [closer[x] EXCEPT ![by] = "runs"]
                                ELSE IF x \in riders[r] THEN [closer[x] EXCEPT !["carrier"] = "called"]
                                ELSE closer[x]]
        /\ closer[r][by] = "called" /\ closing' = closing \cup {r}
        /\ taken' = [taken EXCEPT ![r] = riders[r]] /\ riders' = [riders EXCEPT ![r] = {}]
        /\ UNCHANGED <<up, opened, finished, accepting, window>>
    BY <1>3 DEF Begins
  <2>2. /\ closer \in [Things -> [Callers -> Steps]] /\ finished \subseteq closing
        /\ riders \in [Conns -> SUBSET {"Far", "Tunnel"}] /\ taken \in [Conns -> SUBSET {"Far", "Tunnel"}]
    BY DEF TypeOK, Steps
  <2>3. \A x \in Things, c \in Callers :
          closer'[x][c] = IF x = r /\ c = by THEN "runs"
                          ELSE IF x # r /\ x \in riders[r] /\ c = "carrier" THEN "called" ELSE closer[x][c]
    BY <2>1, <2>2
  <2>4. /\ taken'[r] = riders[r] /\ riders'[r] = {}
        /\ \A d \in Conns \ {r} : riders'[d] = riders[d] /\ taken'[d] = taken[d]
    BY <1>3, <2>1, <2>2
  <2>5. \A x \in riders[r] : x \in Riders /\ Carrier[x] = r /\ closer[x]["carrier"] = "no" /\ opened[x] = "open"
    BY <1>3, <2>2 DEF Winds, Carries, Riders, OpenFirst
  <2>6. AllRun'
    <3> SUFFICES ASSUME NEW x \in Things, x \in closing' \ finished'
                 PROVE  \E c \in Callers : closer'[x][c] \in {"runs", "cuts"}
      BY DEF AllRun, Runs
    <3>1. CASE x = r
      BY <2>3, <3>1
    <3>2. CASE x # r
      <4>1. PICK c \in Callers : closer[x][c] \in {"runs", "cuts"}
        BY <2>1, <3>2 DEF Winds, AllRun, Runs
      <4>2. closer'[x][c] = closer[x][c]
        BY <2>3, <2>5, <3>2, <4>1
      <4> QED BY <4>1, <4>2
    <3> QED BY <3>1, <3>2
  <2>7. Carries'
    <3>1. \A c \in Callers : closer'["Near"][c] # "cuts" /\ closer'["Far"][c] # "cuts"
      BY <2>3 DEF Winds, Carries
    <3>2. \A c \in Conns : riders'[c] \cup taken'[c] \subseteq {x \in Riders : Carrier[x] = c}
      BY <2>4 DEF Winds, Carries
    <3>3. ASSUME NEW x \in Riders
          PROVE  /\ x \in taken'[Carrier[x]] => closer'[x]["carrier"] # "no"
                 /\ closer'[x]["carrier"] # "no" => Carrier[x] \in closing'
      <4>1. x \in Things /\ "carrier" \in Callers /\ Carrier[x] \in Conns /\ Carrier[x] # x
        BY DEF Riders
      <4>2. closer'[x]["carrier"] = closer[x]["carrier"] \/ closer'[x]["carrier"] \in {"runs", "called"}
        BY <2>3, <4>1
      <4>3. x \in taken'[Carrier[x]] => closer'[x]["carrier"] # "no"
        BY <2>1, <2>3, <2>4, <4>1, <4>2 DEF Winds, Carries
      <4>4. closer'[x]["carrier"] # "no" => Carrier[x] \in closing'
        BY <2>1, <2>3, <2>5, <4>1 DEF Winds, Carries
      <4> QED BY <4>3, <4>4
    <3> QED BY <3>1, <3>2, <3>3 DEF Carries
  <2>8. OpenFirst'
    <3>1. opened["Far"] \notin {"open", "refused"} =>
            "Far" \notin closing' /\ \A c \in Callers : closer'["Far"][c] = "no"
      BY <1>3, <2>1, <2>3, <2>5 DEF Winds, OpenFirst
    <3>2. opened["Tunnel"] # "open" =>
            "Tunnel" \notin closing' /\ \A c \in Callers : closer'["Tunnel"][c] = "no"
      BY <1>3, <2>1, <2>3, <2>5 DEF Winds, OpenFirst
    <3> QED BY <2>1, <2>4, <3>1, <3>2 DEF Winds, OpenFirst
  <2>9. RowTold'
    <3>1. /\ closer'["Tunnel"]["own"] = closer["Tunnel"]["own"]
          /\ closer'["Tunnel"]["user"] = closer["Tunnel"]["user"]
          /\ closer["Tunnel"]["carrier"] # "no" => closer'["Tunnel"]["carrier"] # "no"
      BY <1>3, <2>3
    <3>2. "Tunnel" \in closing' => "Tunnel" \in closing
      BY <1>3, <2>1
    <3> QED BY <2>1, <3>1, <3>2 DEF Winds, RowTold, accepting, window
  <2> QED BY <2>6, <2>7, <2>8, <2>9 DEF Winds
<1> QED BY <1>1, <1>2, <1>3

LEMMA ClosingWinds ==
  ASSUME TypeOK, Closers, Winds, NEW r \in Things, NEW by \in Callers, Closing(r, by)
  PROVE  Winds'
<1>0. {"drops", "done", "cuts"} \subseteq Steps /\ AfterClosing(r, by) \in {"drops", "done"}
  BY DEF Steps, AfterClosing
<1>1. CASE Begins(r, by)
  BY <1>1, BeginsWinds
<1>2. CASE HangsUp(r, by)
  <2>1. /\ Moves(r, by, AfterClosing(r, by)) /\ closer[r][by] = "runs" /\ up' = up \ {r}
        /\ finished' = finished \cup {r}
        /\ UNCHANGED <<opened, riders, closing, taken, accepting, window>>
    BY <1>2 DEF HangsUp, Moves
  <2> QED BY <1>0, <2>1, MoveWinds DEF accepting
<1>3. CASE Waited(r, by)
  <2>1. /\ Moves(r, by, AfterClosing(r, by)) /\ closer[r][by] = "waits"
        /\ UNCHANGED <<up, opened, riders, closing, taken, finished, accepting, window>>
    BY <1>3 DEF Waited, Moves
  <2> QED BY <1>0, <2>1, MoveWinds DEF accepting
<1>4. CASE Drops(r, by)
  <2>1. /\ Moves(r, by, "done") /\ closer[r][by] = "drops" /\ r # "Near"
        /\ riders' = [riders EXCEPT ![Carrier[r]] = @ \ {r}]
        /\ UNCHANGED <<up, opened, closing, taken, finished, accepting, window>>
    BY <1>4 DEF Drops, Moves, Closers
  <2>2. \A c \in Conns : riders'[c] \subseteq riders[c]
    BY <2>1 DEF TypeOK
  <2> QED BY <1>0, <2>1, <2>2, MoveWinds DEF accepting
<1>5. CASE r = "Tunnel" /\ StopsListening(by)
  <2>1. /\ Moves(r, by, "cuts") /\ closer[r][by] = "runs"
        /\ UNCHANGED <<up, opened, riders, closing, taken, finished, serve, window>>
    BY <1>5 DEF StopsListening, Moves
  <2> QED BY <1>0, <1>5, <2>1, MoveWinds
<1>6. CASE r = "Tunnel" /\ Cuts(by)
  <2>1. /\ Moves(r, by, AfterClosing(r, by)) /\ closer[r][by] = "cuts"
        /\ finished' = finished \cup {r}
        /\ UNCHANGED <<up, opened, riders, closing, taken, accepting, window>>
    BY <1>6 DEF Cuts, Moves
  <2> QED BY <1>0, <1>6, <2>1, MoveWinds DEF accepting
<1> QED BY <1>1, <1>2, <1>3, <1>4, <1>5, <1>6 DEF Closing

LEMMA OpeningWinds ==
  ASSUME TypeOK, Closers, Winds, Opening
  PROVE  Winds'
<1>0. /\ opened \in [Riders -> {"no", "asked", "made", "open", "refused", "failed"}]
      /\ riders \in [Conns -> SUBSET Riders] /\ "called" \in Steps /\ finished \subseteq closing
  BY DEF TypeOK, Riders, Steps
<1>1. ASSUME Connects \/ Listens \/ \E r \in Riders : Opens(r)
      PROVE  Winds'
  <2>1. /\ UNCHANGED <<riders, closing, taken, finished, closer, serve, window>>
        /\ \E r \in Riders, at \in {"asked", "made", "failed"} :
             /\ opened' = [opened EXCEPT ![r] = at] /\ opened[r] \in {"no", "asked"}
             /\ r = "Tunnel" => \/ opened["Tunnel"] = "asked"
                                \/ opened["Far"] = "open" /\ goneEvent # "seen"
        /\ up' \subseteq up \/ (up' = up \cup {"Far"} /\ opened["Far"] = "asked")
    BY <1>1 DEF Connects, Listens, Opens, accepting, Riders
  <2>2. PICK r \in Riders, at \in {"asked", "made", "failed"} :
             /\ opened' = [opened EXCEPT ![r] = at] /\ opened[r] \in {"no", "asked"}
             /\ r = "Tunnel" => \/ opened["Tunnel"] = "asked"
                                \/ opened["Far"] = "open" /\ goneEvent # "seen"
    BY <2>1
  <2>3. opened'[r] = at /\ \A x \in Riders \ {r} : opened'[x] = opened[x]
    BY <1>0, <2>2
  <2>4. AllRun' /\ Carries'
    BY <2>1 DEF Winds, AllRun, Runs, Carries
  <2>5. OpenFirst'
    <3>1. \A c \in Conns : \A x \in riders[c] : opened'[x] = "open"
      BY <1>0, <2>2, <2>3 DEF Winds, OpenFirst
    <3>2. opened'["Tunnel"] # "no" => opened'["Far"] = "open"
      BY <1>0, <2>2, <2>3 DEF Winds, OpenFirst, Riders
    <3>3. opened'["Far"] \notin {"open", "refused"} =>
            "Far" \notin closing /\ \A c \in Callers : closer["Far"][c] = "no"
      BY <2>2, <2>3 DEF Winds, OpenFirst, Riders
    <3>4. "Far" \in finished => "Far" \notin up'
      BY <1>0, <2>1 DEF Winds, OpenFirst
    <3>5. opened'["Tunnel"] # "open" =>
            "Tunnel" \notin closing /\ \A c \in Callers : closer["Tunnel"][c] = "no"
      BY <1>0, <2>2, <2>3 DEF Winds, OpenFirst, Riders
    <3> QED BY <2>1, <3>1, <3>2, <3>3, <3>4, <3>5 DEF OpenFirst
  <2>6. RowTold'
    <3>1. opened'["Tunnel"] = "open" <=> opened["Tunnel"] = "open"
      BY <2>2, <2>3 DEF Riders
    <3>2. goneEvent = "seen" => opened'["Tunnel"] \notin {"asked", "made"}
      BY <2>2, <2>3 DEF Winds, RowTold, Riders
    <3> QED BY <2>1, <3>1, <3>2 DEF Winds, RowTold, window
  <2> QED BY <2>4, <2>5, <2>6 DEF Winds
<1>2. ASSUME NEW r \in Riders, Registers(r), Carrier[r] \in closing
      PROVE  Winds'
  <2>1. /\ UNCHANGED <<up, closing, taken, finished, riders, serve, window>>
        /\ opened[r] = "made" /\ opened' = [opened EXCEPT ![r] = "refused"]
        /\ IF r = "Far" THEN Moves(r, "own", "called") ELSE UNCHANGED closer
    BY <1>2 DEF Registers, Calls, Moves, window
  <2>2. opened'[r] = "refused" /\ \A x \in Riders \ {r} : opened'[x] = opened[x]
    BY <1>0, <2>1
  <2>3. \A x \in Things, c \in Callers :
          closer'[x][c] = closer[x][c] \/ (r = "Far" /\ x = "Far" /\ c = "own" /\ closer'[x][c] = "called")
    BY <1>0, <2>1, CallerMoves
  <2>4. r = "Far" => "Far" \notin closing
    BY <2>1 DEF Winds, OpenFirst
  <2>5. AllRun'
    BY <2>1, <2>3, <2>4 DEF Winds, AllRun, Runs
  <2>6. Carries'
    BY <2>1, <2>3 DEF Winds, Carries, Riders
  <2>7. OpenFirst'
    BY <1>0, <2>1, <2>2, <2>3 DEF Winds, OpenFirst, Riders
  <2>8. RowTold'
    BY <2>1, <2>2, <2>3 DEF Winds, RowTold, Riders, window
  <2> QED BY <2>5, <2>6, <2>7, <2>8 DEF Winds
<1>3. ASSUME NEW r \in Riders, Registers(r), Carrier[r] \notin closing
      PROVE  Winds'
  <2>1. /\ UNCHANGED <<up, closing, taken, finished, closer, stopEvent, goneEvent>>
        /\ opened[r] = "made" /\ opened' = [opened EXCEPT ![r] = "open"]
        /\ riders' = [riders EXCEPT ![Carrier[r]] = @ \cup {r}]
        /\ serve' = (IF r = "Tunnel" THEN "accepting" ELSE serve)
        /\ row' = (IF r = "Tunnel" THEN "live" ELSE row)
    BY <1>3 DEF Registers
  <2>2. opened'[r] = "open" /\ \A x \in Riders \ {r} : opened'[x] = opened[x]
    BY <1>0, <2>1
  <2>3. \A c \in Conns : riders'[c] = riders[c] \/ (c = Carrier[r] /\ riders'[c] = riders[c] \cup {r})
    BY <1>0, <2>1
  <2>4. AllRun' /\ Carries'
    BY <2>1, <2>3 DEF Winds, AllRun, Runs, Carries
  <2>5. OpenFirst'
    <3>1. \A c \in Conns : \A x \in riders'[c] : opened'[x] = "open"
      BY <1>0, <2>2, <2>3 DEF Winds, OpenFirst
    <3> QED BY <2>1, <2>2, <3>1 DEF Winds, OpenFirst, Riders
  <2>6. RowTold'
    <3>1. CASE r = "Tunnel"
      <4>1. /\ serve = "no" /\ row = "none" /\ closer["Tunnel"]["own"] = "no" /\ closer["Tunnel"]["user"] = "no"
            /\ goneEvent # "seen" /\ closer["Tunnel"]["carrier"] = "no"
        BY <2>1, <3>1, <1>3 DEF Winds, RowTold, Carries, Riders
      <4>2. "Tunnel" \notin closing
        BY <2>1, <3>1 DEF Winds, OpenFirst
      <4> QED BY <2>1, <2>2, <3>1, <4>1, <4>2 DEF RowTold
    <3>2. CASE r # "Tunnel"
      BY <2>1, <2>2, <3>2 DEF Winds, RowTold, Riders
    <3> QED BY <3>1, <3>2
  <2> QED BY <2>4, <2>5, <2>6 DEF Winds
<1> QED BY <1>1, <1>2, <1>3 DEF Opening, Riders

LEMMA ServeWinds ==
  ASSUME TypeOK, Closers, Winds, Serve \/ AcceptPasses \/ ListenerBreaks
  PROVE  Winds'
<1>0. "called" \in Steps /\ opened["Tunnel"] = "open" <=> serve \in {"accepting", "pausing", "closing", "over"}
  BY DEF Steps, Winds, RowTold
<1>1. CASE ListenerBreaks
  BY <1>1, QuietWinds DEF ListenerBreaks, conns
<1>2. CASE AcceptPasses \/ AcceptsAgain \/ Stopped \/ (AcceptFails /\ "Tunnel" \in closing)
  <2>1. /\ UNCHANGED <<up, opened, riders, closing, taken, finished, closer, row, goneEvent>>
        /\ \/ /\ serve = "accepting" /\ "Tunnel" \in closing /\ serve' = "over" /\ UNCHANGED stopEvent
           \/ /\ serve \in {"accepting", "pausing"} /\ serve' \in {"accepting", "pausing"}
              /\ UNCHANGED stopEvent
           \/ serve = "closing" /\ serve' = "over" /\ stopEvent'
    BY <1>2 DEF AcceptPasses, AcceptsAgain, Stopped, AcceptFails, conns, window
  <2>2. AllRun' /\ Carries' /\ OpenFirst'
    BY <2>1 DEF Winds, AllRun, Runs, Carries, OpenFirst
  <2>3. RowTold'
    BY <2>1 DEF Winds, RowTold
  <2> QED BY <2>2, <2>3 DEF Winds
<1>3. CASE AcceptFails /\ "Tunnel" \notin closing
  <2>1. /\ UNCHANGED <<up, opened, riders, closing, taken, finished, window>>
        /\ serve = "accepting" /\ serve' = "closing" /\ Moves("Tunnel", "own", "called")
    BY <1>3 DEF AcceptFails, Calls, Moves
  <2>2. /\ closer'["Tunnel"]["own"] = "called"
        /\ \A x \in Things, c \in Callers : <<x, c>> # <<"Tunnel", "own">> => closer'[x][c] = closer[x][c]
    BY <1>0, <2>1, CallerMoves
  <2>3. AllRun'
    <3>1. Runs("Tunnel")'
      BY <1>3, <2>1 DEF Runs
    <3>2. ASSUME NEW x \in Conns PROVE Runs(x)'
      BY <2>1, <2>2 DEF Winds, AllRun, Runs
    <3> QED BY <3>1, <3>2 DEF AllRun
  <2>4. Carries'
    BY <2>1, <2>2 DEF Winds, Carries, Riders
  <2>5. OpenFirst'
    <3>1. opened["Tunnel"] = "open"
      BY <2>1 DEF Winds, RowTold
    <3> QED BY <2>1, <2>2, <3>1 DEF Winds, OpenFirst
  <2>6. RowTold'
    BY <1>3, <2>1, <2>2 DEF Winds, RowTold, window
  <2> QED BY <2>3, <2>4, <2>5, <2>6 DEF Winds
<1> QED BY <1>1, <1>2, <1>3 DEF Serve

LEMMA RowWinds ==
  ASSUME TypeOK, Closers, Winds, Rows \/ RowCloses
  PROVE  Winds'
<1>0. "called" \in Steps
  BY DEF Steps
<1>1. CASE WaitReturns
  BY <1>1 DEF WaitReturns, conns, accepting, Winds, AllRun, Runs, Carries, OpenFirst, RowTold
<1>2. CASE RowStops \/ RowDies \/ RowCloses
  <2>1. /\ UNCHANGED <<up, opened, riders, closing, taken, finished, serve>> /\ WindowFree
        /\ \/ ClosesTunnel /\ row' \in {"stopped", "cleared"}
           \/ UNCHANGED closer /\ row' \in {row, "stopped", "cleared"}
        /\ row' = "live" => FALSE
        /\ row \in {"live", "stopped"} \/ UNCHANGED row
        /\ goneEvent' = goneEvent \/ goneEvent' = "seen"
    BY <1>2 DEF RowStops, RowDies, RowCloses, accepting
  <2>2. \A x \in Things, c \in Callers :
          \/ closer'[x][c] = closer[x][c]
          \/ /\ x = "Tunnel" /\ c = "user" /\ closer'[x][c] = "called" /\ closer[x][c] = "no"
             /\ row' \in {"stopped", "cleared"}
    <3>1. CASE UNCHANGED closer
      BY <3>1
    <3>2. CASE closer' # closer
      <4>1. Moves("Tunnel", "user", "called") /\ closer["Tunnel"]["user"] = "no" /\ row' \in {"stopped", "cleared"}
        BY <2>1, <3>2 DEF ClosesTunnel, Calls, Moves
      <4> QED BY <1>0, <4>1, CallerMoves
    <3> QED BY <3>1, <3>2
  <2>3. AllRun'
    BY <2>1, <2>2 DEF Winds, AllRun, Runs
  <2>4. Carries'
    BY <2>1, <2>2 DEF Winds, Carries, Riders
  <2>5. OpenFirst'
    <3>1. opened["Tunnel"] = "open" \/ UNCHANGED closer
      BY <2>1, <2>2 DEF Winds, RowTold
    <3> QED BY <2>1, <2>2, <3>1 DEF Winds, OpenFirst
  <2>6. RowTold'
    BY <2>1, <2>2 DEF Winds, RowTold, WindowFree
  <2> QED BY <2>3, <2>4, <2>5, <2>6 DEF Winds
<1> QED BY <1>1, <1>2 DEF Rows

LEMMA StreamWinds ==
  ASSUME Winds, (\E s \in Streams : Carry(s)) \/ Peer
  PROVE  Winds'
<1>1. UNCHANGED <<conns, accepting, window>>
  BY DEF Carry, HoldsNear, Counts, Asks, Dials, Answers, HoldsFar, Releases, Peer, Accepts, HalfEnds
<1> QED BY <1>1, QuietWinds DEF conns, accepting

LEMMA NextWinds == Kept /\ Winds /\ [Next]_vars => Winds'
<1> SUFFICES ASSUME Kept, Winds, [Next]_vars PROVE Winds'
  OBVIOUS
<1>0. TypeOK /\ Closers
  BY DEF Kept
<1>1. CASE UNCHANGED vars
  BY <1>1, QuietWinds DEF vars, conns, accepting
<1>2. CASE User
  BY <1>0, <1>2, UserWinds DEF User
<1>3. CASE Opening
  BY <1>0, <1>3, OpeningWinds
<1>4. ASSUME NEW r \in Things, NEW by \in Callers, Closing(r, by) PROVE Winds'
  BY <1>0, <1>4, ClosingWinds
<1>5. CASE Serve \/ AcceptPasses \/ ListenerBreaks
  BY <1>0, <1>5, ServeWinds
<1>6. CASE (\E s \in Streams : Carry(s)) \/ Peer
  BY <1>6, StreamWinds
<1>7. CASE Rows \/ RowCloses
  BY <1>0, <1>7, RowWinds
<1> QED BY <1>1, <1>2, <1>3, <1>4, <1>5, <1>6, <1>7 DEF Next

(* Where nothing can go on, all that anyone closes is closed.  From the tunnel
   up: what a connection's close waits for is what it carries. *)
LEMMA StuckIsClosed ==
  ASSUME TypeOK, Closers, Winds, ~CanGo, NEW r \in Things
  PROVE  r \notin closing \ finished /\ \A by \in Callers : closer[r][by] \in {"no", "done"}
<1>1. ASSUME NEW x \in Things, \A c \in Callers : closer[x][c] \notin {"runs", "cuts"}
      PROVE  x \notin closing \ finished /\ \A c \in Callers : closer[x][c] \in {"no", "done"}
  <2>1. x \notin closing \ finished
    BY <1>1 DEF Winds, AllRun, Runs
  <2>2. ASSUME NEW c \in Callers PROVE closer[x][c] \in {"no", "done"}
    <3>1. closer[x][c] \in Steps
      BY DEF TypeOK, Steps
    <3>2. closer[x][c] \notin {"called", "drops"} /\ (closer[x][c] = "waits" => x \notin finished)
      BY DEF CanGo
    <3>3. closer[x][c] = "waits" => x \in closing
      BY DEF Closers
    <3> QED BY <1>1, <2>1, <3>1, <3>2, <3>3 DEF Steps
  <2> QED BY <2>1, <2>2
<1>2. \A c \in Callers : closer["Tunnel"][c] \notin {"runs", "cuts"}
  BY DEF CanGo
<1>3. \A c \in Callers : closer["Tunnel"][c] \in {"no", "done"}
  BY <1>1, <1>2
<1>4. \A c \in Callers : closer["Far"][c] \notin {"runs", "cuts"}
  <2>1. \A x \in taken["Far"] : closer[x]["carrier"] = "done"
    BY <1>3 DEF Winds, Carries, Riders
  <2> QED BY <2>1 DEF CanGo, Winds, Carries
<1>5. \A c \in Callers : closer["Far"][c] \in {"no", "done"}
  BY <1>1, <1>4
<1>6. \A c \in Callers : closer["Near"][c] \notin {"runs", "cuts"}
  <2>1. \A x \in taken["Near"] : closer[x]["carrier"] = "done"
    BY <1>5 DEF Winds, Carries, Riders
  <2> QED BY <2>1 DEF CanGo, Winds, Carries
<1> QED BY <1>1, <1>2, <1>4, <1>6

(* However the closes of a tunnel, its connection and what that goes through
   meet, they do not wait for one another: where no goroutine has a step left,
   every close has returned, a closing tunnel's streams have ended, and the row
   of a tunnel that no longer listens does not say it does (remote/conn.go,
   closeRider; remote/tunnel.go, closeAll, carry and serve; app/tunnels.go). *)
THEOREM ClosesDoNotLock == Spec => []StuckIsOver
<1>1. ASSUME Kept, Winds, ~CanGo
      PROVE  AllIsClosed /\ RowIsRight
  <2>0. TypeOK /\ Closers /\ Holding
    BY <1>1 DEF Kept
  <2>1. \A r \in Things : r \notin closing \ finished /\ \A by \in Callers : closer[r][by] \in {"no", "done"}
    BY <1>1, <2>0, StuckIsClosed
  <2>2. ASSUME "Tunnel" \in closing, NEW s \in Streams PROVE stream[s] \in {"idle", "ended"}
    <3>1. cut = {} /\ StreamHeld(s)
      BY <2>0, <2>1, <2>2 DEF Holding
    <3>2. stream[s] \notin {"new", "held", "asking", "dialing", "answering", "dialled"}
      BY <1>1 DEF CanGo
    <3>3. stream[s] = "copying" => {Near(s), Far(s)} \subseteq sock
      BY <1>1 DEF CanGo
    <3>4. stream[s] # "copying"
      BY <2>2, <3>1, <3>3 DEF StreamHeld, InHand
    <3> QED BY <2>0, <3>2, <3>4 DEF TypeOK
  <2>3. ASSUME row = "live", ~listening PROVE FALSE
    <3>1. opened["Tunnel"] = "open" /\ serve \in {"accepting", "pausing", "closing", "over"} /\ opened["Far"] = "open"
      BY <1>1, <2>3 DEF Winds, RowTold, OpenFirst
    <3>2. serve = "over"
      BY <1>1, <2>1, <2>3, <3>1 DEF CanGo, Winds, RowTold
    <3>3. WindowFree
      BY <2>1, <3>1 DEF WindowFree
    <3>4. closer["Tunnel"]["carrier"] # "no" /\ goneEvent # "queued"
      BY <1>1, <2>3, <3>2, <3>3 DEF CanGo, Winds, RowTold
    <3>5. "Far" \in finished
      BY <1>1, <2>1, <3>4 DEF Winds, Carries, Riders
    <3>6. goneEvent # "no"
      BY <1>1, <3>1, <3>5 DEF CanGo, Winds, OpenFirst
    <3>7. goneEvent # "seen"
      BY <1>1, <2>3 DEF Winds, RowTold
    <3> QED BY <2>0, <3>4, <3>6, <3>7 DEF TypeOK
  <2> QED BY <2>1, <2>2, <2>3 DEF AllIsClosed, RowIsRight
<1>2. Kept /\ Winds => StuckIsOver
  BY <1>1 DEF StuckIsOver
<1> QED BY <1>2, InitWinds, NextWinds, KeptAlways, PTL DEF Spec
=============================================================================
