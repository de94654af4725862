----------------------------- MODULE JumpHosts -----------------------------
(* Connections made through jump hosts, and shared: machines/hops.go, the counts
   of who goes through what, and app/connect.go, which dials and hears of the end
   of each connection on the window's one goroutine.

   A saved server is reached through those its route names, each with an address
   and with or without the SSH agent, and may be saved otherwise while it is
   connected.  A connection is a number; closing one closes those inside it.   *)
EXTENDS Integers, Sequences, FiniteSets

CONSTANTS Servers,   \* the saved servers
          RouteID,   \* Book.RouteID: for each, the servers to go through, itself last
          MaxConns,  \* bound: the connections made
          MaxDeeds   \* bound: what the user and the network do

ASSUME RouteAssumption ==
  /\ IsFiniteSet(Servers)
  /\ \A s \in Servers : RouteID[s] \in Seq(Servers) /\ RouteID[s] # << >> /\ RouteID[s][Len(RouteID[s])] = s
  /\ {MaxConns, MaxDeeds} \subseteq Nat

VARIABLES
  saved,    \* how each server is saved: [at, agent]
  conns,    \* the connections made, in order: [to, hop, via], via 0 for none
  shut,     \* those closed, by anyone
  own,      \* Machine.Conn of each server, 0 for none
  letgo,    \* the servers with Machine.LetGo
  dropped,  \* the servers with Machine.Dropped
  dial,     \* the dial of each server, or NoDial
  users,    \* Registry.users
  hops,     \* Registry.hops, 0 for none
  routes,   \* Registry.routes, << >> for none
  closing,  \* the connections a goroutine of Release is to close
  deeds,    \* how many of MaxDeeds were done
  wanted    \* for each connection the user asked for, the route it was asked by

held == <<users, hops, routes, closing>>
hopVars == <<saved, conns, shut, own, letgo, dropped, dial, held, deeds, wanted>>

Ids == 1..MaxConns
NoDial == [at |-> "none"]
Up(c) == c # 0 /\ c \notin shut

HopsInit ==
  /\ saved = [s \in Servers |-> [at |-> 1, agent |-> FALSE]]
  /\ conns = << >> /\ shut = {} /\ own = [s \in Servers |-> 0]
  /\ letgo = {} /\ dropped = {} /\ dial = [s \in Servers |-> NoDial]
  /\ users = [c \in Ids |-> 0] /\ hops = [s \in Servers |-> 0]
  /\ routes = [c \in Ids |-> << >>] /\ closing = {}
  /\ deeds = 0 /\ wanted = [c \in Ids |-> << >>]
---------------------------------------------------------------------------
(* c and each connection under it. *)
Under[c \in 0..Len(conns)] == IF c = 0 THEN {} ELSE {c} \cup Under[conns[c].via]

Over(c) == {d \in 1..Len(conns) : c \in Under[d]}

(* RouteOf: each hop's login, in order, and the far end's agent. *)
Hop(s) == [to |-> s, at |-> saved[s].at, agent |-> saved[s].agent]
RouteOf(hs) == [n \in 1..Len(hs) |-> [hs[n] EXCEPT !.agent = (n = Len(hs)) /\ @]]
NoMark(r) == [n \in 1..Len(r) |-> [r[n] EXCEPT !.agent = FALSE]]

ByName(c, r) == Up(c)   \* faulty variant: whatever the route

(* HopConnected: the far end, kept only to go through, by just this route; or
   the nearest hop before it, its agent nothing to what is behind. *)
ByRoute(c, r) == Up(c) /\ routes[c] # << >> /\ NoMark(routes[c]) = NoMark(r)
Nearest(hs) ==
  LET last == Len(hs)
      ways(i) == {own[hs[i].to], hops[hs[i].to]}
      there == {i \in 1..(last - 1) : \E c \in ways(i) : ByRoute(c, SubSeq(hs, 1, i))}
      i == CHOOSE n \in there : \A m \in there : m <= n
  IN IF Up(hops[hs[last].to]) /\ routes[hops[hs[last].to]] = RouteOf(hs)
     THEN [start |-> hops[hs[last].to], from |-> last + 1]
     ELSE IF there = {} THEN [start |-> 0, from |-> 1]
     ELSE [start |-> IF ByRoute(own[hs[i].to], SubSeq(hs, 1, i)) THEN own[hs[i].to] ELSE hops[hs[i].to],
           from |-> i + 1]

Count(c, by) == users' = [d \in Ids |-> IF d \in Under[c] THEN users[d] + by ELSE users[d]]

HoldNone(c) == Count(c, 0)   \* faulty variant: a dial holds nothing

(* Hold. *)
Hold(c) == Count(c, 1)

(* Release: closes each nothing uses that the user did not connect to.  A
   connection is own by who has it now, in mine. *)
Released(c, users0, routes0, hops0, mine) ==
  LET under == Under[c]
      idle == {d \in under : users0[d] <= 1 /\ d \notin {mine[s] : s \in Servers}}
  IN /\ users' = [d \in Ids |-> IF d \notin under THEN users0[d]
                                ELSE IF users0[d] <= 1 THEN 0 ELSE users0[d] - 1]
     /\ routes' = [d \in Ids |-> IF d \in idle THEN << >> ELSE routes0[d]]
     /\ hops' = [s \in Servers |-> IF hops0[s] \in idle THEN 0 ELSE hops0[s]]
     /\ closing' = closing \cup idle
---------------------------------------------------------------------------
(* connectThen: from the nearest hop already connected, held meanwhile. *)
Connect(s) ==
  /\ own[s] = 0 /\ dial[s] = NoDial /\ deeds < MaxDeeds
  /\ deeds' = deeds + 1
  /\ LET hs == [n \in 1..Len(RouteID[s]) |-> Hop(RouteID[s][n])]
         near == Nearest(hs)
     IN /\ dial' = [dial EXCEPT ![s] = [at |-> IF near.from > Len(hs) THEN "done" ELSE "on", hops |-> hs,
                                        start |-> near.start, next |-> near.from,
                                        conn |-> near.start, made |-> << >>]]
        /\ Hold(near.start)
  /\ UNCHANGED <<saved, conns, shut, own, letgo, dropped, hops, routes, closing, wanted>>

(* DialFrom: the next hop, through the one before it while that is up; or it
   fails, or is given up. *)
DialStep(s) ==
  /\ dial[s].at = "on"
  /\ \/ LET d == dial[s]
            new == Len(conns) + 1
            last == d.next = Len(d.hops)
        IN /\ d.conn = 0 \/ Up(d.conn)
           /\ new <= MaxConns
           /\ conns' = Append(conns, [to |-> d.hops[d.next].to, hop |-> d.hops[d.next], via |-> d.conn])
           /\ dial' = [dial EXCEPT ![s] = [d EXCEPT !.conn = new, !.next = @ + 1,
                                            !.at = IF last THEN "done" ELSE "on",
                                            !.made = IF last THEN @ ELSE Append(@, new)]]
     \/ dial' = [dial EXCEPT ![s].at = "failed"] /\ UNCHANGED conns
  /\ UNCHANGED <<saved, shut, own, letgo, dropped, held, deeds, wanted>>

(* What the window does of a dial that failed: those made on the way close. *)
DialFailed(s) ==
  /\ dial[s].at = "failed"
  /\ shut' = shut \cup UNION {Over(dial[s].made[n]) : n \in DOMAIN dial[s].made}
  /\ Released(dial[s].start, users, routes, hops, own)
  /\ dial' = [dial EXCEPT ![s] = NoDial]
  /\ UNCHANGED <<saved, conns, own, letgo, dropped, deeds, wanted>>

(* KeepHops: the route of each, those made the last before the far end; one kept
   by the same route is left. *)
FirstMade(d) == Len(d.hops) - 1 - Len(d.made)
RoutesKept(d) ==
  [c \in Ids |-> IF c = d.conn THEN RouteOf(d.hops)
                 ELSE IF \E n \in DOMAIN d.made : d.made[n] = c
                 THEN RouteOf(SubSeq(d.hops, 1, FirstMade(d) + CHOOSE n \in DOMAIN d.made : d.made[n] = c))
                 ELSE routes[c]]
HopsKept(d) ==
  [s \in Servers |->
     IF \E n \in DOMAIN d.made : d.hops[FirstMade(d) + n].to = s
     THEN LET c == d.made[CHOOSE n \in DOMAIN d.made : d.hops[FirstMade(d) + n].to = s]
          IN IF Up(hops[s]) /\ RoutesKept(d)[hops[s]] = RoutesKept(d)[c] THEN hops[s] ELSE c
     ELSE hops[s]]

(* What the window does of a dial that is done. *)
DialDone(s) ==
  /\ dial[s].at = "done"
  /\ LET d == dial[s]
         under == Under[conns[d.conn].via]
     IN /\ own' = [own EXCEPT ![s] = d.conn]
        /\ wanted' = [wanted EXCEPT ![d.conn] = d.hops]
        /\ Released(d.start, [c \in Ids |-> IF c \in under THEN users[c] + 1 ELSE users[c]],
                    RoutesKept(d), HopsKept(d), own')
  /\ dropped' = dropped \ {s} /\ dial' = [dial EXCEPT ![s] = NoDial]
  /\ UNCHANGED <<saved, conns, shut, letgo, deeds>>

(* Disconnect, or removing the server: it and those through it are let go of. *)
Disconnect(s) ==
  /\ own[s] # 0 /\ deeds < MaxDeeds
  /\ deeds' = deeds + 1
  /\ letgo' = letgo \cup {t \in Servers : own[s] \in Under[own[t]]}
  /\ shut' = shut \cup Over(own[s])
  /\ UNCHANGED <<saved, conns, own, dropped, dial, held, wanted>>

WaitKeepsCount(s) ==   \* faulty variant: one let go of is not released
  /\ own[s] # 0 /\ ~Up(own[s])
  /\ IF s \in letgo THEN UNCHANGED held
     ELSE Released(conns[own[s]].via, users, [routes EXCEPT ![own[s]] = << >>], hops, own)
  /\ own' = [own EXCEPT ![s] = 0]
  /\ letgo' = letgo \ {s} /\ dropped' = IF s \in letgo THEN dropped ELSE dropped \cup {s}
  /\ UNCHANGED <<saved, conns, shut, dial, deeds, wanted>>

(* What the window does when a connection has ended. *)
WaitReturns(s) ==
  /\ own[s] # 0 /\ ~Up(own[s])
  /\ Released(conns[own[s]].via, users, [routes EXCEPT ![own[s]] = << >>], hops, own)
  /\ own' = [own EXCEPT ![s] = 0]
  /\ letgo' = letgo \ {s} /\ dropped' = IF s \in letgo THEN dropped ELSE dropped \cup {s}
  /\ UNCHANGED <<saved, conns, shut, dial, deeds, wanted>>

(* The goroutine of Release. *)
Closes(c) ==
  /\ c \in closing /\ closing' = closing \ {c} /\ shut' = shut \cup Over(c)
  /\ UNCHANGED <<saved, conns, own, letgo, dropped, dial, users, hops, routes, deeds, wanted>>

(* The network ends a connection, and those inside it. *)
Drops(c) ==
  /\ c \in 1..Len(conns) /\ Up(c) /\ deeds < MaxDeeds
  /\ deeds' = deeds + 1 /\ shut' = shut \cup Over(c)
  /\ UNCHANGED <<saved, conns, own, letgo, dropped, dial, held, wanted>>

(* A server is saved at another address, or with another setting for the agent. *)
Saves(s) ==
  /\ deeds < MaxDeeds /\ deeds' = deeds + 1
  /\ \/ saved' = [saved EXCEPT ![s].at = @ + 1]
     \/ saved' = [saved EXCEPT ![s].agent = ~@]
  /\ UNCHANGED <<conns, shut, own, letgo, dropped, dial, held, wanted>>

HopsNext ==
  \/ \E s \in Servers : \/ Connect(s) \/ DialStep(s) \/ DialFailed(s) \/ DialDone(s)
                        \/ Disconnect(s) \/ WaitReturns(s) \/ Saves(s)
  \/ \E c \in Ids : Closes(c) \/ Drops(c)

HopsSpec == HopsInit /\ [][HopsNext]_hopVars
---------------------------------------------------------------------------
(* What a dial on its way holds, and has made. *)
Dialled(d) == IF d = NoDial THEN {} ELSE Under[d.start] \cup Under[d.conn]

(* What some server the user is connected to, or a dial on its way, goes through. *)
InUse == UNION {Under[own[s]] \cup Dialled(dial[s]) : s \in Servers}

(* The servers connected through c, and those whose dial holds it. *)
Through(c) == {s \in Servers : c \in Under[own[s]] \ {own[s]}}
Holding(c) == {s \in Servers : dial[s] # NoDial /\ c \in Under[dial[s].start]}

(* hops.go: one made only to go through "closes once nothing goes through it any
   more", and not before, whatever is connected, dropped or dialled when. *)
ClosedOnceUnused ==
  \A c \in 1..Len(conns) : Up(c) => (c \in closing <=> c \notin InUse)

(* The counts are those of the servers connected through each, and of the dials
   that hold it: hops.go, Hold and Release. *)
CountsAreTrue ==
  \A c \in 1..Len(conns) : users[c] = Cardinality(Through(c)) + Cardinality(Holding(c))

(* A server is reached through the logins it was saved with when the user asked,
   each in its place, though hops were shared: never by one saved otherwise since,
   nor without the agent asked for, nor with one not asked for. *)
Way[c \in 0..Len(conns)] == IF c = 0 THEN << >> ELSE Append(Way[conns[c].via], conns[c].hop)
ReachedAsSaved ==
  \A s \in Servers : own[s] # 0 => RouteOf(Way[own[s]]) = RouteOf(wanted[own[s]])
===========================================================================
