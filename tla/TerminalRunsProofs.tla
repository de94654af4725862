------------------------- MODULE TerminalRunsProofs -------------------------
(* Four promises of TerminalRuns, for any number of runs, asks and places on its
   channels: what was queued for one program is not left over for the next, a
   status is shown for the program it is of, whoever waits for a secret has an ask
   or an answer, and the programs live as PaneLife says: this module is shown to
   implement that one. *)
EXTENDS TerminalRuns, SequenceTheorems, TLAPS

USE DEF Runs, Asks, Loops

LoopStages == {"none", "on", "asks", "ask", "tell", "gone", "stopped"}
Sessions == {"none", "open", "cut", "over"}
Collecting == {"none", "wait", "tell", "gone"}
Replacing == {"close", "wait", "drained", "revived"}
Ending == {"asks", "ask", "tell"}

(* The runs come one after another: no goroutine of a run that is to come, and
   none of one that was, or is about to be replaced, is still at its loop. *)
InTurn ==
  /\ \A l \in Loops :
       /\ l[1] > run => loop[l] = "none"
       /\ l[1] < run \/ (l[1] = run /\ app \in {"drained", "revived"}) => loop[l] \in {"gone", "stopped"}
  /\ \A r \in Runs : r > run => collect[r] = "none"
  /\ app \in Replacing => run < MaxRuns

(* What is queued in time was typed at one program, the next one once the queue
   was drained for it, and none is there between the two; the rest was late. *)
Drained == {"drained", "revived"}
Queued ==
  /\ peer <= TypedAt
  /\ \A i \in 1..Len(out) :
       IF out[i].late THEN Late(out[i].at) ELSE out[i].at = TypedAt /\ app # "drained"

(* A run about to be replaced is over, so that its status is dropped; a run whose
   goroutines say that it ended did, or is over. *)
Ended ==
  /\ StatusIsItsOwn
  /\ app \in Replacing => over[run]
  /\ app = "revived" => end = 0
  /\ collect[run] \in {"wait", "tell"} => exited \/ over[run]
  /\ \A l \in Loops : l[1] = run /\ loop[l] \in Ending => exited

(* The ask that stands is of somebody who waits, and one about to be put has no
   answer yet. *)
Asked ==
  /\ AskIsAnswered
  /\ secret # 0 => caller[secret] = "waiting"
  /\ \A a \in Asks : caller[a] = "checked" => answer[a] = "none"

Kept == TypeOK /\ InTurn /\ Queued /\ Ended /\ Asked

LEMMA InitKept == Init => Kept
<1> SUFFICES ASSUME Init PROVE Kept
  OBVIOUS
<1>0. /\ run = 1 /\ end = 0 /\ app = "idle" /\ out = <<>> /\ peer = 0 /\ 1 \in Runs
      /\ \A l \in Loops : loop[l] = IF l[1] = 1 THEN "on" ELSE "none"
      /\ \A r \in Runs : collect[r] = "none"
  <2>1. run = 1 /\ end = 0 /\ app = "idle" /\ out = <<>> /\ peer = 0
    BY Zenon DEF Init
  <2>2. 1 \in Runs
    BY BoundsAssumption
  <2>3. /\ loop = [l \in Loops |-> IF l[1] = 1 THEN "on" ELSE "none"]
        /\ collect = [r \in Runs |-> "none"]
    BY Zenon DEF Init
  <2> QED BY <2>1, <2>2, <2>3
<1>1. TypeOK
  <2>1. /\ run \in Runs /\ exited \in BOOLEAN /\ closed \in BOOLEAN /\ end \in 0..MaxRuns
        /\ notices \in 0..Room /\ others \in 0..Room /\ notices + others <= Room
        /\ asking \in {"no", "yes", "picked"} /\ picked \in {"none", "start", "close"}
        /\ unasked \in BOOLEAN /\ starts \in 0..1
        /\ app \in {"idle", "asks", "close", "wait", "drained", "revived"}
        /\ amiss \in {"asked", "said", "left"} /\ kind \in Kinds
        /\ secret \in 0..MaxAsks /\ typed \in BOOLEAN
    <3>1. /\ run = 1 /\ end = 0 /\ notices = 0 /\ others = 0 /\ secret = 0 /\ app = "idle" /\ starts = 0
          /\ exited = FALSE /\ closed = FALSE /\ asking = "no" /\ picked = "none" /\ unasked = FALSE
          /\ typed = FALSE /\ amiss = "left" /\ kind \in Kinds
      BY Zenon DEF Init
    <3>2. 1 \in Runs /\ 0 \in 0..MaxRuns /\ 0 \in 0..Room /\ 0 \in 0..MaxAsks /\ 0 + 0 <= Room
      BY BoundsAssumption
    <3>3. /\ exited \in BOOLEAN /\ closed \in BOOLEAN /\ unasked \in BOOLEAN /\ typed \in BOOLEAN
          /\ asking \in {"no", "yes", "picked"} /\ picked \in {"none", "start", "close"}
          /\ app \in {"idle", "asks", "close", "wait", "drained", "revived"}
          /\ amiss \in {"asked", "said", "left"} /\ kind \in Kinds
      BY Zenon, <3>1
    <3>4. /\ run \in Runs /\ end \in 0..MaxRuns /\ notices \in 0..Room /\ others \in 0..Room
          /\ notices + others <= Room /\ starts \in 0..1 /\ secret \in 0..MaxAsks
      BY <3>1, <3>2
    <3> QED BY Zenon, <3>3, <3>4
  <2>2. out \in Seq(Input) /\ Len(out) <= OutRoom /\ peer \in 0..(MaxRuns + 1)
    BY <1>0, BoundsAssumption, EmptySeq
  <2>3. /\ sess \in [Runs -> {"none", "open", "cut", "over"}]
        /\ halted \in [Runs -> BOOLEAN] /\ over \in [Runs -> BOOLEAN]
        /\ loop \in [Loops -> {"none", "on", "asks", "ask", "tell", "gone", "stopped"}]
        /\ collect \in [Runs -> {"none", "wait", "tell", "gone"}]
    BY DEF Init
  <2>4. /\ answer \in [Asks -> {"none", "given", "stopped"}]
        /\ caller \in [Asks -> {"none", "checked", "waiting"}]
    BY DEF Init
  <2> QED BY <2>1, <2>2, <2>3, <2>4 DEF TypeOK
<1>2. InTurn
  <2>1. \A l \in Loops : l[1] \in Runs
    OBVIOUS
  <2> QED BY <1>0, <2>1 DEF InTurn, Replacing
<1>3. Queued
  BY <1>0 DEF Queued, TypedAt
<1>4. Ended
  BY <1>0 DEF Ended, StatusIsItsOwn, Replacing, Ending
<1>5. Asked
  BY DEF Init, Asked, AskIsAnswered
<1> QED BY <1>1, <1>2, <1>3, <1>4, <1>5 DEF Kept

(* What is left alone stays as it is. *)
LEMMA RunsKept ==
  ASSUME Kept, UNCHANGED <<run, exited, end, over, goroutines, app>>
  PROVE  InTurn' /\ Ended'
  BY DEF Kept, InTurn, Ended, StatusIsItsOwn, goroutines

LEMMA QueueKept ==
  ASSUME Kept, UNCHANGED <<run, input>>, app' = app \/ (app \notin Drained /\ app' \notin Drained)
  PROVE  Queued'
<1>1. UNCHANGED <<run, out, peer>>
  BY DEF input
<1>2. CASE app' = app
  BY <1>1, <1>2 DEF Kept, Queued, TypedAt, Late
<1>3. CASE app \notin Drained /\ app' \notin Drained
  BY <1>1, <1>3 DEF Kept, Queued, TypedAt, Late, Drained
<1> QED BY <1>2, <1>3

LEMMA AskKept ==
  ASSUME Kept, UNCHANGED <<secret, answer, caller>>
  PROVE  Asked'
  BY DEF Kept, Asked, AskIsAnswered

(* The question goes up, or does not. *)
LEMMA AskType ==
  ASSUME TypeOK, NEW lost \in BOOLEAN, Ask(lost)
  PROVE  asking' \in {"no", "yes", "picked"} /\ unasked' \in BOOLEAN
<1>1. asking \in {"no", "yes", "picked"} /\ unasked \in BOOLEAN
  BY DEF TypeOK
<1> QED BY <1>1 DEF Ask

LEMMA FollowsType ==
  ASSUME TypeOK, NEW what, Follows(what)
  PROVE  asking' \in {"no", "yes", "picked"} /\ unasked' \in BOOLEAN
<1>1. asking \in {"no", "yes", "picked"} /\ unasked \in BOOLEAN
  BY DEF TypeOK
<1> QED BY <1>1, AskType DEF Follows

(* The session of a run ends, an event comes and is heard, or a choice is made. *)
LEMMA OutsideKept ==
  ASSUME Kept, \/ \E r \in Runs : Cut(r) \/ StatusIn(r)
               \/ PaneEnded \/ OtherPosts \/ OtherHeard \/ Picks("start") \/ Picks("close") \/ TakesDown
  PROVE  Kept'
<1>1. UNCHANGED <<ends, input, halted, over, goroutines, program, asks>> /\ TypeOK
  BY DEF Cut, StatusIn, PaneEnded, OtherPosts, OtherHeard, Picks, TakesDown, Kept, sessions
<1>2. sess' \in [Runs -> {"none", "open", "cut", "over"}]
  <2>1. sess \in [Runs -> {"none", "open", "cut", "over"}]
    BY <1>1 DEF TypeOK
  <2>2. sess' = sess \/ \E r \in Runs : sess' = [sess EXCEPT ![r] = "cut"] \/ sess' = [sess EXCEPT ![r] = "over"]
    BY DEF Cut, StatusIn, PaneEnded, OtherPosts, OtherHeard, Picks, TakesDown, sessions
  <2> QED BY <2>1, <2>2
<1>3. notices' \in 0..Room /\ others' \in 0..Room /\ notices' + others' <= Room
  <2>1. notices \in 0..Room /\ others \in 0..Room /\ notices + others <= Room
    BY <1>1 DEF TypeOK
  <2>2. \/ UNCHANGED <<notices, others>>
        \/ notices > 0 /\ notices' = notices - 1 /\ others' = others
        \/ notices + others < Room /\ others' = others + 1 /\ notices' = notices
        \/ others > 0 /\ others' = others - 1 /\ notices' = notices
    BY DEF Cut, StatusIn, PaneEnded, OtherPosts, OtherHeard, Picks, TakesDown, RoomLeft, events
  <2> QED BY <2>1, <2>2, BoundsAssumption
<1>4. /\ asking' \in {"no", "yes", "picked"} /\ unasked' \in BOOLEAN
      /\ picked' \in {"none", "start", "close"}
  <2>1. asking \in {"no", "yes", "picked"} /\ unasked \in BOOLEAN /\ picked \in {"none", "start", "close"}
    BY <1>1 DEF TypeOK
  <2>2. CASE PaneEnded
    BY <1>1, <2>1, <2>2, AskType DEF PaneEnded
  <2>3. CASE Picks("start") \/ Picks("close") \/ TakesDown
    BY <2>1, <2>3 DEF Picks, TakesDown
  <2>4. CASE OtherPosts \/ OtherHeard \/ \E r \in Runs : Cut(r) \/ StatusIn(r)
    BY <2>1, <2>4 DEF OtherPosts, OtherHeard, Cut, StatusIn, question
  <2> QED BY <2>2, <2>3, <2>4
<1>5. TypeOK'
  BY <1>1, <1>2, <1>3, <1>4 DEF TypeOK, ends, input, goroutines, program, asks
<1>6. InTurn' /\ Ended' /\ Queued' /\ Asked'
  BY <1>1, RunsKept, QueueKept, AskKept DEF ends, program, asks
<1> QED BY <1>5, <1>6 DEF Kept

(* What is typed goes behind what was: in time for the program it was typed at,
   or late. *)
LEMMA SendKept ==
  ASSUME Kept, NEW r \in 1..(MaxRuns + 1), r <= TypedAt, Send(r), UNCHANGED <<run, app>>, peer' <= TypedAt
  PROVE  Queued' /\ out' \in Seq(Input) /\ Len(out') <= OutRoom
<1>1. /\ out \in Seq(Input) /\ Len(out) \in Nat /\ Len(out) <= OutRoom /\ run \in Runs
      /\ \A i \in 1..Len(out) :
           IF out[i].late THEN Late(out[i].at) ELSE out[i].at = TypedAt /\ app # "drained"
  <2>1. out \in Seq(Input) /\ Len(out) <= OutRoom /\ run \in Runs
    BY Zenon DEF Kept, TypeOK
  <2>2. \A i \in 1..Len(out) :
          IF out[i].late THEN Late(out[i].at) ELSE out[i].at = TypedAt /\ app # "drained"
    BY Zenon DEF Kept, Queued
  <2> QED BY <2>1, <2>2
<1>2. TypedAt' = TypedAt /\ \A q : Late(q)' <=> Late(q)
  BY DEF TypedAt, Late
<1>3. CASE out' = out
  BY <1>1, <1>2, <1>3 DEF Queued
<1>4. CASE Len(out) < OutRoom /\ out' = Append(out, [at |-> r, late |-> Late(r)])
  <2> DEFINE new == [at |-> r, late |-> Late(r)]
  <2>1. new.at = r /\ (new.late <=> Late(r))
    OBVIOUS
  <2>2. new \in Input
    <3>1. Late(r) \in BOOLEAN
      BY Zenon DEF Late
    <3> QED BY <3>1 DEF Input
  <2>3. Late(r) \/ (r = TypedAt /\ app # "drained")
    BY <1>1, BoundsAssumption DEF Late, TypedAt
  <2>4. out' = Append(out, new)
    BY <1>4
  <2> HIDE DEF new
  <2>5. /\ out' \in Seq(Input) /\ Len(out') = Len(out) + 1 /\ out'[Len(out) + 1] = new
        /\ \A i \in 1..Len(out) : out'[i] = out[i]
    BY <1>1, <2>2, <2>4
  <2>6. Len(out') <= OutRoom
    BY <1>1, <1>4, <2>5, BoundsAssumption
  <2>7. \A i \in 1..Len(out') : i \in 1..Len(out) \/ i = Len(out) + 1
    BY <1>1, <2>5
  <2>8. ASSUME NEW i \in 1..Len(out')
        PROVE  IF out'[i].late THEN Late(out'[i].at) ELSE out'[i].at = TypedAt /\ app # "drained"
    BY <1>1, <2>1, <2>3, <2>5, <2>7
  <2>9. Queued'
    BY <1>2, <2>8 DEF Queued
  <2> QED BY <2>5, <2>6, <2>9
<1> QED BY <1>3, <1>4 DEF Send

(* One who waits on the ask that stands is answered by a line typed at the pane. *)
LEMMA AnswersKept ==
  ASSUME Kept, secret # 0, Answers
  PROVE  /\ Asked' /\ secret' = 0 /\ typed' = FALSE /\ UNCHANGED caller
         /\ answer' \in [Asks -> {"none", "given", "stopped"}]
<1>1. /\ secret \in Asks /\ answer \in [Asks -> {"none", "given", "stopped"}]
  BY BoundsAssumption DEF Kept, TypeOK
<1>2. /\ secret' = 0 /\ typed' = FALSE /\ UNCHANGED caller /\ answer' = [answer EXCEPT ![secret] = "given"]
  BY DEF Answers, NoneStands
<1>3. /\ answer' \in [Asks -> {"none", "given", "stopped"}] /\ answer'[secret] = "given"
      /\ \A a \in Asks \ {secret} : answer'[a] = answer[a]
  BY <1>1, <1>2
<1>4. Asked'
  BY <1>1, <1>2, <1>3 DEF Kept, Asked, AskIsAnswered
<1> QED BY <1>2, <1>3, <1>4

LEMMA TypedAtType ==
  ASSUME TypeOK
  PROVE  TypedAt \in 1..(MaxRuns + 1) /\ run \in 1..(MaxRuns + 1) /\ run <= TypedAt
<1>1. run \in Runs
  BY DEF TypeOK
<1> QED BY <1>1, BoundsAssumption DEF TypedAt

LEMMA TypingKept ==
  ASSUME Kept, PeerLooks \/ PeerSends \/ AgentTypes \/ Types \/ TypesReturn \/ PastesLine
  PROVE  Kept'
<1>1. UNCHANGED <<ends, sessions, goroutines, events, question, program, caller>> /\ TypeOK
  BY DEF PeerLooks, PeerSends, AgentTypes, Types, TypesReturn, PastesLine, Answers, asks, Kept
<1>2. /\ Asked' /\ typed' \in BOOLEAN /\ secret' \in 0..MaxAsks
      /\ answer' \in [Asks -> {"none", "given", "stopped"}]
  <2>1. /\ typed \in BOOLEAN /\ secret \in 0..MaxAsks /\ 0 \in 0..MaxAsks
        /\ answer \in [Asks -> {"none", "given", "stopped"}]
    BY <1>1, BoundsAssumption DEF TypeOK
  <2>2. (secret # 0 /\ Answers) \/ (UNCHANGED <<secret, answer, caller>> /\ typed' \in BOOLEAN)
    BY <2>1 DEF PeerLooks, PeerSends, AgentTypes, Types, TypesReturn, PastesLine, asks
  <2> QED BY <2>1, <2>2, AnswersKept, AskKept
<1>3. UNCHANGED <<run, app>> /\ TypedAt' = TypedAt
  BY <1>1 DEF ends, program, TypedAt
<1>4. /\ TypedAt \in 1..(MaxRuns + 1) /\ run \in 1..(MaxRuns + 1) /\ run <= TypedAt /\ 0 <= TypedAt
      /\ peer \in 0..(MaxRuns + 1) /\ peer <= TypedAt /\ out \in Seq(Input) /\ Len(out) <= OutRoom
  BY <1>1, TypedAtType DEF TypeOK, Kept, Queued
<1>5. Queued' /\ out' \in Seq(Input) /\ Len(out') <= OutRoom /\ peer' \in 0..(MaxRuns + 1)
  <2>1. CASE PeerLooks
    <3>1. out' = out /\ peer' = TypedAt
      BY <2>1 DEF PeerLooks
    <3>2. Queued'
      BY <1>3, <1>4, <3>1 DEF Kept, Queued, Late
    <3> QED BY <1>4, <3>1, <3>2, BoundsAssumption
  <2>2. CASE PeerSends
    <3>1. peer # 0 /\ peer' = 0 /\ Send(peer)
      BY <2>2 DEF PeerSends
    <3>2. peer \in 1..(MaxRuns + 1)
      BY <1>4, <3>1, BoundsAssumption
    <3>3. peer <= TypedAt /\ peer' <= TypedAt
      BY <1>4, <3>1
    <3>4. Queued' /\ out' \in Seq(Input) /\ Len(out') <= OutRoom
      BY <1>3, <3>1, <3>2, <3>3, SendKept
    <3>5. peer' \in 0..(MaxRuns + 1)
      BY <3>1, BoundsAssumption
    <3> QED BY <3>4, <3>5
  <2>3. CASE AgentTypes
    BY <1>3, <1>4, <2>3, SendKept DEF AgentTypes
  <2>4. CASE Types \/ TypesReturn \/ PastesLine
    <3>1. Send(TypedAt) /\ peer' = peer
      BY <2>4 DEF Types, TypesReturn, PastesLine
    <3> QED BY <1>3, <1>4, <3>1, SendKept
  <2> QED BY <2>1, <2>2, <2>3, <2>4
<1>6. InTurn' /\ Ended'
  BY <1>1, RunsKept DEF sessions, ends, program
<1>7. TypeOK'
  BY <1>1, <1>2, <1>5 DEF TypeOK, ends, sessions, goroutines, events, question, program
<1> QED BY <1>2, <1>5, <1>6, <1>7 DEF Kept

(* A write is taken off the queue; the rest is as it was. *)
LEMMA TakenKept ==
  ASSUME Kept, out # <<>>, out' = Tail(out), UNCHANGED <<run, app, peer>>
  PROVE  Queued' /\ out' \in Seq(Input) /\ Len(out') <= OutRoom
<1>1. /\ out \in Seq(Input) /\ Len(out) <= OutRoom
      /\ \A i \in 1..Len(out) :
           IF out[i].late THEN Late(out[i].at) ELSE out[i].at = TypedAt /\ app # "drained"
  BY DEF Kept, TypeOK, Queued
<1>2. /\ out' \in Seq(Input) /\ Len(out') = Len(out) - 1 /\ Len(out) \in Nat \ {0}
      /\ \A i \in 1..Len(out) - 1 : out'[i] = out[i + 1]
  BY <1>1
<1>3. Len(out') <= OutRoom
  BY <1>1, <1>2, BoundsAssumption
<1>4. \A i \in 1..Len(out') : i \in 1..Len(out) - 1 /\ i + 1 \in 1..Len(out)
  BY <1>2
<1>5. TypedAt' = TypedAt /\ \A q : Late(q)' <=> Late(q)
  BY DEF TypedAt, Late
<1>6. ASSUME NEW i \in 1..Len(out')
      PROVE  IF out'[i].late THEN Late(out'[i].at) ELSE out'[i].at = TypedAt /\ app # "drained"
  BY <1>1, <1>2, <1>4
<1>7. Queued'
  BY <1>5, <1>6 DEF Kept, Queued
<1> QED BY <1>2, <1>3, <1>7

(* A loop comes to its next stage: its run says that it ended only once the pane
   knows, and a loop that returned does not go on. *)
LEMMA LoopMoves ==
  ASSUME Kept, NEW l \in Loops, NEW at \in LoopStages \ {"none", "on"}, loop' = [loop EXCEPT ![l] = at],
         loop[l] \in {"on", "asks", "ask", "tell"}, UNCHANGED <<run, end, over, app>>,
         exited' = exited \/ exited' = TRUE, at \in Ending => exited',
         \/ UNCHANGED collect
         \/ collect' = [collect EXCEPT ![l[1]] = "wait"] /\ exited
  PROVE  /\ InTurn' /\ Ended'
         /\ loop' \in [Loops -> LoopStages] /\ collect' \in [Runs -> Collecting]
<1>1. /\ loop \in [Loops -> LoopStages] /\ collect \in [Runs -> Collecting] /\ run \in Runs /\ l[1] \in Runs
      /\ exited \in BOOLEAN
  BY DEF Kept, TypeOK, LoopStages, Collecting
<1>2. /\ loop' \in [Loops -> LoopStages] /\ loop'[l] = at
      /\ \A m \in Loops \ {l} : loop'[m] = loop[m]
  BY <1>1
<1>3. l[1] = run /\ app \notin {"drained", "revived"}
  BY <1>1 DEF Kept, InTurn
<1>4. /\ collect' \in [Runs -> Collecting] /\ \A r \in Runs \ {run} : collect'[r] = collect[r]
      /\ collect'[run] = collect[run] \/ exited
  BY <1>1, <1>3 DEF Collecting
<1>5. InTurn'
  BY <1>1, <1>2, <1>3, <1>4 DEF Kept, InTurn
<1>6. Ended'
  BY <1>1, <1>2, <1>3, <1>4 DEF Kept, Ended, StatusIsItsOwn
<1> QED BY <1>2, <1>4, <1>5, <1>6

(* Whichever ask stands is ended. *)
LEMMA EndKept ==
  ASSUME Kept, EndSecret(0, "given", answer), UNCHANGED caller
  PROVE  /\ Asked' /\ secret' \in 0..MaxAsks /\ typed' \in BOOLEAN
         /\ answer' \in [Asks -> {"none", "given", "stopped"}]
<1>1. /\ answer \in [Asks -> {"none", "given", "stopped"}] /\ secret \in 0..MaxAsks
      /\ 0 \in 0..MaxAsks /\ typed \in BOOLEAN
  BY BoundsAssumption DEF Kept, TypeOK
<1>2. CASE secret = 0
  <2>1. UNCHANGED <<secret, answer, caller, typed>>
    BY <1>2 DEF EndSecret
  <2> QED BY <1>1, <2>1, AskKept
<1>3. CASE secret # 0
  <2>1. secret \in Asks
    BY <1>1, <1>3, BoundsAssumption
  <2>2. answer' = [answer EXCEPT ![secret] = "given"] /\ secret' = 0 /\ typed' = FALSE
    BY <1>3 DEF EndSecret, NoneStands
  <2>3. /\ answer' \in [Asks -> {"none", "given", "stopped"}] /\ answer'[secret] = "given"
        /\ \A a \in Asks \ {secret} : answer'[a] = answer[a]
    BY <1>1, <2>1, <2>2
  <2>4. Asked'
    BY <1>1, <2>1, <2>2, <2>3 DEF Kept, Asked, AskIsAnswered
  <2> QED BY <1>1, <2>2, <2>3, <2>4
<1> QED BY <1>2, <1>3

(* A loop writes, is stopped or ends with its session. *)
LEMMA WritesKept ==
  ASSUME Kept, NEW r \in Runs, Writes(r)
  PROVE  Kept'
<1>1. /\ UNCHANGED <<ends, peer, sessions, goroutines, events, question, program, asks>> /\ TypeOK
      /\ out # <<>> /\ out' = Tail(out)
  BY DEF Writes, Kept
<1>2. InTurn' /\ Ended' /\ Asked'
  BY <1>1, RunsKept, AskKept DEF ends, sessions, program, asks
<1>3. Queued' /\ out' \in Seq(Input) /\ Len(out') <= OutRoom
  BY <1>1, TakenKept DEF ends, program
<1>4. TypeOK'
  BY <1>1, <1>3 DEF TypeOK, ends, sessions, goroutines, events, question, program, asks
<1> QED BY <1>2, <1>3, <1>4 DEF Kept

LEMMA StopsKept ==
  ASSUME Kept, NEW r \in Runs, Stops(r)
  PROVE  Kept'
<1> DEFINE l == <<r, "write">>
<1>1. /\ UNCHANGED <<ends, input, sessions, collect, events, question, program, asks>> /\ TypeOK
      /\ loop[l] = "on" /\ loop' = [loop EXCEPT ![l] = "stopped"] /\ l \in Loops
  BY DEF Stops, Kept
<1> HIDE DEF l
<1>2. /\ InTurn' /\ Ended'
      /\ loop' \in [Loops -> LoopStages] /\ collect' \in [Runs -> Collecting]
  <2>1. UNCHANGED <<run, exited, end, over, app, collect>>
    BY <1>1 DEF ends, sessions, program
  <2>2. "stopped" \in LoopStages \ {"none", "on"} /\ "stopped" \notin Ending
    BY DEF LoopStages, Ending
  <2> QED BY <1>1, <2>1, <2>2, LoopMoves
<1>3. Queued' /\ Asked'
  BY <1>1, QueueKept, AskKept DEF ends, program, asks
<1>4. TypeOK'
  BY <1>1, <1>2 DEF TypeOK, ends, input, sessions, events, question, program, asks, LoopStages, Collecting
<1> QED BY <1>2, <1>3, <1>4 DEF Kept

LEMMA FinishKept ==
  ASSUME Kept, NEW l \in Loops, loop[l] = "on", Finish(l),
         Queued', out' \in Seq(Input), Len(out') <= OutRoom
  PROVE  Kept'
<1>1. /\ UNCHANGED <<run, closed, end, peer, sessions, collect, events, question, program, asks>> /\ TypeOK
      /\ exited' = TRUE /\ loop' = [loop EXCEPT ![l] = IF exited THEN "gone" ELSE "asks"]
  BY DEF Finish, Kept
<1>2. /\ InTurn' /\ Ended'
      /\ loop' \in [Loops -> LoopStages] /\ collect' \in [Runs -> Collecting]
  <2> DEFINE at == IF exited THEN "gone" ELSE "asks"
  <2>1. UNCHANGED <<run, end, over, app, collect>>
    BY <1>1 DEF sessions, program
  <2>2. at \in LoopStages \ {"none", "on"}
    BY DEF LoopStages
  <2>3. loop' = [loop EXCEPT ![l] = at]
    BY <1>1
  <2> HIDE DEF at
  <2> QED BY <1>1, <2>1, <2>2, <2>3, LoopMoves
<1>3. Asked'
  BY <1>1, AskKept DEF asks
<1>4. TypeOK'
  BY <1>1, <1>2 DEF TypeOK, sessions, events, question, program, asks, LoopStages, Collecting
<1> QED BY <1>2, <1>3, <1>4 DEF Kept

LEMMA LoopEndsKept ==
  ASSUME Kept, NEW r \in Runs, ReadEnds(r) \/ WriteFails(r)
  PROVE  Kept'
<1>1. out \in Seq(Input) /\ Len(out) <= OutRoom
  BY DEF Kept, TypeOK
<1>2. CASE ReadEnds(r)
  <2>1. <<r, "read">> \in Loops /\ loop[<<r, "read">>] = "on" /\ Finish(<<r, "read">>) /\ out' = out
    BY <1>2 DEF ReadEnds
  <2>2. Queued'
    BY <2>1, QueueKept DEF Finish, input, program
  <2> QED BY <1>1, <2>1, <2>2, FinishKept
<1>3. CASE WriteFails(r)
  <2>1. /\ <<r, "write">> \in Loops /\ loop[<<r, "write">>] = "on" /\ Finish(<<r, "write">>)
        /\ out # <<>> /\ out' = Tail(out)
    BY <1>3 DEF WriteFails
  <2>2. Queued' /\ out' \in Seq(Input) /\ Len(out') <= OutRoom
    BY <2>1, TakenKept DEF Finish, program
  <2> QED BY <2>1, <2>2, FinishKept
<1> QED BY <1>2, <1>3

(* A loop that ended looks for an ask, ends it, and tells the program. *)
LEMMA LoopStepKept ==
  ASSUME Kept, NEW l \in Loops, LoopStep(l)
  PROVE  Kept'
<1>1. /\ UNCHANGED <<ends, input, sessions, question, program>> /\ TypeOK /\ loop[l] \in Ending
      /\ l[1] \in Runs
  BY DEF LoopStep, LooksForAsk, EndsAsk, Tells, Kept, Ending
<1>2. exited
  <2>1. l[1] = run
    <3>1. loop[l] # "none" /\ loop[l] \notin {"gone", "stopped"}
      BY <1>1 DEF Ending
    <3>2. run \in Runs
      BY <1>1 DEF TypeOK
    <3> QED BY <1>1, <3>1, <3>2 DEF Kept, InTurn
  <2> QED BY <1>1, <2>1 DEF Kept, Ended
<1>3. PICK at \in {"ask", "tell", "gone"} : loop' = [loop EXCEPT ![l] = at]
  BY DEF LoopStep, LooksForAsk, EndsAsk, Tells
<1>4. UNCHANGED collect \/ collect' = [collect EXCEPT ![l[1]] = "wait"]
  BY DEF LoopStep, LooksForAsk, EndsAsk, Tells
<1>5. /\ InTurn' /\ Ended'
      /\ loop' \in [Loops -> LoopStages] /\ collect' \in [Runs -> Collecting]
  <2>1. UNCHANGED <<run, exited, end, over, app>>
    BY <1>1 DEF ends, sessions, program
  <2>2. at \in LoopStages \ {"none", "on"} /\ loop[l] \in {"on", "asks", "ask", "tell"}
    BY <1>1 DEF LoopStages, Ending
  <2> QED BY <1>2, <1>3, <1>4, <2>1, <2>2, LoopMoves
<1>6. /\ Asked' /\ secret' \in 0..MaxAsks /\ typed' \in BOOLEAN
      /\ answer' \in [Asks -> {"none", "given", "stopped"}] /\ UNCHANGED caller
  <2>1. CASE EndsAsk(l)
    BY <2>1, EndKept DEF EndsAsk
  <2>2. CASE LooksForAsk(l) \/ Tells(l)
    <3>1. UNCHANGED asks
      BY <2>2 DEF LooksForAsk, Tells
    <3> QED BY <1>1, <3>1, AskKept DEF asks, TypeOK
  <2> QED BY <2>1, <2>2 DEF LoopStep
<1>7. notices' \in 0..Room /\ others' \in 0..Room /\ notices' + others' <= Room
  <2>1. notices \in 0..Room /\ others \in 0..Room /\ notices + others <= Room
    BY <1>1 DEF TypeOK
  <2>2. UNCHANGED events \/ TellHost
    BY DEF LoopStep, LooksForAsk, EndsAsk, Tells
  <2> QED BY <2>1, <2>2, BoundsAssumption DEF events, TellHost, RoomLeft
<1>8. Queued'
  BY <1>1, QueueKept DEF ends, program
<1>9. TypeOK'
  BY <1>1, <1>5, <1>6, <1>7 DEF TypeOK, ends, input, sessions, question, program, LoopStages, Collecting
<1> QED BY <1>5, <1>6, <1>8, <1>9 DEF Kept

(* The status of a run that is over comes in, and is kept or dropped. *)
LEMMA StatusKept ==
  ASSUME Kept, NEW r \in Runs, Collects(r) \/ TellsStatus(r)
  PROVE  Kept'
<1>1. /\ UNCHANGED <<run, exited, closed, input, sessions, loop, question, program, asks>> /\ TypeOK
      /\ run \in Runs /\ end \in 0..MaxRuns /\ exited \in BOOLEAN
  BY DEF Collects, TellsStatus, Kept, TypeOK, ends
<1>2. Queued' /\ Asked'
  BY <1>1, QueueKept, AskKept DEF program, asks
<1>3. PICK now \in {"gone", "tell"} :
        /\ collect' = [collect EXCEPT ![r] = now]
        /\ now = "gone" => end' = end
        /\ now = "tell" => end' = end \/ (end' = r /\ ~over[r] /\ r = run)
        /\ collect[r] \in {"wait", "tell"}
        /\ now = "tell" => ~over[r] /\ r = run
  BY <1>1 DEF Collects, TellsStatus, ends
<1>4. /\ collect' \in [Runs -> Collecting] /\ collect'[r] = now
      /\ \A s \in Runs \ {r} : collect'[s] = collect[s]
  BY <1>1, <1>3 DEF TypeOK, Collecting
<1>5. over' = over /\ loop' = loop /\ run' = run /\ exited' = exited /\ app' = app
  BY <1>1 DEF sessions, program
<1>6. InTurn'
  BY <1>3, <1>4, <1>5 DEF Kept, InTurn
<1>7. Ended'
  <2>1. end' = end \/ (end' = run /\ exited /\ ~over[run])
    BY <1>3 DEF Kept, Ended
  <2>2. StatusIsItsOwn'
    BY <1>5, <2>1 DEF Kept, Ended, StatusIsItsOwn
  <2>3. app = "revived" => end' = 0
    BY <2>1 DEF Kept, Ended, Replacing
  <2>4. collect'[run] \in {"wait", "tell"} => exited \/ over[run]
    BY <1>1, <1>3, <1>4 DEF Kept, Ended
  <2> QED BY <1>5, <2>2, <2>3, <2>4 DEF Kept, Ended
<1>8. notices' \in 0..Room /\ others' \in 0..Room /\ notices' + others' <= Room
  <2>1. notices \in 0..Room /\ others \in 0..Room /\ notices + others <= Room
    BY <1>1 DEF TypeOK
  <2>2. UNCHANGED events \/ TellHost
    BY DEF Collects, TellsStatus
  <2> QED BY <2>1, <2>2, BoundsAssumption DEF events, TellHost, RoomLeft
<1>9. end' \in 0..MaxRuns
  BY <1>1, <1>3
<1>10. TypeOK'
  BY <1>1, <1>4, <1>8, <1>9 DEF TypeOK, input, sessions, question, program, asks, Collecting
<1> QED BY <1>2, <1>6, <1>7, <1>10 DEF Kept

(* The pane is closed, or a restart closes its session, or is refused. *)
LEMMA HangUpType ==
  ASSUME TypeOK
  PROVE  HangUp(run) \in [Runs -> Sessions]
<1>1. sess \in [Runs -> Sessions] /\ run \in Runs
  BY DEF TypeOK, Sessions
<1>2. (IF sess[run] = "open" THEN "cut" ELSE sess[run]) \in Sessions
  BY <1>1 DEF Sessions
<1> QED BY <1>1, <1>2 DEF HangUp

LEMMA CloseKept ==
  ASSUME Kept, Close \/ HearsClose
  PROVE  Kept'
<1>1. /\ UNCHANGED <<run, exited, end, input, over, goroutines, events, asking, unasked, program, asks>>
      /\ picked' = picked \/ picked' = "none"
      /\ \/ UNCHANGED <<closed, sess, halted>>
         \/ closed' = TRUE /\ sess' = HangUp(run) /\ halted' = [halted EXCEPT ![run] = TRUE]
  BY DEF Close, HearsClose, Closes, ends, sessions
<1>2. InTurn' /\ Ended' /\ Queued' /\ Asked'
  BY <1>1, RunsKept, QueueKept, AskKept DEF program, asks
<1>3. TypeOK /\ HangUp(run) \in [Runs -> Sessions] /\ [halted EXCEPT ![run] = TRUE] \in [Runs -> BOOLEAN]
  BY HangUpType DEF Kept, TypeOK
<1>4. /\ sess' \in [Runs -> Sessions] /\ halted' \in [Runs -> BOOLEAN] /\ closed' \in BOOLEAN
      /\ picked' \in {"none", "start", "close"}
  BY <1>1, <1>3 DEF TypeOK, Sessions
<1>5. TypeOK'
  BY <1>1, <1>3, <1>4 DEF TypeOK, input, goroutines, events, program, asks, Sessions
<1> QED BY <1>2, <1>5 DEF Kept

(* A restart begins: the run is over, and halted. *)
LEMMA RestartsKept ==
  ASSUME Kept, NEW what \in {"asked", "said", "left"}, Restarts(what), app = "idle",
         UNCHANGED <<ends, input, sess, goroutines, asks>>
  PROVE  /\ InTurn' /\ Ended' /\ Queued' /\ Asked'
         /\ halted' \in [Runs -> BOOLEAN] /\ over' \in [Runs -> BOOLEAN]
         /\ app' \in {"idle", "asks", "close", "wait", "drained", "revived"}
         /\ amiss' \in {"asked", "said", "left"}
<1>1. /\ app' = "close" /\ amiss' = what /\ run < MaxRuns /\ TypeOK
      /\ halted' = [halted EXCEPT ![run] = TRUE] /\ over' = [over EXCEPT ![run] = TRUE]
  BY DEF Restarts, Kept
<1>2. Queued' /\ Asked'
  BY <1>1, QueueKept, AskKept DEF ends, asks, Drained
<1>3. /\ halted' \in [Runs -> BOOLEAN] /\ over' \in [Runs -> BOOLEAN] /\ over'[run]
  BY <1>1 DEF TypeOK
<1>4. InTurn'
  BY <1>1 DEF Kept, InTurn, ends, goroutines
<1>5. Ended'
  BY <1>1, <1>3 DEF Kept, Ended, StatusIsItsOwn, ends, goroutines
<1> QED BY <1>1, <1>2, <1>3, <1>4, <1>5

(* A choice, an agent or another window starts the pane again, or a start comes
   back: the pane is restarted, or stays as it is with its question up or not. *)
LEMMA StartKept ==
  ASSUME Kept, app = "idle", UNCHANGED <<ends, input, goroutines, events, kind, asks>>,
         asking' \in {"no", "yes", "picked"}, unasked' \in BOOLEAN,
         picked' \in {"none", "start", "close"}, starts' \in 0..1,
         \/ UNCHANGED <<sessions, app, amiss>>
         \/ (\E what \in {"asked", "said", "left"} : Restarts(what)) /\ UNCHANGED sess
  PROVE  Kept'
<1>1. TypeOK
  BY DEF Kept
<1>2. /\ InTurn' /\ Ended' /\ Queued' /\ Asked'
      /\ halted' \in [Runs -> BOOLEAN] /\ over' \in [Runs -> BOOLEAN]
      /\ app' \in {"idle", "asks", "close", "wait", "drained", "revived"}
      /\ amiss' \in {"asked", "said", "left"} /\ sess' = sess
  <2>1. CASE UNCHANGED <<sessions, app, amiss>>
    <3>1. /\ halted' \in [Runs -> BOOLEAN] /\ over' \in [Runs -> BOOLEAN] /\ sess' = sess
          /\ app' = app /\ app' \in {"idle", "asks", "close", "wait", "drained", "revived"}
          /\ amiss' \in {"asked", "said", "left"}
      BY <1>1, <2>1 DEF TypeOK, sessions
    <3>2. InTurn' /\ Ended' /\ Queued' /\ Asked'
      BY <2>1, RunsKept, QueueKept, AskKept DEF ends, sessions, asks
    <3> QED BY <3>1, <3>2
  <2>2. CASE (\E what \in {"asked", "said", "left"} : Restarts(what)) /\ UNCHANGED sess
    BY <2>2, RestartsKept
  <2> QED BY <2>1, <2>2
<1>3. TypeOK'
  BY <1>1, <1>2 DEF TypeOK, ends, input, goroutines, events, asks
<1> QED BY <1>2, <1>3 DEF Kept

LEMMA UnrestartedType ==
  ASSUME NEW by
  PROVE  Unrestarted(by) \in {"asked", "said", "left"}
  BY DEF Unrestarted

LEMMA StartAgainKept ==
  ASSUME Kept, NEW by \in {"user", "agent", "window"}, StartAgain(by)
  PROVE  Kept'
<1>1. /\ app = "idle" /\ UNCHANGED <<ends, input, goroutines, events, kind, asks>> /\ TypeOK
      /\ picked' = "none" \/ picked' = picked
  BY DEF StartAgain, Kept
<1>2. /\ asking \in {"no", "yes", "picked"} /\ unasked \in BOOLEAN
      /\ picked' \in {"none", "start", "close"} /\ starts \in 0..1
  BY <1>1 DEF TypeOK
<1>3. CASE UNCHANGED <<asking, unasked, sessions, starts, app, amiss>>
  BY <1>1, <1>2, <1>3, StartKept
<1>4. CASE StartFails(by)
  <2>1. UNCHANGED <<sessions, app, amiss, starts>>
    BY <1>4 DEF StartFails, NoRestart
  <2>2. asking' \in {"no", "yes", "picked"} /\ unasked' \in BOOLEAN
    BY <1>1, <1>4, FollowsType DEF StartFails
  <2> QED BY <1>1, <1>2, <2>1, <2>2, StartKept
<1>5. CASE StartBegins(by)
  <2>1. asking' \in {"no", "yes", "picked"} /\ unasked' \in BOOLEAN
    BY <1>2, <1>5 DEF StartBegins
  <2>2. CASE kind = "shell"
    <3>1. Restarts(Unrestarted(by)) /\ UNCHANGED <<sess, starts>>
      BY <1>5, <2>2 DEF StartBegins
    <3>2. \E what \in {"asked", "said", "left"} : Restarts(what)
      BY <3>1, UnrestartedType
    <3> QED BY <1>1, <1>2, <2>1, <3>1, <3>2, StartKept
  <2>3. CASE kind # "shell"
    <3>1. starts' = 1 /\ UNCHANGED <<sessions, app, amiss>>
      BY <1>5, <2>3 DEF StartBegins, NoRestart
    <3> QED BY <1>1, <1>2, <2>1, <3>1, StartKept
  <2> QED BY <2>2, <2>3
<1> QED BY <1>3, <1>4, <1>5 DEF StartAgain

LEMMA StartReturnsKept ==
  ASSUME Kept, StartReturns
  PROVE  Kept'
<1>1. /\ app = "idle" /\ UNCHANGED <<ends, input, goroutines, events, picked, kind, asks>> /\ TypeOK
      /\ starts' = 0
  BY DEF StartReturns, Kept
<1>2. /\ asking \in {"no", "yes", "picked"} /\ unasked \in BOOLEAN
      /\ picked' \in {"none", "start", "close"} /\ starts' \in 0..1
  BY <1>1 DEF TypeOK
<1>3. CASE Restarts(Unrestarted("user")) /\ UNCHANGED <<sess, asking, unasked>>
  <2>1. \E what \in {"asked", "said", "left"} : Restarts(what)
    BY <1>3, UnrestartedType
  <2> QED BY <1>1, <1>2, <1>3, <2>1, StartKept
<1>4. CASE Follows("asked") /\ NoRestart
  <2>1. asking' \in {"no", "yes", "picked"} /\ unasked' \in BOOLEAN
    BY <1>1, <1>4, FollowsType
  <2> QED BY <1>1, <1>2, <1>4, <2>1, StartKept DEF NoRestart
<1> QED BY <1>3, <1>4 DEF StartReturns

LEMMA RestartClosesKept ==
  ASSUME Kept, RestartCloses
  PROVE  Kept'
<1>1. /\ UNCHANGED <<ends, input, halted, over, goroutines, events, question, starts, amiss, kind, asks>>
      /\ TypeOK /\ app = "close" /\ app' = "wait" /\ sess' = HangUp(run)
  BY DEF RestartCloses, Kept
<1>2. Queued' /\ Asked'
  BY <1>1, QueueKept, AskKept DEF ends, asks, Drained
<1>3. sess' \in [Runs -> Sessions]
  BY <1>1, HangUpType
<1>4. InTurn'
  BY <1>1 DEF Kept, InTurn, ends, goroutines, Replacing
<1>5. Ended'
  BY <1>1 DEF Kept, Ended, StatusIsItsOwn, ends, goroutines, Replacing
<1>6. TypeOK'
  BY <1>1, <1>3 DEF TypeOK, ends, input, goroutines, events, question, asks, Sessions
<1> QED BY <1>2, <1>4, <1>5, <1>6 DEF Kept

(* Both loops of the run returned: nothing of it is at its loop, and what is
   queued from here on is for the next. *)
LEMMA RestartWaitedKept ==
  ASSUME Kept, RestartWaited
  PROVE  Kept'
<1>1. /\ UNCHANGED <<ends, peer, sessions, goroutines, events, question, starts, amiss, kind, asks>> /\ TypeOK
      /\ app = "wait" /\ app' = "drained" /\ out' = <<>>
      /\ \A l \in Loops : l[1] = run => loop[l] \in {"gone", "stopped"}
  BY DEF RestartWaited, Returned, Kept
<1>2. Asked'
  BY <1>1, AskKept DEF asks
<1>3. Queued' /\ out' \in Seq(Input) /\ Len(out') <= OutRoom
  BY <1>1, EmptySeq, BoundsAssumption DEF Kept, Queued, TypedAt, ends
<1>4. InTurn'
  BY <1>1 DEF Kept, InTurn, ends, goroutines, Replacing
<1>5. Ended'
  BY <1>1 DEF Kept, Ended, StatusIsItsOwn, ends, sessions, goroutines, Replacing
<1>6. TypeOK'
  BY <1>1, <1>3 DEF TypeOK, ends, sessions, goroutines, events, question, asks
<1> QED BY <1>2, <1>3, <1>4, <1>5, <1>6 DEF Kept

LEMMA RestartRefusedKept ==
  ASSUME Kept, RestartRefused
  PROVE  Kept'
<1>1. /\ UNCHANGED <<ends, input, sessions, goroutines, events, picked, starts, kind, asks>> /\ TypeOK
      /\ app = "wait" /\ app' = "idle" /\ amiss' = "left" /\ Follows(amiss)
  BY DEF RestartRefused, Kept
<1>2. Queued' /\ Asked'
  BY <1>1, QueueKept, AskKept DEF ends, asks, Drained
<1>3. InTurn'
  BY <1>1 DEF Kept, InTurn, ends, goroutines, Replacing
<1>4. Ended'
  BY <1>1 DEF Kept, Ended, StatusIsItsOwn, ends, sessions, goroutines, Replacing
<1>5. asking' \in {"no", "yes", "picked"} /\ unasked' \in BOOLEAN
  BY <1>1, FollowsType
<1>6. TypeOK'
  BY <1>1, <1>5 DEF TypeOK, ends, input, sessions, goroutines, events, asks
<1> QED BY <1>2, <1>3, <1>4, <1>6 DEF Kept

(* The pane has a program again: the one before is over, so that its status is
   dropped, and its loops returned. *)
LEMMA RevivesKept ==
  ASSUME Kept, Revives
  PROVE  Kept'
<1>1. /\ UNCHANGED <<run, closed, input, sessions, goroutines, events, picked, starts, kind, asks>> /\ TypeOK
      /\ app = "drained" /\ app' = "revived" /\ exited' = FALSE /\ end' = 0
      /\ asking' = "no" /\ unasked' = FALSE /\ amiss' = "left"
  BY DEF Revives, Kept
<1>2. Queued' /\ Asked'
  <2>1. run \in Runs /\ peer <= run /\ peer \in 0..(MaxRuns + 1)
    BY <1>1 DEF Kept, Queued, TypedAt, TypeOK
  <2>2. peer' <= TypedAt'
    BY <1>1, <2>1, BoundsAssumption DEF TypedAt, input
  <2>3. \A i \in 1..Len(out) : out[i].late /\ Late(out[i].at)
    BY <1>1 DEF Kept, Queued
  <2>4. \A q : Late(q) => Late(q)'
    BY <1>1 DEF Late
  <2>5. Queued'
    BY <1>1, <2>2, <2>3, <2>4 DEF Queued, input
  <2> QED BY <1>1, <2>5, AskKept DEF asks
<1>3. InTurn'
  BY <1>1 DEF Kept, InTurn, goroutines, Replacing
<1>4. Ended'
  <2>1. over[run] /\ \A l \in Loops : l[1] = run => loop[l] \in {"gone", "stopped"}
    BY <1>1 DEF Kept, Ended, InTurn, Replacing
  <2> QED BY <1>1, <2>1 DEF Ended, StatusIsItsOwn, sessions, goroutines, Ending
<1>5. TypeOK'
  <2>1. 0 \in 0..MaxRuns
    BY BoundsAssumption
  <2> QED BY <1>1, <2>1 DEF TypeOK, input, sessions, goroutines, events, asks
<1> QED BY <1>2, <1>3, <1>4, <1>5 DEF Kept

LEMMA AdoptsKept ==
  ASSUME Kept, Adopts
  PROVE  Kept'
<1>1. /\ UNCHANGED <<exited, closed, end, input, halted, over, collect, events, question, starts, amiss, kind,
                    asks>> /\ TypeOK
      /\ app = "revived" /\ app' = "idle" /\ run' = run + 1
      /\ sess' = [sess EXCEPT ![run + 1] = "open"]
      /\ loop' = [l \in Loops |-> IF l[1] = run + 1 THEN "on" ELSE loop[l]]
  BY DEF Adopts, Kept
<1>2. run \in Runs /\ run + 1 \in Runs
  <2>1. run \in 1..MaxRuns
    BY <1>1 DEF TypeOK
  <2>2. run < MaxRuns
    BY <1>1 DEF Kept, InTurn, Replacing
  <2> QED BY <2>1, <2>2, BoundsAssumption
<1>3. Queued' /\ Asked'
  <2>1. TypedAt' = TypedAt
    BY <1>1 DEF TypedAt
  <2>2. ASSUME NEW i \in 1..Len(out) PROVE Late(out[i].at) => Late(out[i].at)'
    <3>1. out[i].at \in 1..(MaxRuns + 1)
      <4>1. out \in Seq(Input)
        BY Zenon, <1>1 DEF TypeOK
      <4>2. out[i] \in Input
        BY <4>1
      <4> QED BY <4>2 DEF Input
    <3>2. ASSUME Late(out[i].at) PROVE out[i].at < run + 1
      BY <1>2, <3>1, <3>2, BoundsAssumption DEF Late
    <3>3. out' = out
      BY <1>1 DEF input
    <3>4. Late(out[i].at)' <=> out[i].at < run + 1
      BY <1>1, <3>3 DEF Late
    <3> QED BY <3>2, <3>4
  <2>3. Queued'
    BY <1>1, <2>1, <2>2 DEF Kept, Queued, input
  <2> QED BY <1>1, <2>3, AskKept DEF asks
<1>4. /\ \A l \in Loops : loop'[l] = IF l[1] = run + 1 THEN "on" ELSE loop[l]
      /\ \A l \in Loops : l[1] \in Runs
  BY <1>1
<1>5. sess' \in [Runs -> Sessions] /\ loop' \in [Loops -> LoopStages]
  <2>1. sess \in [Runs -> Sessions] /\ loop \in [Loops -> LoopStages]
    BY <1>1 DEF TypeOK, Sessions, LoopStages
  <2>2. "open" \in Sessions /\ "on" \in LoopStages
    BY DEF Sessions, LoopStages
  <2> QED BY <1>1, <2>1, <2>2
<1>6. InTurn'
  <2>1. ASSUME NEW l \in Loops
        PROVE  /\ l[1] > run' => loop'[l] = "none"
               /\ l[1] < run' => loop'[l] \in {"gone", "stopped"}
    <3>1. l[1] \in Runs /\ loop'[l] = IF l[1] = run + 1 THEN "on" ELSE loop[l]
      BY <1>4
    <3>2. CASE l[1] > run + 1
      BY <1>1, <1>2, <3>1, <3>2 DEF Kept, InTurn
    <3>3. CASE l[1] < run + 1
      BY <1>1, <1>2, <3>1, <3>3 DEF Kept, InTurn
    <3> QED BY <1>1, <1>2, <3>1, <3>2, <3>3
  <2>2. \A r \in Runs : r > run' => collect'[r] = "none"
    BY <1>1, <1>2 DEF Kept, InTurn
  <2> QED BY <1>1, <2>1, <2>2 DEF InTurn, Replacing
<1>7. Ended'
  <2>1. end = 0 /\ collect[run + 1] = "none"
    BY <1>1, <1>2 DEF Kept, Ended, InTurn
  <2>2. \A l \in Loops : l[1] = run' => loop'[l] = "on"
    BY <1>1, <1>4
  <2> QED BY <1>1, <2>1, <2>2 DEF Ended, StatusIsItsOwn, Replacing, Ending
<1>8. TypeOK'
  BY <1>1, <1>2, <1>5 DEF TypeOK, input, events, question, asks, Sessions, LoopStages
<1> QED BY <1>3, <1>6, <1>7, <1>8 DEF Kept

(* An agent's ask begins, stands or is refused, and ends. *)
LEMMA AgentAsksKept ==
  ASSUME Kept, NEW a \in Asks, AgentAsks(a)
  PROVE  Kept'
<1>1. /\ UNCHANGED <<ends, input, sessions, goroutines, events, question, starts, amiss, kind, secret, typed>>
      /\ TypeOK
      /\ app = "idle" /\ app' = "asks" /\ caller[a] = "none"
      /\ caller' = [caller EXCEPT ![a] = "checked"] /\ answer' = [answer EXCEPT ![a] = "none"]
  BY DEF AgentAsks, Kept
<1>2. Queued'
  BY <1>1, QueueKept DEF ends, Drained
<1>3. InTurn'
  BY <1>1 DEF Kept, InTurn, ends, goroutines, Replacing
<1>4. Ended'
  BY <1>1 DEF Kept, Ended, StatusIsItsOwn, ends, sessions, goroutines, Replacing
<1>5. /\ caller' \in [Asks -> {"none", "checked", "waiting"}] /\ caller'[a] = "checked"
      /\ answer' \in [Asks -> {"none", "given", "stopped"}] /\ answer'[a] = "none"
      /\ \A b \in Asks \ {a} : caller'[b] = caller[b] /\ answer'[b] = answer[b]
  BY <1>1 DEF TypeOK
<1>6. Asked'
  <2>1. secret # 0 => secret \in Asks /\ secret # a
    BY <1>1, BoundsAssumption DEF Kept, Asked, TypeOK
  <2> QED BY <1>1, <1>5, <2>1 DEF Kept, Asked, AskIsAnswered
<1>7. TypeOK'
  BY <1>1, <1>5 DEF TypeOK, ends, input, sessions, goroutines, events, question, program
<1> QED BY <1>2, <1>3, <1>4, <1>6, <1>7 DEF Kept

LEMMA WaitForSecretKept ==
  ASSUME Kept, NEW a \in Asks, WaitForSecret(a)
  PROVE  Kept'
<1>1. /\ UNCHANGED <<ends, input, sessions, goroutines, events, question, starts, amiss, kind, answer>> /\ TypeOK
      /\ app = "asks" /\ app' = "idle" /\ caller[a] = "checked"
  BY DEF WaitForSecret, Kept
<1>2. Queued'
  BY <1>1, QueueKept DEF ends, Drained
<1>3. InTurn'
  BY <1>1 DEF Kept, InTurn, ends, goroutines, Replacing
<1>4. Ended'
  BY <1>1 DEF Kept, Ended, StatusIsItsOwn, ends, sessions, goroutines, Replacing
<1>5. PICK now \in {"none", "waiting"} :
        /\ caller' = [caller EXCEPT ![a] = now]
        /\ now = "none" => secret # 0 /\ UNCHANGED <<secret, typed>>
        /\ now = "waiting" => secret = 0 /\ secret' = a /\ typed' = FALSE
  BY DEF WaitForSecret
<1>6. /\ caller' \in [Asks -> {"none", "checked", "waiting"}] /\ caller'[a] = now
      /\ \A b \in Asks \ {a} : caller'[b] = caller[b]
  BY <1>1, <1>5 DEF TypeOK
<1>7. secret' \in 0..MaxAsks /\ typed' \in BOOLEAN
  <2>1. secret \in 0..MaxAsks /\ typed \in BOOLEAN /\ a \in 0..MaxAsks
    BY <1>1, BoundsAssumption DEF TypeOK
  <2> QED BY <1>5, <2>1
<1>8. Asked'
  <2>1. CASE now = "none"
    <3>1. secret # 0 => secret \in Asks /\ secret # a
      BY <1>1, BoundsAssumption DEF Kept, Asked, TypeOK
    <3> QED BY <1>1, <1>5, <1>6, <2>1, <3>1 DEF Kept, Asked, AskIsAnswered
  <2>2. CASE now = "waiting"
    <3>1. a # 0 /\ answer[a] = "none" /\ secret = 0
      BY <1>1, <1>5, <2>2, BoundsAssumption DEF Kept, Asked
    <3> QED BY <1>1, <1>5, <1>6, <2>2, <3>1 DEF Kept, Asked, AskIsAnswered
  <2> QED BY <2>1, <2>2
<1>9. TypeOK'
  BY <1>1, <1>6, <1>7 DEF TypeOK, ends, input, sessions, goroutines, events, question, program
<1> QED BY <1>2, <1>3, <1>4, <1>8, <1>9 DEF Kept

LEMMA StopsAskKept ==
  ASSUME Kept, NEW a \in Asks, StopsAsk(a)
  PROVE  Kept'
<1> DEFINE unread == [answer EXCEPT ![a] = "none"]
<1>1. /\ UNCHANGED <<ends, input, sessions, goroutines, events, question, program>> /\ TypeOK
      /\ caller' = [caller EXCEPT ![a] = "none"] /\ EndSecret(a, "stopped", unread)
  BY DEF StopsAsk, Kept
<1>2. InTurn' /\ Ended' /\ Queued'
  BY <1>1, RunsKept, QueueKept DEF ends, sessions, program
<1>3. /\ caller' \in [Asks -> {"none", "checked", "waiting"}] /\ caller'[a] = "none"
      /\ \A b \in Asks \ {a} : caller'[b] = caller[b]
      /\ unread \in [Asks -> {"none", "given", "stopped"}]
      /\ \A b \in Asks \ {a} : unread[b] = answer[b]
      /\ secret \in 0..MaxAsks /\ 0 \in 0..MaxAsks /\ typed \in BOOLEAN /\ a # 0
  BY <1>1, BoundsAssumption DEF TypeOK
<1> HIDE DEF unread
<1>4. /\ answer' \in [Asks -> {"none", "given", "stopped"}]
      /\ \A b \in Asks \ {a} : answer'[b] = answer[b]
      /\ secret' = (IF secret = a THEN 0 ELSE secret) /\ typed' \in BOOLEAN
  <2>1. CASE secret = a
    <3>1. answer' = [unread EXCEPT ![a] = "stopped"] /\ secret' = 0 /\ typed' = FALSE
      BY <1>1, <1>3, <2>1 DEF EndSecret, NoneStands
    <3> QED BY <1>3, <2>1, <3>1
  <2>2. CASE secret # a
    <3>1. answer' = unread /\ UNCHANGED <<secret, typed>>
      BY <1>1, <1>3, <2>2 DEF EndSecret
    <3> QED BY <1>3, <2>2, <3>1
  <2> QED BY <2>1, <2>2
<1>5. Asked'
  <2>1. secret' # 0 => secret' = secret /\ secret \in Asks \ {a}
    BY <1>3, <1>4, BoundsAssumption
  <2> QED BY <1>3, <1>4, <2>1 DEF Kept, Asked, AskIsAnswered
<1>6. TypeOK'
  BY <1>1, <1>3, <1>4 DEF TypeOK, ends, input, sessions, goroutines, events, question, program
<1> QED BY <1>2, <1>5, <1>6 DEF Kept

LEMMA TakesBackKept ==
  ASSUME Kept, TakesBack
  PROVE  Kept'
<1>1. /\ UNCHANGED <<ends, input, sessions, goroutines, events, question, program, caller>> /\ TypeOK
      /\ EndSecret(0, "given", answer)
  BY DEF TakesBack, Kept
<1>2. InTurn' /\ Ended' /\ Queued'
  BY <1>1, RunsKept, QueueKept DEF ends, sessions, program
<1>3. /\ Asked' /\ secret' \in 0..MaxAsks /\ typed' \in BOOLEAN
      /\ answer' \in [Asks -> {"none", "given", "stopped"}]
  BY <1>1, EndKept
<1>4. TypeOK'
  BY <1>1, <1>3 DEF TypeOK, ends, input, sessions, goroutines, events, question, program
<1> QED BY <1>2, <1>3, <1>4 DEF Kept

LEMMA StutterKept ==
  ASSUME Kept, UNCHANGED vars
  PROVE  Kept'
<1>1. UNCHANGED <<ends, input, sessions, goroutines, events, question, program, asks>> /\ TypeOK
  BY DEF vars, Kept
<1>2. InTurn' /\ Ended' /\ Queued' /\ Asked'
  BY <1>1, RunsKept, QueueKept, AskKept DEF ends, sessions, program, asks
<1>3. TypeOK'
  BY <1>1 DEF TypeOK, ends, input, sessions, goroutines, events, question, program, asks
<1> QED BY <1>2, <1>3 DEF Kept

LEMMA StepKept == Kept /\ [Next]_vars => Kept'
<1> SUFFICES ASSUME Kept, [Next]_vars PROVE Kept'
  OBVIOUS
<1>1. CASE \E r \in Runs : Cut(r) \/ StatusIn(r)
  BY <1>1, OutsideKept
<1>2. CASE \E r \in Runs : Writes(r) \/ Stops(r) \/ ReadEnds(r) \/ WriteFails(r)
  BY <1>2, WritesKept, StopsKept, LoopEndsKept
<1>3. CASE \E r \in Runs : Collects(r) \/ TellsStatus(r)
  BY <1>3, StatusKept
<1>4. CASE \E l \in Loops : LoopStep(l)
  BY <1>4, LoopStepKept
<1>5. CASE PeerLooks \/ PeerSends \/ AgentTypes \/ Types \/ TypesReturn \/ PastesLine
  BY <1>5, TypingKept
<1>6. CASE PaneEnded \/ OtherPosts \/ OtherHeard \/ Picks("start") \/ Picks("close") \/ TakesDown
  BY <1>6, OutsideKept
<1>7. CASE Close \/ HearsClose \/ StartReturns \/ \E by \in {"user", "agent", "window"} : StartAgain(by)
  BY <1>7, CloseKept, StartAgainKept, StartReturnsKept
<1>8. CASE AppStep
  BY <1>8, RestartClosesKept, RestartWaitedKept, RestartRefusedKept, RevivesKept, AdoptsKept,
     WaitForSecretKept DEF AppStep
<1>9. CASE \E a \in Asks : AgentAsks(a) \/ StopsAsk(a)
  BY <1>9, AgentAsksKept, StopsAskKept
<1>10. CASE TakesBack
  BY <1>10, TakesBackKept
<1>11. CASE UNCHANGED vars
  BY <1>11, StutterKept
<1> QED BY <1>1, <1>2, <1>3, <1>4, <1>5, <1>6, <1>7, <1>8, <1>9, <1>10, <1>11 DEF Next

(* All that the promises below rest on, in every state: which goroutines of which
   run are about, whose input is queued, and who waits for a secret. *)
THEOREM KeptAlways == Spec => []Kept
<1>1. Init => Kept
  BY InitKept
<1>2. Kept /\ [Next]_vars => Kept'
  BY StepKept
<1> QED BY <1>1, <1>2, PTL DEF Spec

(* Every variable of the pane stays in its type, the queues within their room. *)
THEOREM TypeCorrect == Spec => []TypeOK
<1>1. Kept => TypeOK
  BY DEF Kept
<1> QED BY <1>1, KeptAlways, PTL

(* What was queued for a program when a restart cleared the pane is not there for
   the next, and what was typed at the next is not there for the old one's writer
   (ui/term/term.go, Restart): the old writer returned before the queue is thrown
   away, what comes in time after that is for the next, and nothing else is but
   what came late, between the two. *)
THEOREM NoInputLeftOver == Spec => []NothingIsLeftOver
<1>1. Kept => NothingIsLeftOver
  <2> SUFFICES ASSUME Kept, NEW r \in Runs, loop[<<r, "write">>] = "on", NEW i \in DOMAIN out
               PROVE  out[i].at = r \/ (out[i].late /\ out[i].at < r)
    BY DEF NothingIsLeftOver
  <2>1. /\ out \in Seq(Input) /\ run \in Runs
        /\ \A j \in 1..Len(out) :
             IF out[j].late THEN Late(out[j].at) ELSE out[j].at = TypedAt /\ app # "drained"
    BY DEF Kept, TypeOK, Queued
  <2>2. <<r, "write">> \in Loops /\ <<r, "write">>[1] = r
    OBVIOUS
  <2>3. r = run /\ app \notin {"drained", "revived"}
    BY <2>1, <2>2 DEF Kept, InTurn
  <2> QED BY <2>1, <2>3 DEF TypedAt, Late
<1> QED BY <1>1, KeptAlways, PTL

(* The status a pane shows is of the program in it (keepEnding, Restart). *)
THEOREM StatusOfItsOwn == Spec => []StatusIsItsOwn
<1>1. Kept => StatusIsItsOwn
  BY DEF Kept, Ended
<1> QED BY <1>1, KeptAlways, PTL

(* Whoever waits for a secret has an ask that stands, or an answer, and not one
   that another's stop gave it (WaitForSecret, endSecret). *)
THEOREM AskStands == Spec => []AskIsAnswered
<1>1. Kept => AskIsAnswered
  BY DEF Kept, Asked
<1> QED BY <1>1, KeptAlways, PTL
---------------------------------------------------------------------------
(* One of the loops of r saw its program end and has yet to tell the window. *)
Dying(r) == \E l \in Loops : l[1] = r /\ loop[l] \in Ending

(* A run is told of once: only one of its loops is at its end, until its status is
   waited for, and the pane has exited when one is or was, but for a pane that is
   about to have another program. *)
ToldOnce ==
  /\ \A l, m \in Loops : l[1] = m[1] /\ loop[l] \in Ending =>
       collect[l[1]] = "none" /\ (loop[m] \in Ending => l = m)
  /\ \A l \in Loops : l[1] = run => loop[l] # "none"
  /\ app # "revived" => (exited <=> collect[run] # "none" \/ Dying(run))
  /\ app = "revived" => ~exited
  /\ app \in {"close", "wait", "drained"} => exited
  /\ \A r \in Runs : r < run \/ (r = run /\ app = "revived") => collect[r] # "none"

LEMMA InitToldOnce == Init => ToldOnce
<1> SUFFICES ASSUME Init PROVE ToldOnce
  OBVIOUS
<1>1. /\ run = 1 /\ app = "idle" /\ exited = FALSE
      /\ \A l \in Loops : loop[l] = IF l[1] = 1 THEN "on" ELSE "none"
      /\ \A r \in Runs : collect[r] = "none"
  <2>1. /\ run = 1 /\ app = "idle" /\ exited = FALSE
        /\ loop = [l \in Loops |-> IF l[1] = 1 THEN "on" ELSE "none"]
        /\ collect = [r \in Runs |-> "none"]
    BY Zenon DEF Init
  <2> QED BY <2>1
<1>2. 1 \in Runs
  BY BoundsAssumption
<1> QED BY <1>1, <1>2 DEF ToldOnce, Dying, Ending

(* What is left alone stays as it is. *)
LEMMA ToldOnceStays ==
  ASSUME ToldOnce, UNCHANGED <<run, exited, goroutines>>,
         app' = "revived" <=> app = "revived",
         app' \in {"close", "wait", "drained"} => exited
  PROVE  ToldOnce'
  BY DEF ToldOnce, Dying, goroutines

(* A loop comes to its next stage, which is not the first at its end unless the pane
   had not exited. *)
LEMMA LoopTells ==
  ASSUME Kept, ToldOnce, NEW l \in Loops, NEW at \in LoopStages \ {"none", "on"},
         loop' = [loop EXCEPT ![l] = at], UNCHANGED <<run, app>>,
         \/ loop[l] = "on" /\ at = "stopped" /\ UNCHANGED <<collect, exited>>
         \/ loop[l] = "on" /\ exited /\ at = "gone" /\ exited' /\ UNCHANGED collect
         \/ loop[l] = "on" /\ ~exited /\ at \in Ending /\ exited' /\ UNCHANGED collect
         \/ loop[l] \in Ending /\ at \in Ending /\ UNCHANGED <<collect, exited>>
         \/ loop[l] \in Ending /\ at = "gone" /\ UNCHANGED exited /\ collect' = [collect EXCEPT ![l[1]] = "wait"]
  PROVE  ToldOnce'
<1>1. /\ loop \in [Loops -> LoopStages] /\ collect \in [Runs -> Collecting] /\ run \in Runs /\ l[1] \in Runs
      /\ exited \in BOOLEAN
  BY DEF Kept, TypeOK, LoopStages, Collecting
<1>2. loop'[l] = at /\ \A m \in Loops \ {l} : loop'[m] = loop[m]
  BY <1>1
<1>3. l[1] = run /\ app \notin {"drained", "revived"}
  <2>1. loop[l] \notin {"none", "gone", "stopped"}
    BY DEF Ending
  <2> QED BY <1>1, <2>1 DEF Kept, InTurn
<1>4. /\ \A r \in Runs \ {run} : collect'[r] = collect[r]
      /\ collect'[run] = collect[run] \/ collect'[run] = "wait"
  BY <1>1, <1>3
<1>5. CASE loop[l] = "on" /\ at \in {"stopped", "gone"} /\ UNCHANGED collect /\ exited' = exited
  BY <1>1, <1>2, <1>3, <1>5 DEF ToldOnce, Dying, Ending
<1>6. CASE loop[l] = "on" /\ ~exited /\ at \in Ending /\ exited' /\ UNCHANGED collect
  <2>1. collect[run] = "none" /\ \A m \in Loops : m[1] = run => loop[m] \notin Ending
    BY <1>1, <1>3, <1>6 DEF ToldOnce, Dying
  <2> QED BY <1>1, <1>2, <1>3, <1>6, <2>1 DEF ToldOnce, Dying, Ending
<1>7. CASE loop[l] \in Ending /\ at \in Ending /\ UNCHANGED <<collect, exited>>
  BY <1>1, <1>2, <1>3, <1>7 DEF ToldOnce, Dying, Ending
<1>8. CASE /\ loop[l] \in Ending /\ at = "gone" /\ UNCHANGED exited
           /\ collect' = [collect EXCEPT ![l[1]] = "wait"]
  <2>1. collect'[run] = "wait" /\ exited /\ \A m \in Loops \ {l} : m[1] = run => loop[m] \notin Ending
    BY <1>1, <1>3, <1>8 DEF ToldOnce, Dying
  <2> QED BY <1>1, <1>2, <1>3, <1>4, <1>8, <2>1 DEF ToldOnce, Dying, Ending
<1> QED BY <1>1, <1>5, <1>6, <1>7, <1>8

(* The steps that move a loop. *)
LEMMA LoopStepTells ==
  ASSUME Kept, ToldOnce, NEW l \in Loops, LoopStep(l)
  PROVE  ToldOnce'
<1>1. UNCHANGED <<run, app, exited>>
  BY DEF LoopStep, LooksForAsk, EndsAsk, Tells, ends, program
<1>2. CASE LooksForAsk(l) \/ EndsAsk(l)
  <2>1. PICK at \in {"ask", "tell"} : loop' = [loop EXCEPT ![l] = at]
    BY <1>2 DEF LooksForAsk, EndsAsk
  <2>2. loop[l] \in Ending /\ at \in Ending /\ at \in LoopStages \ {"none", "on"} /\ UNCHANGED collect
    BY <1>2 DEF LooksForAsk, EndsAsk, Ending, LoopStages
  <2> QED BY <1>1, <2>1, <2>2, LoopTells
<1>3. CASE Tells(l)
  <2>1. /\ loop' = [loop EXCEPT ![l] = "gone"] /\ collect' = [collect EXCEPT ![l[1]] = "wait"]
        /\ loop[l] \in Ending /\ "gone" \in LoopStages \ {"none", "on"}
    BY <1>3 DEF Tells, Ending, LoopStages
  <2> QED BY <1>1, <2>1, LoopTells
<1> QED BY <1>2, <1>3 DEF LoopStep

LEMMA FinishTells ==
  ASSUME Kept, ToldOnce, NEW l \in Loops, loop[l] = "on", Finish(l)
  PROVE  ToldOnce'
<1>1. UNCHANGED <<run, app, collect>> /\ exited'
  BY DEF Finish, program
<1>2. CASE exited
  <2>1. loop' = [loop EXCEPT ![l] = "gone"] /\ "gone" \in LoopStages \ {"none", "on"}
    BY <1>2 DEF Finish, LoopStages
  <2> QED BY <1>1, <1>2, <2>1, LoopTells
<1>3. CASE ~exited
  <2>1. loop' = [loop EXCEPT ![l] = "asks"] /\ "asks" \in LoopStages \ {"none", "on"} /\ "asks" \in Ending
    BY <1>3 DEF Finish, LoopStages, Ending
  <2> QED BY <1>1, <1>3, <2>1, LoopTells
<1> QED BY <1>2, <1>3

LEMMA RunTells ==
  ASSUME Kept, ToldOnce, NEW r \in Runs, Stops(r) \/ ReadEnds(r) \/ WriteFails(r)
  PROVE  ToldOnce'
<1>1. CASE Stops(r)
  <2> DEFINE l == <<r, "write">>
  <2>1. /\ l \in Loops /\ loop[l] = "on" /\ loop' = [loop EXCEPT ![l] = "stopped"]
        /\ UNCHANGED <<run, app, exited, collect>> /\ "stopped" \in LoopStages \ {"none", "on"}
    BY <1>1 DEF Stops, ends, program, LoopStages
  <2> HIDE DEF l
  <2> QED BY <2>1, LoopTells
<1>2. CASE ReadEnds(r)
  <2>1. <<r, "read">> \in Loops /\ loop[<<r, "read">>] = "on" /\ Finish(<<r, "read">>)
    BY <1>2 DEF ReadEnds
  <2> QED BY <2>1, FinishTells
<1>3. CASE WriteFails(r)
  <2>1. <<r, "write">> \in Loops /\ loop[<<r, "write">>] = "on" /\ Finish(<<r, "write">>)
    BY <1>3 DEF WriteFails
  <2> QED BY <2>1, FinishTells
<1> QED BY <1>1, <1>2, <1>3

(* The status comes in: it was waited for. *)
LEMMA StatusTells ==
  ASSUME Kept, ToldOnce, NEW r \in Runs, Collects(r) \/ TellsStatus(r)
  PROVE  ToldOnce'
<1>1. UNCHANGED <<run, exited, loop, app>>
  BY DEF Collects, TellsStatus, ends, program
<1>2. collect[r] # "none" /\ \E now \in {"tell", "gone"} : collect' = [collect EXCEPT ![r] = now]
  BY DEF Collects, TellsStatus
<1>3. collect \in [Runs -> Collecting] /\ run \in Runs
  BY DEF Kept, TypeOK, Collecting
<1>4. collect'[r] # "none" /\ \A s \in Runs \ {r} : collect'[s] = collect[s]
  BY <1>2, <1>3
<1>5. \A l \in Loops : l[1] \in Runs
  OBVIOUS
<1> QED BY <1>1, <1>2, <1>3, <1>4, <1>5 DEF ToldOnce, Dying

(* The program's goroutine starts the pane again. *)
Starting == StartReturns \/ \E by \in {"user", "agent", "window"} : StartAgain(by)

LEMMA StartingIs ==
  ASSUME Starting
  PROVE  /\ UNCHANGED <<ends, goroutines>>
         /\ app = "idle" /\ (app' = "idle" \/ (app' = "close" /\ exited))
<1>1. UNCHANGED <<ends, goroutines>> /\ app = "idle"
  BY DEF Starting, StartReturns, StartAgain
<1>2. CASE StartReturns
  BY <1>1, <1>2 DEF StartReturns, Restarts, NoRestart
<1>3. CASE \E by \in {"user", "agent", "window"} : StartAgain(by)
  <2>1. PICK by \in {"user", "agent", "window"} : StartAgain(by)
    BY <1>3
  <2>2. app' = app \/ (app' = "close" /\ exited)
    BY <2>1 DEF StartAgain, StartFails, StartBegins, Restarts, NoRestart
  <2> QED BY <1>1, <2>2
<1> QED BY <1>2, <1>3 DEF Starting

LEMMA RestartTells ==
  ASSUME Kept, ToldOnce, Starting \/ RestartCloses \/ RestartWaited \/ RestartRefused \/ Revives \/ Adopts
  PROVE  ToldOnce'
<1>0. run \in Runs /\ collect \in [Runs -> Collecting]
  BY DEF Kept, TypeOK, Collecting
<1>1. CASE Starting \/ RestartCloses \/ RestartWaited \/ RestartRefused
  <2>1. /\ UNCHANGED <<run, exited, goroutines>>
        /\ app # "revived" /\ app' # "revived" /\ (app' \in {"close", "wait", "drained"} => exited)
    <3>1. CASE Starting
      BY <3>1, StartingIs DEF ends
    <3>2. CASE RestartCloses \/ RestartWaited \/ RestartRefused
      BY <3>2 DEF RestartCloses, RestartWaited, RestartRefused, ends, ToldOnce
    <3> QED BY <1>1, <3>1, <3>2
  <2> QED BY <2>1, ToldOnceStays
<1>2. CASE Revives
  <2>1. /\ UNCHANGED <<run, goroutines>> /\ app = "drained" /\ app' = "revived" /\ exited' = FALSE
    BY <1>2 DEF Revives
  <2>2. ~Dying(run)
    BY <2>1 DEF Kept, InTurn, Dying, Ending
  <2>3. collect[run] # "none"
    BY <2>1, <2>2 DEF ToldOnce
  <2> QED BY <2>1, <2>3 DEF ToldOnce, goroutines
<1>3. CASE Adopts
  <2>1. /\ UNCHANGED <<exited, collect>> /\ app = "revived" /\ app' = "idle" /\ run' = run + 1
        /\ loop' = [l \in Loops |-> IF l[1] = run + 1 THEN "on" ELSE loop[l]]
    BY <1>3 DEF Adopts
  <2>0. PICK n : n = run + 1
    OBVIOUS
  <2>2. n \in Runs /\ run < n /\ \A r \in Runs : r < n => r < run \/ r = run
    <3>1. run < MaxRuns
      BY <2>1 DEF Kept, InTurn, Replacing
    <3> QED BY <1>0, <2>0, <3>1, BoundsAssumption
  <2>3. /\ \A l \in Loops : loop'[l] = IF l[1] = n THEN "on" ELSE loop[l]
        /\ \A l \in Loops : l[1] \in Runs
    BY <2>0, <2>1
  <2>4. collect[n] = "none"
    BY <2>2 DEF Kept, InTurn
  <2>5. ~Dying(n)'
    BY <2>3 DEF Dying, Ending
  <2>6. \A l, m \in Loops : l[1] = m[1] /\ loop'[l] \in Ending =>
          collect'[l[1]] = "none" /\ (loop'[m] \in Ending => l = m)
    BY <2>1, <2>3 DEF ToldOnce, Ending
  <2>7. \A l \in Loops : l[1] = run' => loop'[l] # "none"
    BY <2>0, <2>1, <2>3
  <2>8. \A r \in Runs : r < run' => collect'[r] # "none"
    BY <2>0, <2>1, <2>2 DEF ToldOnce
  <2>9. exited' = FALSE /\ ~(collect'[run'] # "none" \/ Dying(run)')
    <3>1. Dying(run)' <=> Dying(n)'
      BY <2>0, <2>1 DEF Dying
    <3> QED BY <2>0, <2>1, <2>4, <2>5, <3>1 DEF ToldOnce, Kept, TypeOK
  <2> QED BY <2>1, <2>6, <2>7, <2>8, <2>9 DEF ToldOnce
<1> QED BY <1>1, <1>2, <1>3

(* The steps that neither move a loop nor start the pane again. *)
Elsewhere ==
  \/ \E r \in Runs : Cut(r) \/ StatusIn(r) \/ Writes(r)
  \/ PeerLooks \/ PeerSends \/ AgentTypes \/ Types \/ TypesReturn \/ PastesLine
  \/ PaneEnded \/ OtherPosts \/ OtherHeard \/ Close \/ TakesBack
  \/ Picks("start") \/ Picks("close") \/ TakesDown \/ HearsClose
  \/ \E a \in Asks : AgentAsks(a) \/ WaitForSecret(a) \/ StopsAsk(a)

LEMMA ElsewhereTells ==
  ASSUME ToldOnce, Elsewhere \/ UNCHANGED vars
  PROVE  ToldOnce' /\ UNCHANGED <<run, goroutines>>
<1>1. UNCHANGED <<run, exited, goroutines>> /\ (app' = app \/ (app \in {"idle", "asks"} /\ app' \in {"idle", "asks"}))
  BY DEF Elsewhere, vars, Cut, StatusIn, Writes, PeerLooks, PeerSends, AgentTypes, Types, TypesReturn, PastesLine,
         PaneEnded, OtherPosts, OtherHeard, Picks, TakesDown, HearsClose, Closes, Close, TakesBack, AgentAsks,
         WaitForSecret, StopsAsk, ends, goroutines, program
<1>2. app' \in {"close", "wait", "drained"} => exited
  BY <1>1 DEF ToldOnce
<1> QED BY <1>1, <1>2, ToldOnceStays

LEMMA NextIs ==
  [Next]_vars <=> \/ Elsewhere \/ UNCHANGED vars
                  \/ \E r \in Runs : Stops(r) \/ ReadEnds(r) \/ WriteFails(r)
                  \/ \E l \in Loops : LoopStep(l)
                  \/ \E r \in Runs : Collects(r) \/ TellsStatus(r)
                  \/ Starting \/ RestartCloses \/ RestartWaited \/ RestartRefused \/ Revives \/ Adopts
  BY Zenon DEF Next, AppStep, Elsewhere, Starting

LEMMA ToldOnceNext == Kept /\ ToldOnce /\ [Next]_vars => ToldOnce'
  BY NextIs, ElsewhereTells, RunTells, LoopStepTells, StatusTells, RestartTells
---------------------------------------------------------------------------
(* Where a run is in its life is where its loops and its collector are. *)
LEMMA LifeIs ==
  ASSUME NEW r \in Runs
  PROVE  /\ loop[<<r, "read">>] = "none" => Life[r] = "none"
         /\ loop[<<r, "read">>] # "none" =>
              /\ collect[r] = "none" => Life[r] = IF Dying(r) THEN "gone" ELSE "runs"
              /\ collect[r] = "wait" => Life[r] = "told"
              /\ collect[r] = "tell" => Life[r] = "known"
              /\ collect[r] = "gone" => Life[r] = "over"
  BY DEF Life, LifeAt, Dying, Ending

LEMMA LifeIsNext ==
  ASSUME NEW r \in Runs
  PROVE  /\ loop'[<<r, "read">>] = "none" => Life'[r] = "none"
         /\ loop'[<<r, "read">>] # "none" =>
              /\ collect'[r] = "none" => Life'[r] = IF Dying(r)' THEN "gone" ELSE "runs"
              /\ collect'[r] = "wait" => Life'[r] = "told"
              /\ collect'[r] = "tell" => Life'[r] = "known"
              /\ collect'[r] = "gone" => Life'[r] = "over"
  BY DEF Life, LifeAt, Dying, Ending

(* Only the life of one run changes in a step. *)
LEMMA OneLives ==
  ASSUME NEW r \in Runs, NEW to, Life'[r] = to,
         \A s \in Runs \ {r} : Life'[s] = Life[s]
  PROVE  Life' = [Life EXCEPT ![r] = to]
<1>1. DOMAIN Life = Runs /\ Life = [s \in Runs |-> Life[s]] /\ Life' = [s \in Runs |-> Life'[s]]
  BY DEF Life
<1> QED BY <1>1

LEMMA LifeStays ==
  ASSUME NEW r \in Runs, Kept, collect'[r] = collect[r], Dying(r)' <=> Dying(r),
         loop'[<<r, "read">>] = "none" <=> loop[<<r, "read">>] = "none"
  PROVE  Life'[r] = Life[r]
<1>1. collect[r] \in Collecting
  BY DEF Kept, TypeOK, Collecting
<1> QED BY <1>1, LifeIs, LifeIsNext DEF Collecting

(* A run's loops all of one stage or another: which steps change whose life. *)
LEMMA Unmoved ==
  ASSUME Kept, UNCHANGED <<loop, collect>>
  PROVE  Life' = Life
<1>1. \A r \in Runs : Dying(r)' <=> Dying(r)
  BY DEF Dying
<1>2. \A r \in Runs : Life'[r] = Life[r]
  BY <1>1, LifeStays
<1>3. DOMAIN Life = Runs /\ Life = [s \in Runs |-> Life[s]] /\ Life' = [s \in Runs |-> Life'[s]]
  BY DEF Life
<1> QED BY <1>2, <1>3

(* A loop moves and nobody's status with it. *)
LEMMA LoopLives ==
  ASSUME Kept, ToldOnce, NEW l \in Loops, NEW at \in LoopStages \ {"none", "on"},
         loop' = [loop EXCEPT ![l] = at], loop[l] \in {"on", "asks", "ask", "tell"}, UNCHANGED <<run, collect>>
  PROVE  /\ (loop[l] \in Ending <=> at \in Ending) => Life' = Life
         /\ loop[l] = "on" /\ ~exited /\ at \in Ending => Lives!Next
<1>1. /\ loop \in [Loops -> LoopStages] /\ collect \in [Runs -> Collecting] /\ run \in Runs /\ l[1] \in Runs
  BY DEF Kept, TypeOK, LoopStages, Collecting
<1>2. loop'[l] = at /\ \A m \in Loops \ {l} : loop'[m] = loop[m]
  BY <1>1
<1>3. l[1] = run /\ app \notin {"drained", "revived"}
  BY <1>1 DEF Kept, InTurn
<1>4. \A r \in Runs : <<r, "read">> \in Loops /\ (loop'[<<r, "read">>] = "none" <=> loop[<<r, "read">>] = "none")
  BY <1>1, <1>2
<1>5. \A r \in Runs : r # run => (Dying(r)' <=> Dying(r))
  BY <1>2, <1>3 DEF Dying
<1>6. \A r \in Runs : r # run => Life'[r] = Life[r]
  BY <1>4, <1>5, LifeStays
<1>7. DOMAIN Life = Runs /\ Life = [s \in Runs |-> Life[s]] /\ Life' = [s \in Runs |-> Life'[s]]
  BY DEF Life
<1>8. ASSUME loop[l] \in Ending <=> at \in Ending PROVE Life' = Life
  <2>1. Dying(run)' <=> Dying(run)
    BY <1>2, <1>3, <1>8 DEF Dying
  <2>2. Life'[run] = Life[run]
    BY <1>1, <1>4, <2>1, LifeStays
  <2> QED BY <1>6, <1>7, <2>2
<1>9. ASSUME loop[l] = "on", ~exited, at \in Ending PROVE Lives!Next
  <2>1. collect[run] = "none" /\ ~Dying(run)
    BY <1>3, <1>9 DEF ToldOnce
  <2>2. loop[<<run, "read">>] # "none" /\ loop'[<<run, "read">>] # "none"
    BY <1>1, <1>4 DEF ToldOnce
  <2>3. Dying(run)'
    BY <1>2, <1>3, <1>9 DEF Dying
  <2>4. Life[run] = "runs" /\ Life'[run] = "gone"
    BY <1>1, <2>1, <2>2, <2>3, LifeIs, LifeIsNext
  <2>5. Life' = [Life EXCEPT ![run] = "gone"]
    BY <1>1, <1>6, <2>4, OneLives
  <2> QED BY <1>1, <2>4, <2>5 DEF Lives!Next, Lives!Goes, Lives!Comes, Lives!Runs
<1> QED BY <1>8, <1>9

LEMMA RunLives ==
  ASSUME Kept, ToldOnce, NEW r \in Runs, Stops(r) \/ ReadEnds(r) \/ WriteFails(r)
  PROVE  Lives!Next \/ Life' = Life
<1>1. PICK l \in Loops, at \in {"stopped", "gone", "asks"} :
        /\ loop[l] = "on" /\ loop' = [loop EXCEPT ![l] = at] /\ UNCHANGED <<run, collect>>
        /\ at = "asks" => ~exited
  <2>1. <<r, "read">> \in Loops /\ <<r, "write">> \in Loops
    OBVIOUS
  <2>2. CASE Stops(r)
    BY <2>1, <2>2 DEF Stops, ends
  <2>3. CASE ReadEnds(r)
    BY <2>1, <2>3 DEF ReadEnds, Finish
  <2>4. CASE WriteFails(r)
    BY <2>1, <2>4 DEF WriteFails, Finish
  <2> QED BY <2>2, <2>3, <2>4
<1>2. at \in LoopStages \ {"none", "on"} /\ (at \in Ending <=> at = "asks") /\ loop[l] \notin Ending
  BY <1>1 DEF LoopStages, Ending
<1> QED BY <1>1, <1>2, LoopLives

(* The window is told, and the status of what ended waited for. *)
LEMMA TellsLives ==
  ASSUME Kept, ToldOnce, NEW l \in Loops, Tells(l)
  PROVE  Lives!Next
<1>1. /\ loop[l] = "tell" /\ loop' = [loop EXCEPT ![l] = "gone"]
      /\ collect' = [collect EXCEPT ![l[1]] = "wait"] /\ UNCHANGED run
  BY DEF Tells, ends
<1>2. /\ loop \in [Loops -> LoopStages] /\ collect \in [Runs -> Collecting] /\ run \in Runs /\ l[1] \in Runs
  BY DEF Kept, TypeOK, LoopStages, Collecting
<1>3. l[1] = run
  BY <1>1, <1>2 DEF Kept, InTurn
<1>4. loop'[l] = "gone" /\ \A m \in Loops \ {l} : loop'[m] = loop[m]
  BY <1>1, <1>2
<1>5. collect'[run] = "wait" /\ \A r \in Runs \ {run} : collect'[r] = collect[r]
  BY <1>1, <1>2, <1>3
<1>6. \A r \in Runs : <<r, "read">> \in Loops /\ (loop'[<<r, "read">>] = "none" <=> loop[<<r, "read">>] = "none")
  BY <1>1, <1>2, <1>4
<1>7. \A r \in Runs \ {run} : Dying(r)' <=> Dying(r)
  BY <1>3, <1>4 DEF Dying
<1>8. \A r \in Runs \ {run} : Life'[r] = Life[r]
  BY <1>5, <1>6, <1>7, LifeStays
<1>9. loop[<<run, "read">>] # "none" /\ loop'[<<run, "read">>] # "none"
  BY <1>2, <1>6 DEF ToldOnce
<1>10. collect[run] = "none" /\ Dying(run)
  BY <1>1, <1>3 DEF ToldOnce, Dying, Ending
<1>11. Life[run] = "gone" /\ Life'[run] = "told"
  BY <1>2, <1>5, <1>9, <1>10, LifeIs, LifeIsNext
<1>12. Life' = [Life EXCEPT ![run] = "told"]
  BY <1>2, <1>8, <1>11, OneLives
<1> QED BY <1>2, <1>11, <1>12 DEF Lives!Next, Lives!IsTold, Lives!Comes, Lives!Runs

(* The status is kept only while the pane has no other program. *)
LEMMA StatusLives ==
  ASSUME Kept, ToldOnce, NEW r \in Runs, Collects(r) \/ TellsStatus(r)
  PROVE  Lives!Next
<1>1. UNCHANGED <<run, loop>>
  BY DEF Collects, TellsStatus, ends
<1>2. /\ loop \in [Loops -> LoopStages] /\ collect \in [Runs -> Collecting] /\ run \in Runs
  BY DEF Kept, TypeOK, LoopStages, Collecting
<1>3. PICK now \in {"tell", "gone"} :
        /\ collect' = [collect EXCEPT ![r] = now] /\ collect[r] \in {"wait", "tell"}
        /\ now = "tell" => collect[r] = "wait" /\ run = r
  BY DEF Collects, TellsStatus
<1>4. collect'[r] = now /\ \A s \in Runs \ {r} : collect'[s] = collect[s]
  BY <1>2, <1>3
<1>5. \A s \in Runs : Dying(s)' <=> Dying(s)
  BY <1>1 DEF Dying
<1>6. \A s \in Runs \ {r} : Life'[s] = Life[s]
  BY <1>1, <1>4, <1>5, LifeStays
<1>7. \A s \in Runs : s > run => Life[s] = "none"
  <2> SUFFICES ASSUME NEW s \in Runs, s > run PROVE Life[s] = "none"
    OBVIOUS
  <2>1. <<s, "read">> \in Loops /\ <<s, "read">>[1] = s
    OBVIOUS
  <2>2. loop[<<s, "read">>] = "none"
    BY <2>1 DEF Kept, InTurn
  <2> QED BY <2>2, LifeIs
<1>8. loop[<<r, "read">>] # "none"
  <2>1. <<r, "read">> \in Loops /\ <<r, "read">>[1] = r
    OBVIOUS
  <2>2. r < run \/ r = run
    BY <1>2, <1>3 DEF Kept, InTurn
  <2> QED BY <2>1, <2>2 DEF Kept, InTurn, ToldOnce
<1>9. /\ Life[r] = IF collect[r] = "wait" THEN "told" ELSE "known"
      /\ Life'[r] = IF now = "tell" THEN "known" ELSE "over"
  BY <1>1, <1>3, <1>4, <1>8, LifeIs, LifeIsNext
<1>10. Life' = [Life EXCEPT ![r] = Life'[r]]
  BY <1>6, OneLives
<1>11. CASE now = "tell"
  BY <1>3, <1>7, <1>9, <1>10, <1>11 DEF Lives!Next, Lives!IsKnown, Lives!Comes, Lives!Runs
<1>12. CASE now = "gone"
  BY <1>3, <1>9, <1>10, <1>12 DEF Lives!Next, Lives!IsOver, Lives!Comes, Lives!Runs
<1> QED BY <1>11, <1>12

(* The next program begins. *)
LEMMA AdoptsLives ==
  ASSUME Kept, ToldOnce, Adopts
  PROVE  Lives!Next
<1>1. /\ UNCHANGED collect /\ app = "revived"
      /\ loop' = [l \in Loops |-> IF l[1] = run + 1 THEN "on" ELSE loop[l]]
  BY DEF Adopts
<1>2. /\ loop \in [Loops -> LoopStages] /\ collect \in [Runs -> Collecting] /\ run \in Runs
  BY DEF Kept, TypeOK, LoopStages, Collecting
<1>3. PICK n \in Runs : n = run + 1
  <2>1. run < MaxRuns
    BY <1>1 DEF Kept, InTurn, Replacing
  <2> QED BY <1>2, <2>1, BoundsAssumption
<1>4. \A l \in Loops : loop'[l] = IF l[1] = n THEN "on" ELSE loop[l]
  BY <1>1, <1>3
<1>5. \A r \in Runs : <<r, "read">> \in Loops /\ <<r, "read">>[1] = r
  OBVIOUS
<1>6. \A r \in Runs \ {n} : /\ loop'[<<r, "read">>] = loop[<<r, "read">>]
                            /\ Dying(r)' <=> Dying(r)
  BY <1>4, <1>5 DEF Dying
<1>7. \A r \in Runs \ {n} : Life'[r] = Life[r]
  BY <1>1, <1>6, LifeStays
<1>8. collect[n] = "none" /\ loop[<<n, "read">>] = "none" /\ loop'[<<n, "read">>] = "on"
  BY <1>2, <1>3, <1>4, <1>5 DEF Kept, InTurn
<1>9. ~Dying(n)'
  BY <1>4 DEF Dying, Ending
<1>10. Life[n] = "none" /\ Life'[n] = "runs"
  BY <1>1, <1>8, <1>9, LifeIs, LifeIsNext
<1>11. Life' = [Life EXCEPT ![n] = "runs"]
  BY <1>7, <1>10, OneLives
<1>12. \A s \in Runs : s < n => Life[s] \in {"told", "known", "over"}
  <2> SUFFICES ASSUME NEW s \in Runs, s < n PROVE Life[s] \in {"told", "known", "over"}
    OBVIOUS
  <2>1. s < run \/ s = run
    BY <1>2, <1>3
  <2>2. collect[s] \in Collecting \ {"none"}
    BY <1>1, <1>2, <2>1 DEF ToldOnce
  <2>3. loop[<<s, "read">>] # "none"
    BY <1>5, <2>1 DEF Kept, InTurn, ToldOnce
  <2> QED BY <2>2, <2>3, LifeIs DEF Collecting
<1> QED BY <1>10, <1>11, <1>12 DEF Lives!Next, Lives!Begins, Lives!Comes, Lives!Runs

LEMMA NextLives ==
  ASSUME Kept, ToldOnce, [Next]_vars
  PROVE  Lives!Next \/ Life' = Life
<1>1. CASE Elsewhere \/ UNCHANGED vars
  <2>1. UNCHANGED <<loop, collect>>
    BY <1>1, ElsewhereTells DEF goroutines
  <2> QED BY <2>1, Unmoved
<1>2. CASE \E r \in Runs : Stops(r) \/ ReadEnds(r) \/ WriteFails(r)
  BY <1>2, RunLives
<1>3. CASE \E l \in Loops : LoopStep(l)
  <2>1. PICK l \in Loops : LoopStep(l)
    BY <1>3
  <2>2. CASE LooksForAsk(l) \/ EndsAsk(l)
    <3>1. PICK at \in {"ask", "tell"} : loop' = [loop EXCEPT ![l] = at]
      BY <2>2 DEF LooksForAsk, EndsAsk
    <3>2. /\ loop[l] \in {"on", "asks", "ask", "tell"} /\ loop[l] \in Ending /\ at \in Ending
          /\ at \in LoopStages \ {"none", "on"} /\ UNCHANGED <<run, collect>>
      BY <2>2 DEF LooksForAsk, EndsAsk, Ending, LoopStages, ends
    <3> QED BY <3>1, <3>2, LoopLives
  <2>3. CASE Tells(l)
    BY <2>3, TellsLives
  <2> QED BY <2>1, <2>2, <2>3 DEF LoopStep
<1>4. CASE \E r \in Runs : Collects(r) \/ TellsStatus(r)
  BY <1>4, StatusLives
<1>5. CASE Starting \/ RestartCloses \/ RestartWaited \/ RestartRefused \/ Revives
  <2>1. UNCHANGED <<loop, collect>>
    BY <1>5, StartingIs DEF RestartCloses, RestartWaited, RestartRefused, Revives, goroutines
  <2> QED BY <2>1, Unmoved
<1>6. CASE Adopts
  BY <1>6, AdoptsLives
<1> QED BY <1>1, <1>2, <1>3, <1>4, <1>5, <1>6, NextIs

LEMMA InitLives == Init => Lives!Init
<1> SUFFICES ASSUME Init PROVE Life = [r \in Runs |-> IF r = 1 THEN "runs" ELSE "none"]
  BY DEF Lives!Init, Lives!Runs
<1>1. /\ \A l \in Loops : loop[l] = IF l[1] = 1 THEN "on" ELSE "none"
      /\ \A r \in Runs : collect[r] = "none"
  <2>1. /\ loop = [l \in Loops |-> IF l[1] = 1 THEN "on" ELSE "none"]
        /\ collect = [r \in Runs |-> "none"]
    BY Zenon DEF Init
  <2> QED BY <2>1
<1>2. \A r \in Runs : <<r, "read">> \in Loops /\ <<r, "read">>[1] = r /\ ~Dying(r)
  BY <1>1 DEF Dying, Ending
<1>3. ASSUME NEW r \in Runs PROVE Life[r] = IF r = 1 THEN "runs" ELSE "none"
  <2>1. loop[<<r, "read">>] = (IF r = 1 THEN "on" ELSE "none") /\ collect[r] = "none" /\ ~Dying(r)
    BY <1>1, <1>2
  <2>2. CASE r = 1
    BY <2>1, <2>2, LifeIs
  <2>3. CASE r # 1
    BY <2>1, <2>3, LifeIs
  <2> QED BY <2>2, <2>3
<1>4. Life = [s \in Runs |-> Life[s]]
  BY DEF Life
<1> QED BY <1>3, <1>4

(* The goroutines of a pane do what PaneLife promises of its programs: however its
   two loops, its collector and a restart (finish, collect, Restart) fall, a program
   goes once, the window is told of it once, its status is kept only while it is
   the pane's, and none begins before the window was told of the last. *)
THEOREM ProgramsLiveInTurn == Spec => LivesInTurn
<1>1. Init => Kept /\ ToldOnce /\ Lives!Init
  BY InitKept, InitToldOnce, InitLives
<1>2. Kept /\ ToldOnce /\ [Next]_vars => (Kept /\ ToldOnce)' /\ [Lives!Next]_Life
  BY StepKept, ToldOnceNext, NextLives
<1> QED BY <1>1, <1>2, PTL DEF Spec, LivesInTurn, Lives!Spec
=============================================================================
