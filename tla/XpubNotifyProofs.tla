-------------------------- MODULE XpubNotifyProofs --------------------------
(***************************************************************************)
(* For every number of XSUB sockets and topics, every setup and every      *)
(* interleaving of their threads with the bind: the topic map of an XPUB   *)
(* endpoint is exact, and its application is told of every change once.    *)
(***************************************************************************)
EXTENDS XpubNotify, FiniteSetTheorems, TLAPS

InCall(x) == pc[x] \in {"lookup", "decide", "push"}

(* Where the threads of the XSUB sockets are and what they have to do. *)
Threads ==
  \A x \in Xsub :
    /\ InCall(x) => peer[x] = x /\ op[x] \in {"change", "join", "leave"}
    /\ ~InCall(x) => todo[x] = {} /\ op[x] \in {"none", "leave"}
    /\ pc[x] \in {"idle", "pend"} => op[x] = "none"
    /\ pc[x] = "lookup" => op[x] = "change"
    /\ pc[x] = "pend" => x \notin connected /\ ~setup.bindFirst
    /\ pc[x] # "idle" => x \in setup.xsubs

(* The changes they have still to replay, and the mutex meanwhile. *)
Replays ==
  \A x \in Xsub :
    /\ op[x] = "change" => x \in connected
    /\ op[x] = "join" => /\ mutex = x /\ bound /\ x \in peers
                         /\ \A c \in todo[x] : c.kind = "sub"
    /\ op[x] = "leave" => /\ bound /\ x \notin peers /\ x \in connected
                          /\ pc[x] # "unpend" => mutex = x
                          /\ \A c \in todo[x] : c.kind = "unsub"
    /\ \A c \in todo[x] :
         /\ c.kind = "sub" => subs[x][c.topic] > 0
         /\ c.kind = "unsub" /\ op[x] # "leave" => subs[x][c.topic] = 0

(* bind has the mutex from its first step to its last. *)
Binding ==
  /\ pc[Xpub] \in {"idle", "decide", "push"}
  /\ pc[Xpub] = "idle" => /\ mutex # Xpub
                          /\ todo[Xpub] = {} /\ peer[Xpub] = Nobody
  /\ pc[Xpub] # "idle" => mutex = Xpub /\ ~bound
  /\ peer[Xpub] = Nobody => todo[Xpub] = {}
  /\ \A c \in todo[Xpub] : c.kind = "sub"
  /\ bound => taken = {}
  /\ bound \/ peers = {} \/ mutex = Xpub

(* Who is listed where. *)
Listed ==
  /\ \A x \in waiting \cup taken : x \in connected
  /\ \A x \in peers : x \in connected \/ op[x] = "join"
  /\ waiting \cap (peers \cup taken) = {}
  /\ waiting \cup taken \subseteq setup.xsubs
  /\ peer[Xpub] \in setup.xsubs \cup {Nobody}
  /\ setup.bindFirst => waiting = {} /\ taken = {} /\ peer[Xpub] = Nobody
  /\ setup.bindFirst => \A x \in connected : x \in peers \/ op[x] = "leave"

(* What is subscribed to is in the map, or about to be put there. *)
Arrives ==
  \A x \in peers, t \in Topic :
    subs[x][t] > 0 =>
      \/ x \in topics[t]
      \/ [kind |-> "sub", topic |-> t] \in todo[x]
      \/ peer[Xpub] = x /\ [kind |-> "sub", topic |-> t] \in todo[Xpub]

(* What is in the map is subscribed to, or about to be taken out. *)
Leaves ==
  setup.bindFirst => \A x \in Xsub, t \in Topic :
    /\ x \in topics[t] =>
         \/ x \in peers /\ subs[x][t] > 0
         \/ [kind |-> "unsub", topic |-> t] \in todo[x]
    /\ [kind |-> "sub", topic |-> t] \in todo[x] => x \notin topics[t]
    /\ [kind |-> "unsub", topic |-> t] \in todo[x] => x \in topics[t]

(* Only those that take part are in the map. *)
InMap == \A t \in Topic : topics[t] \subseteq setup.xsubs

(***************************************************************************)
(* The inductive invariant.  TopicMapExact speaks of settled sockets only; *)
(* Arrives and Leaves say what holds in mid-call, and the other parts that *)
(* nobody but its own thread, or a bind that holds the mutex, changes what *)
(* the map says of a socket.                                               *)
(***************************************************************************)
IInv ==
  /\ TypeOK
  /\ Threads
  /\ Replays
  /\ Binding
  /\ Listed
  /\ Arrives
  /\ Leaves
  /\ InMap

-----------------------------------------------------------------------------
(* A socket of the setup is an XSUB, and an actor other than the XPUB. *)
LEMMA Actors ==
  ASSUME TypeOK
  PROVE  /\ setup.xsubs \subseteq Xsub /\ setup.topics \subseteq Topic
         /\ Xsub \subseteq Actor /\ Xpub \in Actor
         /\ Xpub \notin Xsub /\ Nobody \notin Xsub
         /\ \A x \in Xsub : x # Xpub /\ x # Nobody
         /\ Xpub # Nobody
  BY XpubAssumption DEF TypeOK, Setup, Actor

LEMMA AllOfType ==
  ASSUME TypeOK, NEW kind \in Kind, NEW x
  PROVE  AllOf(kind, x) \subseteq Change
  BY DEF AllOf, Held, Change

(* Entering a call and leaving it keep the types of what a thread knows. *)
LEMMA EnterType ==
  ASSUME TypeOK, NEW a \in Actor,
         NEW p \in {"idle", "pend", "lookup", "decide", "push", "unpend"},
         NEW o \in {"none", "change", "join", "leave"},
         NEW x \in Xsub \cup {Nobody}, NEW c \in SUBSET Change,
         Enter(a, p, o, x, c)
  PROVE  /\ pc' \in [Actor -> {"idle", "pend", "lookup", "decide", "push", "unpend"}]
         /\ op' \in [Actor -> {"none", "change", "join", "leave"}]
         /\ peer' \in [Actor -> Xsub \cup {Nobody}]
         /\ todo' \in [Actor -> SUBSET Change]
  BY DEF TypeOK, Enter

LEMMA SubsType ==
  ASSUME TypeOK, NEW x \in Xsub, NEW t \in Topic
  PROVE  /\ Inserted(x, t) \in [Xsub -> [Topic -> Nat]]
         /\ Removed(x, t) \in [Xsub -> [Topic -> Nat]]
         /\ InsertChange(x, t) \subseteq Change
         /\ RemoveChange(x, t) \subseteq Change
  BY DEF TypeOK, Inserted, Removed, InsertChange, RemoveChange, Change, Kind

LEMMA ChangeCallType ==
  ASSUME TypeOK, NEW x \in Xsub, NEW t \in Topic,
         \/ Subscribe(x, t) \/ Unsubscribe(x, t)
         \/ RawSubscribe(x, t) \/ RawUnsubscribe(x, t)
  PROVE  TypeOK'
  <1> USE Actors, SubsType, EnterType DEF Return
  <1>1. subs' \in [Xsub -> [Topic -> Nat]]
    BY DEF Subscribe, Unsubscribe, RawSubscribe, RawUnsubscribe
  <1>2. UNCHANGED <<setup, connected, waiting, endpointVars, mutex, now, taken>>
    BY DEF Subscribe, Unsubscribe, RawSubscribe, RawUnsubscribe, Tell
  <1>3. \/ Enter(x, "idle", "none", Nobody, {})
        \/ \E p \in {"lookup", "decide"}, c \in SUBSET Change : Enter(x, p, "change", x, c)
    BY DEF Subscribe, Unsubscribe, RawSubscribe, RawUnsubscribe, Tell
  <1>4. /\ pc' \in [Actor -> {"idle", "pend", "lookup", "decide", "push", "unpend"}]
        /\ op' \in [Actor -> {"none", "change", "join", "leave"}]
        /\ peer' \in [Actor -> Xsub \cup {Nobody}]
        /\ todo' \in [Actor -> SUBSET Change]
    BY <1>3
  <1> QED BY <1>1, <1>2, <1>4 DEF TypeOK, endpointVars

LEMMA XsubStepType ==
  ASSUME TypeOK, NEW x \in Xsub,
         \/ Connect(x) \/ ConnectMissed(x) \/ Disconnect(x) \/ XsubStep(x)
  PROVE  TypeOK'
  <1> USE Actors, EnterType, AllOfType DEF Return, Kind, socketVars, endpointVars
  <1>1. ASSUME Connect(x) PROVE TypeOK'
    BY <1>1 DEF TypeOK, Connect
  <1>2. ASSUME ConnectMissed(x) PROVE TypeOK'
    BY <1>2 DEF TypeOK, ConnectMissed
  <1>3. ASSUME Disconnect(x) PROVE TypeOK'
    BY <1>3 DEF TypeOK, Disconnect
  <1>4. ASSUME Lookup(x) PROVE TypeOK'
    <2>1. todo[x] \in SUBSET Change
      BY DEF TypeOK
    <2> QED BY <1>4, <2>1 DEF TypeOK, Lookup
  <1>5. ASSUME ChangeDone(x) PROVE TypeOK'
    BY <1>5 DEF TypeOK, ChangeDone
  <1>6. ASSUME JoinDone(x) PROVE TypeOK'
    BY <1>6 DEF TypeOK, JoinDone
  <1>7. ASSUME ConnectPend(x) PROVE TypeOK'
    BY <1>7 DEF TypeOK, ConnectPend
  <1>8. ASSUME LeaveDone(x) PROVE TypeOK'
    <2>1. manual' \in [Topic -> SUBSET Xsub]
      BY <1>8 DEF TypeOK, LeaveDone
    <2> QED BY <1>8, <2>1 DEF TypeOK, LeaveDone
  <1>9. ASSUME DisconnectPending(x) PROVE TypeOK'
    BY <1>9 DEF TypeOK, DisconnectPending
  <1> QED BY <1>1, <1>2, <1>3, <1>4, <1>5, <1>6, <1>7, <1>8, <1>9 DEF XsubStep

LEMMA PeersAfterType ==
  ASSUME TypeOK, NEW c \in Change, NEW x \in Xsub
  PROVE  PeersAfter(c, x) \subseteq Xsub
  BY DEF TypeOK, PeersAfter, Change

(* Whose changes a thread in "decide" replays. *)
LEMMA ReplayedPeer ==
  ASSUME TypeOK, Threads, Binding, NEW a \in Actor, pc[a] = "decide", todo[a] # {}
  PROVE  peer[a] \in Xsub /\ (a \in Xsub => peer[a] = a)
  <1>1. CASE a \in Xsub
    BY <1>1 DEF Threads, InCall
  <1>2. CASE a = Xpub
    BY <1>2, Actors DEF Binding, TypeOK
  <1> QED BY <1>1, <1>2 DEF Actor

LEMMA DecideType ==
  ASSUME TypeOK, Threads, Binding, NEW a \in Actor, Decide(a)
  PROVE  TypeOK'
  <1>1. PICK c \in todo[a] :
          /\ topics' = [topics EXCEPT ![c.topic] = PeersAfter(c, peer[a])]
          /\ lastPeer' = IF SetsLastPeer(c, peer[a]) THEN peer[a] ELSE lastPeer
          /\ todo' = [todo EXCEPT ![a] = @ \ {c}]
          /\ \/ pc' = [pc EXCEPT ![a] = "push"] /\ now' = [now EXCEPT ![a] = {c}]
             \/ UNCHANGED <<pc, now>>
    BY DEF Decide
  <1>2. c \in Change /\ todo[a] \in SUBSET Change
    BY DEF TypeOK
  <1>3. peer[a] \in Xsub
    BY ReplayedPeer DEF Decide
  <1>4. topics' \in [Topic -> SUBSET Xsub]
    BY <1>1, <1>2, <1>3, PeersAfterType DEF TypeOK, Change
  <1>5. todo' \in [Actor -> SUBSET Change]
    BY <1>1, <1>2 DEF TypeOK
  <1>6. /\ pc' \in [Actor -> {"idle", "pend", "lookup", "decide", "push", "unpend"}]
        /\ now' \in [Actor -> SUBSET Change]
    <2>1. pc' = [pc EXCEPT ![a] = "push"] \/ pc' = pc
      BY <1>1
    <2>2. now' = [now EXCEPT ![a] = {c}] \/ now' = now
      BY <1>1
    <2>3. {c} \in SUBSET Change
      BY <1>2
    <2>4. now' \in [Actor -> SUBSET Change]
      BY <2>2, <2>3 DEF TypeOK
    <2> QED BY <2>1, <2>4 DEF TypeOK
  <1>7. lastPeer' \in Xsub \cup {Nobody}
    <2>1. lastPeer' = peer[a] \/ lastPeer' = lastPeer
      BY <1>1
    <2> QED BY <1>3, <2>1 DEF TypeOK
  <1> QED BY <1>4, <1>5, <1>6, <1>7 DEF TypeOK, Decide, socketVars

LEMMA FrameType ==
  ASSUME NEW c \in Change
  PROVE  Frame(c) \in Note
  <1>1. c.topic \in Topic /\ (c.kind \in {"sub", "dup"}) \in BOOLEAN
    BY DEF Change
  <1> QED BY <1>1 DEF Frame, Note

LEMMA OtherType ==
  ASSUME TypeOK, (\E a \in Actor : Push(a)) \/ XpubStep
  PROVE  TypeOK'
  <1> USE Actors, EnterType, AllOfType DEF Return, Kind, socketVars, endpointVars, threadVars
  <1>1. ASSUME NEW a \in Actor, Push(a) PROVE TypeOK'
    <2>1. PICK c \in now[a] : inbox' = Append(inbox, Frame(c))
      BY <1>1 DEF Push
    <2>2. c \in Change
      BY <1>1 DEF TypeOK
    <2>3. Frame(c) \in Note
      BY <2>2, FrameType
    <2>4. inbox' \in Seq(Note)
      BY <2>1, <2>3 DEF TypeOK
    <2> QED BY <1>1, <2>4 DEF TypeOK, Push
  <1>2. ASSUME Bind PROVE TypeOK'
    BY <1>2 DEF TypeOK, Bind
  <1>3. ASSUME NEW x \in Xsub, BindAddPeer(x) PROVE TypeOK'
    BY <1>3 DEF TypeOK, BindAddPeer
  <1>4. ASSUME BindDone PROVE TypeOK'
    BY <1>4 DEF TypeOK, BindDone
  <1>5. ASSUME NEW t \in setup.topics, ManualSubscribe(t) \/ ManualUnsubscribe(t) PROVE TypeOK'
    <2>1. t \in Topic /\ lastPeer \in Xsub
      BY <1>5 DEF ManualSubscribe, ManualUnsubscribe, TypeOK
    <2>2. \E m \in SUBSET Xsub : manual' = [manual EXCEPT ![t] = m]
      <3>1. manual[t] \in SUBSET Xsub
        BY <2>1 DEF TypeOK
      <3>2. manual[t] \cup {lastPeer} \in SUBSET Xsub /\ manual[t] \ {lastPeer} \in SUBSET Xsub
        BY <2>1, <3>1
      <3> QED BY <1>5, <3>2 DEF ManualSubscribe, ManualUnsubscribe
    <2>3. manual' \in [Topic -> SUBSET Xsub]
      BY <2>2 DEF TypeOK
    <2> QED BY <1>5, <2>3 DEF TypeOK, ManualSubscribe, ManualUnsubscribe
  <1>6. ASSUME Publish PROVE TypeOK'
    BY <1>6 DEF TypeOK, Publish
  <1> QED BY <1>1, <1>2, <1>3, <1>4, <1>5, <1>6 DEF XpubStep

-----------------------------------------------------------------------------
(* What a thread knows after it entered a call. *)
LEMMA Entered ==
  ASSUME TypeOK, NEW a \in Actor, NEW p, NEW o, NEW x, NEW c, Enter(a, p, o, x, c)
  PROVE  /\ pc'[a] = p /\ op'[a] = o /\ peer'[a] = x /\ todo'[a] = c
         /\ \A b \in Actor : b # a =>
              pc'[b] = pc[b] /\ op'[b] = op[b] /\ peer'[b] = peer[b] /\ todo'[b] = todo[b]
  BY DEF TypeOK, Enter

(* A call of x that changes the count of t: the thread is on its way to the
   endpoint with the change, if there is one to report. *)
ChangeCalled(x, t) ==
  /\ pc[x] = "idle" /\ x \in setup.xsubs /\ t \in Topic
  /\ \A y \in Xsub, u \in Topic : y # x \/ u # t => subs'[y][u] = subs[y][u]
  /\ \/ pc'[x] = "idle" /\ op'[x] = "none" /\ todo'[x] = {}
     \/ pc'[x] \in {"lookup", "decide"} /\ op'[x] = "change" /\ peer'[x] = x /\ x \in connected
  /\ \A c \in todo'[x] :
       /\ c.topic = t
       /\ c.kind = "sub" => subs[x][t] = 0 /\ subs'[x][t] > 0
       /\ c.kind = "unsub" => subs[x][t] > 0 /\ subs'[x][t] = 0
       /\ c.kind = "unmatched" => setup.verboseUnsub
  /\ pc'[x] = "decide" => bound
  /\ x \in connected /\ subs[x][t] = 0 /\ subs'[x][t] > 0 =>
       [kind |-> "sub", topic |-> t] \in todo'[x]
  /\ x \in connected /\ subs[x][t] > 0 /\ subs'[x][t] = 0 =>
       [kind |-> "unsub", topic |-> t] \in todo'[x]
  /\ \A b \in Actor : b # x =>
       pc'[b] = pc[b] /\ op'[b] = op[b] /\ peer'[b] = peer[b] /\ todo'[b] = todo[b]
  /\ UNCHANGED <<setup, connected, waiting, endpointVars, mutex, now, taken>>

LEMMA ChangeCallEffect ==
  ASSUME TypeOK, NEW x \in setup.xsubs, NEW t \in setup.topics,
         \/ Subscribe(x, t) \/ Unsubscribe(x, t)
         \/ RawSubscribe(x, t) \/ RawUnsubscribe(x, t)
  PROVE  ChangeCalled(x, t)
  <1>1. x \in Xsub /\ t \in Topic /\ x \in Actor /\ subs[x][t] \in Nat
    BY Actors DEF TypeOK
  <1>2. pc[x] = "idle"
    BY DEF Subscribe, Unsubscribe, RawSubscribe, RawUnsubscribe, Ready
  <1>3. UNCHANGED <<setup, connected, waiting, endpointVars, mutex, now, taken>>
    BY DEF Subscribe, Unsubscribe, RawSubscribe, RawUnsubscribe, Tell
  <1>4. CASE Subscribe(x, t) \/ RawSubscribe(x, t)
    <2>1. subs' = [subs EXCEPT ![x][t] = subs[x][t] + 1]
      BY <1>1, <1>4 DEF Subscribe, RawSubscribe, Inserted, TypeOK
    <2>2. /\ subs'[x][t] = subs[x][t] + 1
          /\ \A y \in Xsub, u \in Topic : y # x \/ u # t => subs'[y][u] = subs[y][u]
      BY <1>1, <2>1 DEF TypeOK
    <2>3. CASE x \notin connected
      <3>1. Enter(x, "idle", "none", Nobody, {})
        BY <1>4, <2>3 DEF Subscribe, RawSubscribe, Tell, Return
      <3> QED BY <1>1, <1>2, <1>3, <2>2, <2>3, <3>1, Entered DEF ChangeCalled
    <2>4. CASE x \in connected
      <3>1. InsertChange(x, t) # {}
        BY DEF InsertChange
      <3>2. PICK p \in {"lookup", "decide"} :
              Enter(x, p, "change", x, InsertChange(x, t)) /\ (p = "decide" => bound)
        BY <1>4, <2>4, <3>1 DEF Subscribe, RawSubscribe, Tell
      <3> QED BY <1>1, <1>2, <1>3, <2>2, <2>4, <3>2, Entered DEF ChangeCalled, InsertChange
    <2> QED BY <2>3, <2>4
  <1>5. CASE Unsubscribe(x, t) \/ RawUnsubscribe(x, t)
    <2>1. subs' = [subs EXCEPT ![x][t] = IF subs[x][t] = 0 THEN 0 ELSE subs[x][t] - 1]
      BY <1>1, <1>5 DEF Unsubscribe, RawUnsubscribe, Removed, TypeOK
    <2>2. /\ subs'[x][t] = IF subs[x][t] = 0 THEN 0 ELSE subs[x][t] - 1
          /\ \A y \in Xsub, u \in Topic : y # x \/ u # t => subs'[y][u] = subs[y][u]
      BY <1>1, <2>1 DEF TypeOK
    <2>3. CASE x \notin connected
      <3>1. Enter(x, "idle", "none", Nobody, {})
        BY <1>5, <2>3 DEF Unsubscribe, RawUnsubscribe, Tell, Return
      <3> QED BY <1>1, <1>2, <1>3, <2>2, <2>3, <3>1, Entered DEF ChangeCalled
    <2>4. CASE x \in connected /\ RemoveChange(x, t) = {}
      <3>1. Enter(x, "idle", "none", Nobody, {})
        BY <1>5, <2>4 DEF Unsubscribe, RawUnsubscribe, Tell, Return
      <3>2. subs[x][t] # 1
        BY <2>4 DEF RemoveChange
      <3> QED BY <1>1, <1>2, <1>3, <2>2, <3>1, <3>2, Entered DEF ChangeCalled
    <2>5. CASE x \in connected /\ RemoveChange(x, t) # {}
      <3>1. PICK p \in {"lookup", "decide"} :
              Enter(x, p, "change", x, RemoveChange(x, t)) /\ (p = "decide" => bound)
        BY <1>5, <2>5 DEF Unsubscribe, RawUnsubscribe, Tell
      <3> QED BY <1>1, <1>2, <1>3, <2>2, <2>5, <3>1, Entered DEF ChangeCalled, RemoveChange
    <2> QED BY <2>3, <2>4, <2>5
  <1> QED BY <1>4, <1>5

LEMMA ChangeCallIInv ==
  ASSUME IInv, NEW x \in setup.xsubs, NEW t \in setup.topics,
         \/ Subscribe(x, t) \/ Unsubscribe(x, t)
         \/ RawSubscribe(x, t) \/ RawUnsubscribe(x, t)
  PROVE  IInv'
  <1>1. TypeOK /\ Threads /\ Replays /\ Binding /\ Listed /\ Arrives /\ Leaves /\ InMap
    BY DEF IInv
  <1>2. x \in Xsub /\ x \in Actor /\ Xpub \in Actor /\ x # Xpub /\ t \in Topic
        /\ \A y \in Xsub : y \in Actor
    BY <1>1, Actors
  <1>3. TypeOK'
    BY <1>1, <1>2, ChangeCallType
  <1>4. ChangeCalled(x, t)
    BY <1>1, ChangeCallEffect
  <1>5. todo[x] = {} /\ op[x] = "none" /\ pc[x] = "idle"
    BY <1>1, <1>2, <1>4 DEF Threads, InCall, ChangeCalled
  <1>6. Threads'
    BY <1>1, <1>2, <1>4 DEF Threads, InCall, ChangeCalled
  <1>7. Replays'
    <2>1. ASSUME NEW y \in Xsub, NEW c \in todo[y] PROVE c.topic \in Topic
      BY <1>1, <1>2 DEF TypeOK, Change
    <2>2. ASSUME NEW y \in Xsub, y # x, NEW c \in todo[y] PROVE subs'[y][c.topic] = subs[y][c.topic]
      BY <1>4, <2>1, <2>2 DEF ChangeCalled
    <2>3. UNCHANGED <<connected, mutex, bound, peers>>
      BY <1>4 DEF ChangeCalled, endpointVars
    <2>4. ASSUME NEW y \in Xsub, y # x
          PROVE  todo'[y] = todo[y] /\ op'[y] = op[y] /\ pc'[y] = pc[y]
      BY <1>2, <1>4, <2>4 DEF ChangeCalled
    <2>5. op'[x] \in {"none", "change"} /\ (op'[x] = "change" => x \in connected)
      BY <1>4 DEF ChangeCalled
    <2>6. ASSUME NEW c \in todo'[x]
          PROVE  /\ c.kind = "sub" => subs'[x][c.topic] > 0
                 /\ c.kind = "unsub" => subs'[x][c.topic] = 0
      BY <1>4 DEF ChangeCalled
    <2> QED BY <1>1, <2>2, <2>3, <2>4, <2>5, <2>6 DEF Replays
  <1>8. Binding'
    BY <1>1, <1>2, <1>4 DEF Binding, ChangeCalled, endpointVars
  <1>9. Listed'
    <2>1. \A y \in Xsub : (op[y] \in {"join", "leave"}) => op'[y] = op[y]
      BY <1>2, <1>4, <1>5 DEF ChangeCalled
    <2>2. UNCHANGED <<setup, connected, waiting, peers, taken>> /\ peer'[Xpub] = peer[Xpub]
      BY <1>2, <1>4 DEF ChangeCalled, endpointVars
    <2>3. peers \subseteq Xsub /\ connected \subseteq Xsub
      BY <1>1 DEF TypeOK
    <2> QED BY <1>1, <2>1, <2>2, <2>3 DEF Listed
  <1>10. UNCHANGED <<setup, connected, peers, topics>>
    BY <1>4 DEF ChangeCalled, endpointVars
  <1>11. peers \subseteq Xsub /\ \A y \in Xsub, u \in Topic : subs[y][u] \in Nat /\ subs'[y][u] \in Nat
    BY <1>1, <1>3 DEF TypeOK
  <1>12. peer'[Xpub] = peer[Xpub] /\ todo'[Xpub] = todo[Xpub]
    BY <1>2, <1>4 DEF ChangeCalled
  <1>13. ASSUME NEW y \in Xsub, y # x
         PROVE  todo'[y] = todo[y] /\ \A u \in Topic : subs'[y][u] = subs[y][u]
    BY <1>2, <1>4, <1>13 DEF ChangeCalled
  <1>14. ASSUME NEW u \in Topic, u # t
         PROVE  /\ subs'[x][u] = subs[x][u]
                /\ [kind |-> "sub", topic |-> u] \notin todo'[x]
                /\ [kind |-> "unsub", topic |-> u] \notin todo'[x]
    BY <1>2, <1>4, <1>14 DEF ChangeCalled
  <1>15. /\ [kind |-> "sub", topic |-> t] \in todo'[x] => subs[x][t] = 0 /\ subs'[x][t] > 0
         /\ [kind |-> "unsub", topic |-> t] \in todo'[x] => subs[x][t] > 0 /\ subs'[x][t] = 0
         /\ x \in connected /\ subs[x][t] = 0 /\ subs'[x][t] > 0 =>
              [kind |-> "sub", topic |-> t] \in todo'[x]
         /\ x \in connected /\ subs[x][t] > 0 /\ subs'[x][t] = 0 =>
              [kind |-> "unsub", topic |-> t] \in todo'[x]
         /\ todo'[x] # {} => x \in connected
    BY <1>2, <1>4 DEF ChangeCalled
  <1>16. x \in peers => x \in connected
    BY <1>1, <1>5 DEF Listed
  <1>17. setup.bindFirst /\ x \in connected => x \in peers /\ peer[Xpub] = Nobody /\ x # Nobody
    BY <1>1, <1>2, <1>5, Actors DEF Listed
  <1>18. Arrives'
    <2>1. ASSUME NEW y \in peers, NEW u \in Topic, subs'[y][u] > 0, y # x \/ u # t
          PROVE  \/ y \in topics[u]
                 \/ [kind |-> "sub", topic |-> u] \in todo'[y]
                 \/ peer[Xpub] = y /\ [kind |-> "sub", topic |-> u] \in todo[Xpub]
      BY <1>1, <1>5, <1>11, <1>13, <1>14, <2>1 DEF Arrives
    <2>2. ASSUME x \in peers, subs'[x][t] > 0
          PROVE  \/ x \in topics[t]
                 \/ [kind |-> "sub", topic |-> t] \in todo'[x]
                 \/ peer[Xpub] = x /\ [kind |-> "sub", topic |-> t] \in todo[Xpub]
      <3>1. CASE subs[x][t] = 0
        BY <1>15, <1>16, <2>2, <3>1
      <3>2. CASE subs[x][t] > 0
        BY <1>1, <1>2, <1>5, <2>2, <3>2 DEF Arrives
      <3> QED BY <1>2, <1>11, <3>1, <3>2
    <2> QED BY <1>10, <1>12, <2>1, <2>2 DEF Arrives
  <1>19. Leaves'
    <2> SUFFICES ASSUME setup.bindFirst, NEW y \in Xsub, NEW u \in Topic
                 PROVE  /\ y \in topics[u] =>
                             \/ y \in peers /\ subs'[y][u] > 0
                             \/ [kind |-> "unsub", topic |-> u] \in todo'[y]
                        /\ [kind |-> "sub", topic |-> u] \in todo'[y] => y \notin topics[u]
                        /\ [kind |-> "unsub", topic |-> u] \in todo'[y] => y \in topics[u]
      BY <1>10 DEF Leaves
    <2>1. CASE y # x
      BY <1>1, <1>13, <2>1 DEF Leaves
    <2>2. CASE y = x /\ u # t
      BY <1>1, <1>5, <1>14, <2>2 DEF Leaves
    <2>3. CASE y = x /\ u = t
      <3>1. x \in topics[t] => x \in peers /\ subs[x][t] > 0
        BY <1>1, <1>2, <1>5 DEF Leaves
      <3>2. x \in connected /\ subs[x][t] > 0 => x \in topics[t]
        BY <1>1, <1>2, <1>5, <1>17 DEF Arrives
      <3>3. subs[x][t] \in Nat /\ subs'[x][t] \in Nat
        BY <1>2, <1>11
      <3> QED BY <1>15, <1>16, <2>3, <3>1, <3>2, <3>3
    <2> QED BY <2>1, <2>2, <2>3
  <1>20. InMap'
    BY <1>1, <1>10 DEF InMap
  <1> QED BY <1>3, <1>6, <1>7, <1>8, <1>9, <1>18, <1>19, <1>20 DEF IInv

(* What a socket leaves behind depends on its own thread only. *)
LEMMA LeavesKept ==
  ASSUME TypeOK, Leaves, NEW x \in Xsub, UNCHANGED <<setup, topics, subs>>,
         \A y \in Xsub : y # x => todo'[y] = todo[y] /\ (y \in peers => y \in peers'),
         setup.bindFirst => \A t \in Topic :
           /\ x \in topics[t] =>
                \/ x \in peers' /\ subs[x][t] > 0
                \/ [kind |-> "unsub", topic |-> t] \in todo'[x]
           /\ [kind |-> "sub", topic |-> t] \in todo'[x] => x \notin topics[t]
           /\ [kind |-> "unsub", topic |-> t] \in todo'[x] => x \in topics[t]
  PROVE  Leaves'
  <1> SUFFICES ASSUME setup.bindFirst, NEW y \in Xsub, NEW u \in Topic
               PROVE  /\ y \in topics[u] =>
                           \/ y \in peers' /\ subs[y][u] > 0
                           \/ [kind |-> "unsub", topic |-> u] \in todo'[y]
                      /\ [kind |-> "sub", topic |-> u] \in todo'[y] => y \notin topics[u]
                      /\ [kind |-> "unsub", topic |-> u] \in todo'[y] => y \in topics[u]
    BY DEF Leaves
  <1>1. CASE y # x
    BY <1>1 DEF Leaves
  <1>2. CASE y = x
    BY <1>2
  <1> QED BY <1>1, <1>2

LEMMA ConnectIInv ==
  ASSUME IInv, NEW x \in setup.xsubs, Connect(x)
  PROVE  IInv'
  <1> USE Actors, Entered DEF Connect, Return, Ready, socketVars, endpointVars, Held, AllOf
  <1>1. TypeOK /\ Threads /\ Replays /\ Binding /\ Listed /\ Arrives /\ Leaves /\ InMap
    BY DEF IInv
  <1>2. /\ x \in Xsub /\ x \in Actor /\ Xpub \in Actor /\ x # Xpub /\ x # Nobody /\ Xpub # Nobody
        /\ \A y \in Xsub : y \in Actor /\ y # Xpub
        /\ peers \subseteq Xsub /\ connected \subseteq Xsub /\ waiting \subseteq Xsub
        /\ taken \subseteq Xsub
    BY <1>1 DEF TypeOK
  <1>3. TypeOK'
    BY <1>1, <1>2, XsubStepType DEF XsubStep
  <1>4. Threads'
    BY <1>1, <1>2 DEF Threads, InCall, Listed, Replays
  <1>5. Replays'
    BY <1>1, <1>2 DEF Threads, InCall, Replays, Binding, Listed
  <1>6. Binding'
    BY <1>1, <1>2 DEF Binding, Replays
  <1>7. Listed'
    BY <1>1, <1>2 DEF Listed, Threads, InCall, Replays, Binding
  <1>8. Arrives'
    BY <1>1, <1>2 DEF Arrives, Threads, InCall, Replays, Binding
  <1>9. Leaves'
    <2>1. UNCHANGED <<setup, topics, subs>>
      OBVIOUS
    <2>2. \A y \in Xsub : y # x => todo'[y] = todo[y] /\ (y \in peers => y \in peers')
      BY <1>1, <1>2
    <2>3. ASSUME setup.bindFirst, NEW t \in Topic
          PROVE  /\ x \in topics[t] =>
                      \/ x \in peers' /\ subs[x][t] > 0
                      \/ [kind |-> "unsub", topic |-> t] \in todo'[x]
                 /\ [kind |-> "sub", topic |-> t] \in todo'[x] => x \notin topics[t]
                 /\ [kind |-> "unsub", topic |-> t] \in todo'[x] => x \in topics[t]
      <3>1. /\ x \in topics[t] =>
                 \/ x \in peers /\ subs[x][t] > 0
                 \/ [kind |-> "unsub", topic |-> t] \in todo[x]
            /\ [kind |-> "sub", topic |-> t] \in todo[x] => x \notin topics[t]
            /\ [kind |-> "unsub", topic |-> t] \in todo[x] => x \in topics[t]
        BY <1>1, <1>2, <2>3 DEF Leaves
      <3> QED BY <1>1, <1>2, <2>3, <3>1 DEF Arrives, Threads, InCall, Listed, Replays, Binding
    <2> QED BY <1>1, <1>2, <2>1, <2>2, <2>3, LeavesKept
  <1>10. InMap'
    BY <1>1 DEF InMap
  <1> QED BY <1>3, <1>4, <1>5, <1>6, <1>7, <1>8, <1>9, <1>10 DEF IInv

LEMMA ConnectMissedIInv ==
  ASSUME IInv, NEW x \in setup.xsubs, ConnectMissed(x)
  PROVE  IInv'
  <1> USE Actors, Entered DEF ConnectMissed, Return, Ready, socketVars, endpointVars, Held, AllOf
  <1>1. TypeOK /\ Threads /\ Replays /\ Binding /\ Listed /\ Arrives /\ Leaves /\ InMap
    BY DEF IInv
  <1>2. /\ x \in Xsub /\ x \in Actor /\ Xpub \in Actor /\ x # Xpub /\ x # Nobody /\ Xpub # Nobody
        /\ \A y \in Xsub : y \in Actor /\ y # Xpub
        /\ peers \subseteq Xsub /\ connected \subseteq Xsub /\ waiting \subseteq Xsub
        /\ taken \subseteq Xsub
    BY <1>1 DEF TypeOK
  <1>3. TypeOK'
    BY <1>1, <1>2, XsubStepType DEF XsubStep
  <1>4. Threads'
    BY <1>1, <1>2 DEF Threads, InCall, Listed, Replays
  <1>5. Replays'
    BY <1>1, <1>2 DEF Threads, InCall, Replays, Binding, Listed
  <1>6. Binding'
    BY <1>1, <1>2 DEF Binding, Replays
  <1>7. Listed'
    BY <1>1, <1>2 DEF Listed, Threads, InCall, Replays, Binding
  <1>8. Arrives'
    BY <1>1, <1>2 DEF Arrives, Threads, InCall, Replays, Binding
  <1>9. Leaves'
    <2>1. UNCHANGED <<setup, topics, subs>>
      OBVIOUS
    <2>2. \A y \in Xsub : y # x => todo'[y] = todo[y] /\ (y \in peers => y \in peers')
      BY <1>1, <1>2
    <2>3. ASSUME setup.bindFirst, NEW t \in Topic
          PROVE  /\ x \in topics[t] =>
                      \/ x \in peers' /\ subs[x][t] > 0
                      \/ [kind |-> "unsub", topic |-> t] \in todo'[x]
                 /\ [kind |-> "sub", topic |-> t] \in todo'[x] => x \notin topics[t]
                 /\ [kind |-> "unsub", topic |-> t] \in todo'[x] => x \in topics[t]
      <3>1. /\ x \in topics[t] =>
                 \/ x \in peers /\ subs[x][t] > 0
                 \/ [kind |-> "unsub", topic |-> t] \in todo[x]
            /\ [kind |-> "sub", topic |-> t] \in todo[x] => x \notin topics[t]
            /\ [kind |-> "unsub", topic |-> t] \in todo[x] => x \in topics[t]
        BY <1>1, <1>2, <2>3 DEF Leaves
      <3> QED BY <1>1, <1>2, <2>3, <3>1 DEF Arrives, Threads, InCall, Listed, Replays, Binding
    <2> QED BY <1>1, <1>2, <2>1, <2>2, <2>3, LeavesKept
  <1>10. InMap'
    BY <1>1 DEF InMap
  <1> QED BY <1>3, <1>4, <1>5, <1>6, <1>7, <1>8, <1>9, <1>10 DEF IInv

LEMMA LookupIInv ==
  ASSUME IInv, NEW x \in setup.xsubs, Lookup(x)
  PROVE  IInv'
  <1> USE Actors, Entered DEF Lookup, Return, Ready, socketVars, endpointVars, Held, AllOf
  <1>1. TypeOK /\ Threads /\ Replays /\ Binding /\ Listed /\ Arrives /\ Leaves /\ InMap
    BY DEF IInv
  <1>2. /\ x \in Xsub /\ x \in Actor /\ Xpub \in Actor /\ x # Xpub /\ x # Nobody /\ Xpub # Nobody
        /\ \A y \in Xsub : y \in Actor /\ y # Xpub
        /\ peers \subseteq Xsub /\ connected \subseteq Xsub /\ waiting \subseteq Xsub
        /\ taken \subseteq Xsub
    BY <1>1 DEF TypeOK
  <1>3. TypeOK'
    BY <1>1, <1>2, XsubStepType DEF XsubStep
  <1>4. Threads'
    BY <1>1, <1>2 DEF Threads, InCall, Listed, Replays
  <1>5. Replays'
    BY <1>1, <1>2 DEF Threads, InCall, Replays, Binding, Listed
  <1>6. Binding'
    BY <1>1, <1>2 DEF Binding, Replays
  <1>7. Listed'
    BY <1>1, <1>2 DEF Listed, Threads, InCall, Replays, Binding
  <1>8. Arrives'
    BY <1>1, <1>2 DEF Arrives, Threads, InCall, Replays, Binding
  <1>9. Leaves'
    <2>1. UNCHANGED <<setup, topics, subs>>
      OBVIOUS
    <2>2. \A y \in Xsub : y # x => todo'[y] = todo[y] /\ (y \in peers => y \in peers')
      BY <1>1, <1>2
    <2>3. ASSUME setup.bindFirst, NEW t \in Topic
          PROVE  /\ x \in topics[t] =>
                      \/ x \in peers' /\ subs[x][t] > 0
                      \/ [kind |-> "unsub", topic |-> t] \in todo'[x]
                 /\ [kind |-> "sub", topic |-> t] \in todo'[x] => x \notin topics[t]
                 /\ [kind |-> "unsub", topic |-> t] \in todo'[x] => x \in topics[t]
      <3>1. /\ x \in topics[t] =>
                 \/ x \in peers /\ subs[x][t] > 0
                 \/ [kind |-> "unsub", topic |-> t] \in todo[x]
            /\ [kind |-> "sub", topic |-> t] \in todo[x] => x \notin topics[t]
            /\ [kind |-> "unsub", topic |-> t] \in todo[x] => x \in topics[t]
        BY <1>1, <1>2, <2>3 DEF Leaves
      <3> QED BY <1>1, <1>2, <2>3, <3>1 DEF Arrives, Threads, InCall, Listed, Replays, Binding
    <2> QED BY <1>1, <1>2, <2>1, <2>2, <2>3, LeavesKept
  <1>10. InMap'
    BY <1>1 DEF InMap
  <1> QED BY <1>3, <1>4, <1>5, <1>6, <1>7, <1>8, <1>9, <1>10 DEF IInv

LEMMA ChangeDoneIInv ==
  ASSUME IInv, NEW x \in setup.xsubs, ChangeDone(x)
  PROVE  IInv'
  <1> USE Actors, Entered DEF ChangeDone, Return, Ready, socketVars, endpointVars, Held, AllOf
  <1>1. TypeOK /\ Threads /\ Replays /\ Binding /\ Listed /\ Arrives /\ Leaves /\ InMap
    BY DEF IInv
  <1>2. /\ x \in Xsub /\ x \in Actor /\ Xpub \in Actor /\ x # Xpub /\ x # Nobody /\ Xpub # Nobody
        /\ \A y \in Xsub : y \in Actor /\ y # Xpub
        /\ peers \subseteq Xsub /\ connected \subseteq Xsub /\ waiting \subseteq Xsub
        /\ taken \subseteq Xsub
    BY <1>1 DEF TypeOK
  <1>3. TypeOK'
    BY <1>1, <1>2, XsubStepType DEF XsubStep
  <1>4. Threads'
    BY <1>1, <1>2 DEF Threads, InCall, Listed, Replays
  <1>5. Replays'
    BY <1>1, <1>2 DEF Threads, InCall, Replays, Binding, Listed
  <1>6. Binding'
    BY <1>1, <1>2 DEF Binding, Replays
  <1>7. Listed'
    BY <1>1, <1>2 DEF Listed, Threads, InCall, Replays, Binding
  <1>8. Arrives'
    BY <1>1, <1>2 DEF Arrives, Threads, InCall, Replays, Binding
  <1>9. Leaves'
    <2>1. UNCHANGED <<setup, topics, subs>>
      OBVIOUS
    <2>2. \A y \in Xsub : y # x => todo'[y] = todo[y] /\ (y \in peers => y \in peers')
      BY <1>1, <1>2
    <2>3. ASSUME setup.bindFirst, NEW t \in Topic
          PROVE  /\ x \in topics[t] =>
                      \/ x \in peers' /\ subs[x][t] > 0
                      \/ [kind |-> "unsub", topic |-> t] \in todo'[x]
                 /\ [kind |-> "sub", topic |-> t] \in todo'[x] => x \notin topics[t]
                 /\ [kind |-> "unsub", topic |-> t] \in todo'[x] => x \in topics[t]
      <3>1. /\ x \in topics[t] =>
                 \/ x \in peers /\ subs[x][t] > 0
                 \/ [kind |-> "unsub", topic |-> t] \in todo[x]
            /\ [kind |-> "sub", topic |-> t] \in todo[x] => x \notin topics[t]
            /\ [kind |-> "unsub", topic |-> t] \in todo[x] => x \in topics[t]
        BY <1>1, <1>2, <2>3 DEF Leaves
      <3> QED BY <1>1, <1>2, <2>3, <3>1 DEF Arrives, Threads, InCall, Listed, Replays, Binding
    <2> QED BY <1>1, <1>2, <2>1, <2>2, <2>3, LeavesKept
  <1>10. InMap'
    BY <1>1 DEF InMap
  <1> QED BY <1>3, <1>4, <1>5, <1>6, <1>7, <1>8, <1>9, <1>10 DEF IInv

LEMMA JoinDoneIInv ==
  ASSUME IInv, NEW x \in setup.xsubs, JoinDone(x)
  PROVE  IInv'
  <1> USE Actors, Entered DEF JoinDone, Return, Ready, socketVars, endpointVars, Held, AllOf
  <1>1. TypeOK /\ Threads /\ Replays /\ Binding /\ Listed /\ Arrives /\ Leaves /\ InMap
    BY DEF IInv
  <1>2. /\ x \in Xsub /\ x \in Actor /\ Xpub \in Actor /\ x # Xpub /\ x # Nobody /\ Xpub # Nobody
        /\ \A y \in Xsub : y \in Actor /\ y # Xpub
        /\ peers \subseteq Xsub /\ connected \subseteq Xsub /\ waiting \subseteq Xsub
        /\ taken \subseteq Xsub
    BY <1>1 DEF TypeOK
  <1>3. TypeOK'
    BY <1>1, <1>2, XsubStepType DEF XsubStep
  <1>4. Threads'
    BY <1>1, <1>2 DEF Threads, InCall, Listed, Replays
  <1>5. Replays'
    BY <1>1, <1>2 DEF Threads, InCall, Replays, Binding, Listed
  <1>6. Binding'
    BY <1>1, <1>2 DEF Binding, Replays
  <1>7. Listed'
    BY <1>1, <1>2 DEF Listed, Threads, InCall, Replays, Binding
  <1>8. Arrives'
    BY <1>1, <1>2 DEF Arrives, Threads, InCall, Replays, Binding
  <1>9. Leaves'
    <2>1. UNCHANGED <<setup, topics, subs>>
      OBVIOUS
    <2>2. \A y \in Xsub : y # x => todo'[y] = todo[y] /\ (y \in peers => y \in peers')
      BY <1>1, <1>2
    <2>3. ASSUME setup.bindFirst, NEW t \in Topic
          PROVE  /\ x \in topics[t] =>
                      \/ x \in peers' /\ subs[x][t] > 0
                      \/ [kind |-> "unsub", topic |-> t] \in todo'[x]
                 /\ [kind |-> "sub", topic |-> t] \in todo'[x] => x \notin topics[t]
                 /\ [kind |-> "unsub", topic |-> t] \in todo'[x] => x \in topics[t]
      <3>1. /\ x \in topics[t] =>
                 \/ x \in peers /\ subs[x][t] > 0
                 \/ [kind |-> "unsub", topic |-> t] \in todo[x]
            /\ [kind |-> "sub", topic |-> t] \in todo[x] => x \notin topics[t]
            /\ [kind |-> "unsub", topic |-> t] \in todo[x] => x \in topics[t]
        BY <1>1, <1>2, <2>3 DEF Leaves
      <3> QED BY <1>1, <1>2, <2>3, <3>1 DEF Arrives, Threads, InCall, Listed, Replays, Binding
    <2> QED BY <1>1, <1>2, <2>1, <2>2, <2>3, LeavesKept
  <1>10. InMap'
    BY <1>1 DEF InMap
  <1> QED BY <1>3, <1>4, <1>5, <1>6, <1>7, <1>8, <1>9, <1>10 DEF IInv

LEMMA ConnectPendIInv ==
  ASSUME IInv, NEW x \in setup.xsubs, ConnectPend(x)
  PROVE  IInv'
  <1> USE Actors, Entered DEF ConnectPend, Return, Ready, socketVars, endpointVars, Held, AllOf
  <1>1. TypeOK /\ Threads /\ Replays /\ Binding /\ Listed /\ Arrives /\ Leaves /\ InMap
    BY DEF IInv
  <1>2. /\ x \in Xsub /\ x \in Actor /\ Xpub \in Actor /\ x # Xpub /\ x # Nobody /\ Xpub # Nobody
        /\ \A y \in Xsub : y \in Actor /\ y # Xpub
        /\ peers \subseteq Xsub /\ connected \subseteq Xsub /\ waiting \subseteq Xsub
        /\ taken \subseteq Xsub
    BY <1>1 DEF TypeOK
  <1>3. TypeOK'
    BY <1>1, <1>2, XsubStepType DEF XsubStep
  <1>4. Threads'
    BY <1>1, <1>2 DEF Threads, InCall, Listed, Replays
  <1>5. Replays'
    BY <1>1, <1>2 DEF Threads, InCall, Replays, Binding, Listed
  <1>6. Binding'
    BY <1>1, <1>2 DEF Binding, Replays
  <1>7. Listed'
    BY <1>1, <1>2 DEF Listed, Threads, InCall, Replays, Binding
  <1>8. Arrives'
    BY <1>1, <1>2 DEF Arrives, Threads, InCall, Replays, Binding
  <1>9. Leaves'
    <2>1. UNCHANGED <<setup, topics, subs>>
      OBVIOUS
    <2>2. \A y \in Xsub : y # x => todo'[y] = todo[y] /\ (y \in peers => y \in peers')
      BY <1>1, <1>2
    <2>3. ASSUME setup.bindFirst, NEW t \in Topic
          PROVE  /\ x \in topics[t] =>
                      \/ x \in peers' /\ subs[x][t] > 0
                      \/ [kind |-> "unsub", topic |-> t] \in todo'[x]
                 /\ [kind |-> "sub", topic |-> t] \in todo'[x] => x \notin topics[t]
                 /\ [kind |-> "unsub", topic |-> t] \in todo'[x] => x \in topics[t]
      <3>1. /\ x \in topics[t] =>
                 \/ x \in peers /\ subs[x][t] > 0
                 \/ [kind |-> "unsub", topic |-> t] \in todo[x]
            /\ [kind |-> "sub", topic |-> t] \in todo[x] => x \notin topics[t]
            /\ [kind |-> "unsub", topic |-> t] \in todo[x] => x \in topics[t]
        BY <1>1, <1>2, <2>3 DEF Leaves
      <3> QED BY <1>1, <1>2, <2>3, <3>1 DEF Arrives, Threads, InCall, Listed, Replays, Binding
    <2> QED BY <1>1, <1>2, <2>1, <2>2, <2>3, LeavesKept
  <1>10. InMap'
    BY <1>1 DEF InMap
  <1> QED BY <1>3, <1>4, <1>5, <1>6, <1>7, <1>8, <1>9, <1>10 DEF IInv

LEMMA LeaveDoneIInv ==
  ASSUME IInv, NEW x \in setup.xsubs, LeaveDone(x)
  PROVE  IInv'
  <1> USE Actors, Entered DEF LeaveDone, Return, Ready, socketVars, endpointVars, Held, AllOf
  <1>1. TypeOK /\ Threads /\ Replays /\ Binding /\ Listed /\ Arrives /\ Leaves /\ InMap
    BY DEF IInv
  <1>2. /\ x \in Xsub /\ x \in Actor /\ Xpub \in Actor /\ x # Xpub /\ x # Nobody /\ Xpub # Nobody
        /\ \A y \in Xsub : y \in Actor /\ y # Xpub
        /\ peers \subseteq Xsub /\ connected \subseteq Xsub /\ waiting \subseteq Xsub
        /\ taken \subseteq Xsub
    BY <1>1 DEF TypeOK
  <1>3. TypeOK'
    BY <1>1, <1>2, XsubStepType DEF XsubStep
  <1>4. Threads'
    BY <1>1, <1>2 DEF Threads, InCall, Listed, Replays
  <1>5. Replays'
    BY <1>1, <1>2 DEF Threads, InCall, Replays, Binding, Listed
  <1>6. Binding'
    BY <1>1, <1>2 DEF Binding, Replays
  <1>7. Listed'
    BY <1>1, <1>2 DEF Listed, Threads, InCall, Replays, Binding
  <1>8. Arrives'
    BY <1>1, <1>2 DEF Arrives, Threads, InCall, Replays, Binding
  <1>9. Leaves'
    <2>1. UNCHANGED <<setup, topics, subs>>
      OBVIOUS
    <2>2. \A y \in Xsub : y # x => todo'[y] = todo[y] /\ (y \in peers => y \in peers')
      BY <1>1, <1>2
    <2>3. ASSUME setup.bindFirst, NEW t \in Topic
          PROVE  /\ x \in topics[t] =>
                      \/ x \in peers' /\ subs[x][t] > 0
                      \/ [kind |-> "unsub", topic |-> t] \in todo'[x]
                 /\ [kind |-> "sub", topic |-> t] \in todo'[x] => x \notin topics[t]
                 /\ [kind |-> "unsub", topic |-> t] \in todo'[x] => x \in topics[t]
      <3>1. /\ x \in topics[t] =>
                 \/ x \in peers /\ subs[x][t] > 0
                 \/ [kind |-> "unsub", topic |-> t] \in todo[x]
            /\ [kind |-> "sub", topic |-> t] \in todo[x] => x \notin topics[t]
            /\ [kind |-> "unsub", topic |-> t] \in todo[x] => x \in topics[t]
        BY <1>1, <1>2, <2>3 DEF Leaves
      <3> QED BY <1>1, <1>2, <2>3, <3>1 DEF Arrives, Threads, InCall, Listed, Replays, Binding
    <2> QED BY <1>1, <1>2, <2>1, <2>2, <2>3, LeavesKept
  <1>10. InMap'
    BY <1>1 DEF InMap
  <1> QED BY <1>3, <1>4, <1>5, <1>6, <1>7, <1>8, <1>9, <1>10 DEF IInv

LEMMA DisconnectPendingIInv ==
  ASSUME IInv, NEW x \in setup.xsubs, DisconnectPending(x)
  PROVE  IInv'
  <1> USE Actors, Entered DEF DisconnectPending, Return, Ready, socketVars, endpointVars, Held, AllOf
  <1>1. TypeOK /\ Threads /\ Replays /\ Binding /\ Listed /\ Arrives /\ Leaves /\ InMap
    BY DEF IInv
  <1>2. /\ x \in Xsub /\ x \in Actor /\ Xpub \in Actor /\ x # Xpub /\ x # Nobody /\ Xpub # Nobody
        /\ \A y \in Xsub : y \in Actor /\ y # Xpub
        /\ peers \subseteq Xsub /\ connected \subseteq Xsub /\ waiting \subseteq Xsub
        /\ taken \subseteq Xsub
    BY <1>1 DEF TypeOK
  <1>3. TypeOK'
    BY <1>1, <1>2, XsubStepType DEF XsubStep
  <1>4. Threads'
    BY <1>1, <1>2 DEF Threads, InCall, Listed, Replays
  <1>5. Replays'
    BY <1>1, <1>2 DEF Threads, InCall, Replays, Binding, Listed
  <1>6. Binding'
    BY <1>1, <1>2 DEF Binding, Replays
  <1>7. Listed'
    BY <1>1, <1>2 DEF Listed, Threads, InCall, Replays, Binding
  <1>8. Arrives'
    BY <1>1, <1>2 DEF Arrives, Threads, InCall, Replays, Binding
  <1>9. Leaves'
    <2>1. UNCHANGED <<setup, topics, subs>>
      OBVIOUS
    <2>2. \A y \in Xsub : y # x => todo'[y] = todo[y] /\ (y \in peers => y \in peers')
      BY <1>1, <1>2
    <2>3. ASSUME setup.bindFirst, NEW t \in Topic
          PROVE  /\ x \in topics[t] =>
                      \/ x \in peers' /\ subs[x][t] > 0
                      \/ [kind |-> "unsub", topic |-> t] \in todo'[x]
                 /\ [kind |-> "sub", topic |-> t] \in todo'[x] => x \notin topics[t]
                 /\ [kind |-> "unsub", topic |-> t] \in todo'[x] => x \in topics[t]
      <3>1. /\ x \in topics[t] =>
                 \/ x \in peers /\ subs[x][t] > 0
                 \/ [kind |-> "unsub", topic |-> t] \in todo[x]
            /\ [kind |-> "sub", topic |-> t] \in todo[x] => x \notin topics[t]
            /\ [kind |-> "unsub", topic |-> t] \in todo[x] => x \in topics[t]
        BY <1>1, <1>2, <2>3 DEF Leaves
      <3> QED BY <1>1, <1>2, <2>3, <3>1 DEF Arrives, Threads, InCall, Listed, Replays, Binding
    <2> QED BY <1>1, <1>2, <2>1, <2>2, <2>3, LeavesKept
  <1>10. InMap'
    BY <1>1 DEF InMap
  <1> QED BY <1>3, <1>4, <1>5, <1>6, <1>7, <1>8, <1>9, <1>10 DEF IInv

LEMMA DisconnectIInv ==
  ASSUME IInv, NEW x \in setup.xsubs, Disconnect(x)
  PROVE  IInv'
  <1> USE Actors, Entered DEF Disconnect, Return, Ready, socketVars, endpointVars, Held, AllOf
  <1>1. TypeOK /\ Threads /\ Replays /\ Binding /\ Listed /\ Arrives /\ Leaves /\ InMap
    BY DEF IInv
  <1>2. /\ x \in Xsub /\ x \in Actor /\ Xpub \in Actor /\ x # Xpub /\ x # Nobody /\ Xpub # Nobody
        /\ \A y \in Xsub : y \in Actor /\ y # Xpub
        /\ peers \subseteq Xsub /\ connected \subseteq Xsub /\ waiting \subseteq Xsub
        /\ taken \subseteq Xsub
    BY <1>1 DEF TypeOK
  <1>3. TypeOK'
    BY <1>1, <1>2, XsubStepType DEF XsubStep
  <1>4. Threads'
    BY <1>1, <1>2 DEF Threads, InCall, Listed, Replays
  <1>5. Replays'
    BY <1>1, <1>2 DEF Threads, InCall, Replays, Binding, Listed
  <1>6. Binding'
    BY <1>1, <1>2 DEF Binding, Replays
  <1>7. Listed'
    BY <1>1, <1>2 DEF Listed, Threads, InCall, Replays, Binding
  <1>8. Arrives'
    BY <1>1, <1>2 DEF Arrives, Threads, InCall, Replays, Binding
  <1>9. Leaves'
    <2>1. UNCHANGED <<setup, topics, subs>>
      OBVIOUS
    <2>2. \A y \in Xsub : y # x => todo'[y] = todo[y] /\ (y \in peers => y \in peers')
      BY <1>1, <1>2
    <2>3. ASSUME setup.bindFirst, NEW t \in Topic
          PROVE  /\ x \in topics[t] =>
                      \/ x \in peers' /\ subs[x][t] > 0
                      \/ [kind |-> "unsub", topic |-> t] \in todo'[x]
                 /\ [kind |-> "sub", topic |-> t] \in todo'[x] => x \notin topics[t]
                 /\ [kind |-> "unsub", topic |-> t] \in todo'[x] => x \in topics[t]
      <3>1. /\ x \in topics[t] =>
                 \/ x \in peers /\ subs[x][t] > 0
                 \/ [kind |-> "unsub", topic |-> t] \in todo[x]
            /\ [kind |-> "sub", topic |-> t] \in todo[x] => x \notin topics[t]
            /\ [kind |-> "unsub", topic |-> t] \in todo[x] => x \in topics[t]
        BY <1>1, <1>2, <2>3 DEF Leaves
      <3> QED BY <1>1, <1>2, <2>3, <3>1 DEF Arrives, Threads, InCall, Listed, Replays, Binding
    <2> QED BY <1>1, <1>2, <2>1, <2>2, <2>3, LeavesKept
  <1>10. InMap'
    BY <1>1 DEF InMap
  <1> QED BY <1>3, <1>4, <1>5, <1>6, <1>7, <1>8, <1>9, <1>10 DEF IInv

LEMMA PushIInv ==
  ASSUME IInv, NEW a \in Actor, Push(a)
  PROVE  IInv'
  <1> USE Actors, Entered DEF Push, Return, socketVars, endpointVars, AllOf, Held
  <1>1. TypeOK /\ Threads /\ Replays /\ Binding /\ Listed /\ Arrives /\ Leaves /\ InMap
    BY DEF IInv
  <1>2. /\ Xpub \in Actor /\ Xpub # Nobody
        /\ \A y \in Xsub : y \in Actor /\ y # Xpub /\ y # Nobody
        /\ peers \subseteq Xsub /\ connected \subseteq Xsub /\ waiting \subseteq Xsub
        /\ taken \subseteq Xsub
    BY <1>1 DEF TypeOK
  <1>3. TypeOK'
    BY <1>1, OtherType DEF XpubStep
  <1>4. Threads'
    BY <1>1, <1>2 DEF Threads, InCall, Listed, Replays
  <1>5. Replays'
    BY <1>1, <1>2 DEF Threads, InCall, Replays, Binding, Listed
  <1>6. Binding'
    BY <1>1, <1>2 DEF Binding, Replays
  <1>7. Listed'
    BY <1>1, <1>2 DEF Listed, Threads, InCall, Replays, Binding
  <1>8. Arrives'
    BY <1>1, <1>2 DEF Arrives, Threads, InCall, Replays, Binding
  <1>9. Leaves'
    BY <1>1, <1>2 DEF Leaves, Listed
  <1>10. InMap'
    BY <1>1 DEF InMap
  <1> QED BY <1>3, <1>4, <1>5, <1>6, <1>7, <1>8, <1>9, <1>10 DEF IInv

LEMMA BindIInv ==
  ASSUME IInv, Bind
  PROVE  IInv'
  <1> USE Actors, Entered DEF Bind, Return, socketVars, endpointVars, AllOf, Held
  <1>1. TypeOK /\ Threads /\ Replays /\ Binding /\ Listed /\ Arrives /\ Leaves /\ InMap
    BY DEF IInv
  <1>2. /\ Xpub \in Actor /\ Xpub # Nobody
        /\ \A y \in Xsub : y \in Actor /\ y # Xpub /\ y # Nobody
        /\ peers \subseteq Xsub /\ connected \subseteq Xsub /\ waiting \subseteq Xsub
        /\ taken \subseteq Xsub
    BY <1>1 DEF TypeOK
  <1>3. TypeOK'
    BY <1>1, OtherType DEF XpubStep
  <1>4. Threads'
    BY <1>1, <1>2 DEF Threads, InCall, Listed, Replays
  <1>5. Replays'
    BY <1>1, <1>2 DEF Threads, InCall, Replays, Binding, Listed
  <1>6. Binding'
    BY <1>1, <1>2 DEF Binding, Replays
  <1>7. Listed'
    BY <1>1, <1>2 DEF Listed, Threads, InCall, Replays, Binding
  <1>8. Arrives'
    BY <1>1, <1>2 DEF Arrives, Threads, InCall, Replays, Binding
  <1>9. Leaves'
    <2>1. UNCHANGED <<setup, topics, subs, peers>> /\ \A y \in Xsub : todo'[y] = todo[y]
      BY <1>1, <1>2
    <2> QED BY <1>1, <2>1 DEF Leaves
  <1>10. InMap'
    BY <1>1 DEF InMap
  <1> QED BY <1>3, <1>4, <1>5, <1>6, <1>7, <1>8, <1>9, <1>10 DEF IInv

LEMMA BindAddPeerIInv ==
  ASSUME IInv, NEW x \in Xsub, BindAddPeer(x)
  PROVE  IInv'
  <1> USE Actors, Entered DEF BindAddPeer, Return, socketVars, endpointVars, AllOf, Held
  <1>1. TypeOK /\ Threads /\ Replays /\ Binding /\ Listed /\ Arrives /\ Leaves /\ InMap
    BY DEF IInv
  <1>2. /\ Xpub \in Actor /\ Xpub # Nobody
        /\ \A y \in Xsub : y \in Actor /\ y # Xpub /\ y # Nobody
        /\ peers \subseteq Xsub /\ connected \subseteq Xsub /\ waiting \subseteq Xsub
        /\ taken \subseteq Xsub
    BY <1>1 DEF TypeOK
  <1>3. TypeOK'
    BY <1>1, OtherType DEF XpubStep
  <1>4. Threads'
    BY <1>1, <1>2 DEF Threads, InCall, Listed, Replays
  <1>5. Replays'
    BY <1>1, <1>2 DEF Threads, InCall, Replays, Binding, Listed
  <1>6. Binding'
    BY <1>1, <1>2 DEF Binding, Replays
  <1>7. Listed'
    BY <1>1, <1>2 DEF Listed, Threads, InCall, Replays, Binding
  <1>8. Arrives'
    BY <1>1, <1>2 DEF Arrives, Threads, InCall, Replays, Binding
  <1>9. Leaves'
    BY <1>1, <1>2 DEF Leaves, Listed
  <1>10. InMap'
    BY <1>1 DEF InMap
  <1> QED BY <1>3, <1>4, <1>5, <1>6, <1>7, <1>8, <1>9, <1>10 DEF IInv

LEMMA BindDoneIInv ==
  ASSUME IInv, BindDone
  PROVE  IInv'
  <1> USE Actors, Entered DEF BindDone, Return, socketVars, endpointVars, AllOf, Held
  <1>1. TypeOK /\ Threads /\ Replays /\ Binding /\ Listed /\ Arrives /\ Leaves /\ InMap
    BY DEF IInv
  <1>2. /\ Xpub \in Actor /\ Xpub # Nobody
        /\ \A y \in Xsub : y \in Actor /\ y # Xpub /\ y # Nobody
        /\ peers \subseteq Xsub /\ connected \subseteq Xsub /\ waiting \subseteq Xsub
        /\ taken \subseteq Xsub
    BY <1>1 DEF TypeOK
  <1>3. TypeOK'
    BY <1>1, OtherType DEF XpubStep
  <1>4. Threads'
    BY <1>1, <1>2 DEF Threads, InCall, Listed, Replays
  <1>5. Replays'
    BY <1>1, <1>2 DEF Threads, InCall, Replays, Binding, Listed
  <1>6. Binding'
    BY <1>1, <1>2 DEF Binding, Replays
  <1>7. Listed'
    BY <1>1, <1>2 DEF Listed, Threads, InCall, Replays, Binding
  <1>8. Arrives'
    BY <1>1, <1>2 DEF Arrives, Threads, InCall, Replays, Binding
  <1>9. Leaves'
    <2>1. UNCHANGED <<setup, topics, subs, peers>> /\ \A y \in Xsub : todo'[y] = todo[y]
      BY <1>1, <1>2
    <2> QED BY <1>1, <2>1 DEF Leaves
  <1>10. InMap'
    BY <1>1 DEF InMap
  <1> QED BY <1>3, <1>4, <1>5, <1>6, <1>7, <1>8, <1>9, <1>10 DEF IInv

(* The change c of a's thread reaches the map. *)
Decided(a, c) ==
  /\ pc[a] = "decide" /\ c \in todo[a] /\ c \in Change
  /\ topics' = [topics EXCEPT ![c.topic] = PeersAfter(c, peer[a])]
  /\ todo'[a] = todo[a] \ {c} /\ pc'[a] \in {"decide", "push"}
  /\ \A b \in Actor : b # a => todo'[b] = todo[b] /\ pc'[b] = pc[b]
  /\ UNCHANGED <<socketVars, bound, peers, mutex, op, peer, taken>>

LEMMA DecideEffect ==
  ASSUME TypeOK, NEW a \in Actor, Decide(a)
  PROVE  \E c \in todo[a] : Decided(a, c)
  <1>1. PICK c \in todo[a] :
          /\ topics' = [topics EXCEPT ![c.topic] = PeersAfter(c, peer[a])]
          /\ todo' = [todo EXCEPT ![a] = @ \ {c}]
          /\ pc' = [pc EXCEPT ![a] = "push"] \/ pc' = pc
    BY DEF Decide
  <1>2. c \in Change
    BY DEF TypeOK
  <1>3. pc[a] = "decide" /\ UNCHANGED <<socketVars, bound, peers, mutex, op, peer, taken>>
    BY DEF Decide
  <1>4. /\ todo'[a] = todo[a] \ {c}
        /\ \A b \in Actor : b # a => todo'[b] = todo[b]
    BY <1>1 DEF TypeOK
  <1>5. pc'[a] \in {"decide", "push"} /\ \A b \in Actor : b # a => pc'[b] = pc[b]
    BY <1>1, <1>3 DEF TypeOK
  <1> QED BY <1>1, <1>2, <1>3, <1>4, <1>5 DEF Decided

(* Only the entry of the replayed peer for the topic of c changes. *)
LEMMA DecidedMap ==
  ASSUME TypeOK, NEW a \in Actor, NEW c, Decided(a, c)
  PROVE  /\ c.topic \in Topic /\ c = [kind |-> c.kind, topic |-> c.topic]
         /\ \A u \in Topic : u # c.topic => topics'[u] = topics[u]
         /\ topics'[c.topic] = PeersAfter(c, peer[a])
         /\ \A y : y # peer[a] => (y \in topics'[c.topic] <=> y \in topics[c.topic])
         /\ c.kind = "sub" => peer[a] \in topics'[c.topic]
         /\ c.kind = "unsub" => peer[a] \notin topics'[c.topic]
         /\ c.kind \notin {"sub", "unsub"} => topics'[c.topic] = topics[c.topic]
  <1>1. c.topic \in Topic /\ c = [kind |-> c.kind, topic |-> c.topic]
    BY DEF Decided, Change
  <1>2. /\ \A u \in Topic : u # c.topic => topics'[u] = topics[u]
        /\ topics'[c.topic] = PeersAfter(c, peer[a])
    BY <1>1 DEF Decided, TypeOK
  <1> QED BY <1>1, <1>2 DEF PeersAfter

LEMMA DecideIInv ==
  ASSUME IInv, NEW a \in Actor, Decide(a)
  PROVE  IInv'
  <1>1. TypeOK /\ Threads /\ Replays /\ Binding /\ Listed /\ Arrives /\ Leaves /\ InMap
    BY DEF IInv
  <1>2. /\ Xpub \in Actor /\ Xpub # Nobody
        /\ \A y \in Xsub : y \in Actor /\ y # Xpub /\ y # Nobody
        /\ peers \subseteq Xsub /\ connected \subseteq Xsub
    BY <1>1, Actors DEF TypeOK
  <1>3. TypeOK'
    BY <1>1, DecideType
  <1>4. PICK c \in todo[a] : Decided(a, c)
    BY <1>1, DecideEffect
  <1> DEFINE z == peer[a]
  <1>5. z \in Xsub /\ (a \in Xsub => z = a) /\ (a \notin Xsub => a = Xpub)
    BY <1>1, <1>4, ReplayedPeer DEF Decided, Actor
  <1>6. UNCHANGED <<setup, subs, connected, waiting, bound, peers, mutex, op, peer, taken>>
    BY <1>4 DEF Decided, socketVars
  <1>7. /\ pc[a] = "decide" /\ pc'[a] \in {"decide", "push"} /\ c \in todo[a]
        /\ todo'[a] = todo[a] \ {c}
        /\ \A b \in Actor : b # a => todo'[b] = todo[b] /\ pc'[b] = pc[b]
        /\ \A b \in Actor : todo'[b] \subseteq todo[b]
    BY <1>4 DEF Decided
  <1>8. Threads'
    BY <1>1, <1>2, <1>6, <1>7 DEF Threads, InCall
  <1>9. Replays'
    BY <1>1, <1>2, <1>6, <1>7 DEF Replays
  <1>10. Binding'
    BY <1>1, <1>2, <1>6, <1>7 DEF Binding
  <1>11. Listed'
    BY <1>1, <1>6 DEF Listed
  <1>12. /\ c.topic \in Topic /\ c = [kind |-> c.kind, topic |-> c.topic]
         /\ \A u \in Topic : u # c.topic => topics'[u] = topics[u]
         /\ \A y : y # z => (y \in topics'[c.topic] <=> y \in topics[c.topic])
         /\ c.kind = "sub" => z \in topics'[c.topic]
         /\ c.kind = "unsub" => z \notin topics'[c.topic]
         /\ c.kind \notin {"sub", "unsub"} => topics'[c.topic] = topics[c.topic]
    BY <1>1, <1>4, DecidedMap
  <1>13. a = Xpub => c.kind = "sub"
    BY <1>1, <1>7 DEF Binding
  <1> HIDE DEF z
  <1>14. Arrives'
    <2> SUFFICES ASSUME NEW y \in peers, NEW u \in Topic, subs[y][u] > 0
                 PROVE  \/ y \in topics'[u]
                        \/ [kind |-> "sub", topic |-> u] \in todo'[y]
                        \/ peer[Xpub] = y /\ [kind |-> "sub", topic |-> u] \in todo'[Xpub]
      BY <1>6 DEF Arrives
    <2>1. \/ y \in topics[u]
          \/ [kind |-> "sub", topic |-> u] \in todo[y]
          \/ peer[Xpub] = y /\ [kind |-> "sub", topic |-> u] \in todo[Xpub]
      BY <1>1 DEF Arrives
    <2>2. y \in Xsub /\ y \in Actor
      BY <1>2
    <2>3. CASE u # c.topic
      <3>1. [kind |-> "sub", topic |-> u] # c
        BY <1>12, <2>3
      <3> QED BY <1>2, <1>7, <1>12, <2>1, <2>2, <2>3, <3>1
    <2>4. CASE u = c.topic /\ y # z
      <3>1. a = Xpub => peer[Xpub] # y
        BY <2>4 DEF z
      <3>2. a # y
        BY <1>5, <2>2, <2>4
      <3> QED BY <1>2, <1>7, <1>12, <2>1, <2>2, <2>4, <3>1, <3>2
    <2>5. CASE u = c.topic /\ y = z /\ c.kind = "sub"
      BY <1>12, <2>5
    <2>6. CASE u = c.topic /\ y = z /\ c.kind = "unsub"
      <3>1. a = y
        BY <1>2, <1>5, <1>13, <2>6
      <3> QED BY <1>1, <1>7, <2>2, <2>6, <3>1 DEF Replays
    <2>7. CASE u = c.topic /\ y = z /\ c.kind \notin {"sub", "unsub"}
      <3>1. [kind |-> "sub", topic |-> u] # c
        BY <2>7
      <3> QED BY <1>2, <1>7, <1>12, <2>1, <2>2, <2>7, <3>1
    <2> QED BY <2>3, <2>4, <2>5, <2>6, <2>7
  <1>15. Leaves'
    <2> SUFFICES ASSUME setup.bindFirst, NEW y \in Xsub, NEW u \in Topic
                 PROVE  /\ y \in topics'[u] =>
                             \/ y \in peers /\ subs[y][u] > 0
                             \/ [kind |-> "unsub", topic |-> u] \in todo'[y]
                        /\ [kind |-> "sub", topic |-> u] \in todo'[y] => y \notin topics'[u]
                        /\ [kind |-> "unsub", topic |-> u] \in todo'[y] => y \in topics'[u]
      BY <1>6 DEF Leaves
    <2>1. /\ y \in topics[u] =>
               \/ y \in peers /\ subs[y][u] > 0
               \/ [kind |-> "unsub", topic |-> u] \in todo[y]
          /\ [kind |-> "sub", topic |-> u] \in todo[y] => y \notin topics[u]
          /\ [kind |-> "unsub", topic |-> u] \in todo[y] => y \in topics[u]
      BY <1>1 DEF Leaves
    <2>2. a \in Xsub /\ z = a /\ y \in Actor
      BY <1>1, <1>2, <1>5, <1>7 DEF Listed, Binding
    <2>3. CASE y # a
      BY <1>7, <1>12, <2>1, <2>2, <2>3
    <2>4. CASE y = a /\ u # c.topic
      <3>1. [kind |-> "sub", topic |-> u] # c /\ [kind |-> "unsub", topic |-> u] # c
        BY <1>12, <2>4
      <3> QED BY <1>7, <1>12, <2>1, <2>4, <3>1
    <2>5. CASE y = a /\ u = c.topic /\ c.kind = "sub"
      <3>1. c = [kind |-> "sub", topic |-> u]
        BY <1>12, <2>5
      <3>2. op[a] \in {"change", "join"} /\ subs[a][u] > 0
        BY <1>1, <1>7, <2>2, <2>5 DEF Replays, Threads, InCall
      <3>3. a \in peers
        BY <1>1, <2>2, <3>2 DEF Replays, Listed
      <3>4. [kind |-> "unsub", topic |-> u] \notin todo[a]
        BY <1>1, <2>2, <3>2 DEF Replays
      <3> QED BY <1>7, <1>12, <2>5, <3>1, <3>2, <3>3, <3>4
    <2>6. CASE y = a /\ u = c.topic /\ c.kind = "unsub"
      <3>1. c = [kind |-> "unsub", topic |-> u]
        BY <1>12, <2>6
      <3> QED BY <1>7, <1>12, <2>2, <2>6, <3>1
    <2>7. CASE y = a /\ u = c.topic /\ c.kind \notin {"sub", "unsub"}
      <3>1. [kind |-> "sub", topic |-> u] # c /\ [kind |-> "unsub", topic |-> u] # c
        BY <2>7
      <3> QED BY <1>7, <1>12, <2>1, <2>7, <3>1
    <2> QED BY <2>3, <2>4, <2>5, <2>6, <2>7
  <1>16. InMap'
    <2>1. z \in setup.xsubs
      <3>1. CASE a \in Xsub
        BY <1>1, <1>5, <1>7, <3>1 DEF Threads
      <3>2. CASE a = Xpub
        BY <1>1, <1>2, <1>5, <3>2 DEF Listed, z
      <3> QED BY <1>5, <3>1, <3>2
    <2> QED BY <1>1, <1>6, <1>12, <2>1 DEF InMap
  <1> QED BY <1>3, <1>8, <1>9, <1>10, <1>11, <1>14, <1>15, <1>16 DEF IInv

(* What the XPUB's application does leaves topics and threads alone. *)
LEMMA ApplicationIInv ==
  ASSUME IInv,
         \/ \E t \in setup.topics : ManualSubscribe(t) \/ ManualUnsubscribe(t)
         \/ Publish
         \/ UNCHANGED vars
  PROVE  IInv'
  <1>1. UNCHANGED <<socketVars, bound, peers, topics, threadVars>>
    BY DEF ManualSubscribe, ManualUnsubscribe, Publish, vars, endpointVars
  <1>2. TypeOK'
    <2>1. CASE UNCHANGED vars
      BY <2>1 DEF IInv, TypeOK, vars, socketVars, endpointVars, threadVars
    <2> QED BY <2>1, OtherType DEF IInv, XpubStep
  <1>3. Threads' /\ Replays' /\ Binding' /\ Listed' /\ Arrives' /\ Leaves' /\ InMap'
    BY <1>1 DEF IInv, Threads, InCall, Replays, Binding, Listed, Arrives, Leaves, InMap,
                socketVars, threadVars
  <1> QED BY <1>2, <1>3 DEF IInv

LEMMA InitIInv == Init => IInv
  <1> SUFFICES ASSUME Init PROVE IInv
    OBVIOUS
  <1>1. TypeOK
    <2>1. /\ subs \in [Xsub -> [Topic -> Nat]]
          /\ topics \in [Topic -> SUBSET Xsub] /\ manual \in [Topic -> SUBSET Xsub]
          /\ peer \in [Actor -> Xsub \cup {Nobody}]
          /\ todo \in [Actor -> SUBSET Change] /\ now \in [Actor -> SUBSET Change]
      BY DEF Init
    <2>2. /\ pc \in [Actor -> {"idle", "pend", "lookup", "decide", "push", "unpend"}]
          /\ op \in [Actor -> {"none", "change", "join", "leave"}]
      BY DEF Init
    <2>3. inbox \in Seq(Note)
      BY DEF Init
    <2>4. bound \in BOOLEAN
      BY DEF Init
    <2> QED BY <2>1, <2>2, <2>3, <2>4 DEF Init, TypeOK
  <1>2. Threads /\ Replays /\ Binding /\ Listed /\ Arrives /\ Leaves /\ InMap
    BY <1>1, Actors DEF Init, Threads, InCall, Replays, Binding, Listed, Arrives, Leaves, InMap
  <1> QED BY <1>1, <1>2 DEF IInv

LEMMA NextIInv == IInv /\ [Next]_vars => IInv'
  BY ChangeCallIInv, ConnectIInv, ConnectMissedIInv, LookupIInv, ChangeDoneIInv,
     JoinDoneIInv, ConnectPendIInv, LeaveDoneIInv, DisconnectPendingIInv, DisconnectIInv,
     PushIInv, BindIInv, BindAddPeerIInv, BindDoneIInv, DecideIInv, ApplicationIInv
  DEF Next, XsubCall, XsubStep, XpubStep

LEMMA AlwaysIInv == Spec => []IInv
  BY InitIInv, NextIInv, PTL DEF Spec

LEMMA InvMapExact == IInv => TopicMapExact
  <1> SUFFICES ASSUME IInv PROVE TopicMapExact
    OBVIOUS
  <1>1. NoLostSubscription
    BY DEF IInv, TypeOK, Threads, InCall, Arrives, NoLostSubscription, Settled
  <1>2. NoGhostSubscription
    BY DEF IInv, Threads, InCall, Leaves, NoGhostSubscription, Settled
  <1> QED BY <1>1, <1>2 DEF TopicMapExact, IInv

(***************************************************************************)
(* The topic map is exact for every settled socket, for any number of      *)
(* XSUB sockets and topics and however subscribe, unsubscribe, connect,    *)
(* disconnect and bind interleave (xpub_peer_topics).                      *)
(***************************************************************************)
THEOREM TopicMapAlwaysExact == Spec => []TopicMapExact
  BY InvMapExact, AlwaysIInv, PTL

-----------------------------------------------------------------------------
(* The notifications. *)

(***************************************************************************)
(* Threads that have decided to notify, and only they, hold the change to  *)
(* push; the XSUB threads get there only when the endpoint is bound.       *)
(***************************************************************************)
Notes ==
  /\ \A a \in Actor : IF pc[a] = "push" THEN \E c \in Change : now[a] = {c} ELSE now[a] = {}
  /\ \A x \in Xsub : pc[x] \in {"decide", "push"} => bound
  /\ ~setup.verboseUnsub => \A a \in Actor : \A c \in todo[a] : c.kind # "unmatched"

LEMMA InitNotes == Init => Notes
  BY Actors, InitIInv DEF Init, Notes, IInv

LEMMA NextNotes == IInv /\ Notes /\ [Next]_vars => Notes'
  <1> SUFFICES ASSUME IInv, Notes, [Next]_vars PROVE Notes'
    OBVIOUS
  <1>1. TypeOK /\ Threads /\ Replays /\ Binding /\ Listed
    BY DEF IInv
  <1>2. /\ Xpub \in Actor /\ \A y \in Xsub : y \in Actor /\ y # Xpub
        /\ setup.xsubs \subseteq Xsub
    BY <1>1, Actors
  <1> USE Entered DEF Return, Ready, socketVars, endpointVars, AllOf
  <1>3. ASSUME NEW x \in setup.xsubs, NEW t \in setup.topics,
               \/ Subscribe(x, t) \/ Unsubscribe(x, t)
               \/ RawSubscribe(x, t) \/ RawUnsubscribe(x, t)
        PROVE  Notes'
    <2>1. ChangeCalled(x, t)
      BY <1>1, <1>3, ChangeCallEffect
    <2> QED BY <1>2, <2>1 DEF ChangeCalled, Notes
  <1>4. ASSUME NEW x \in setup.xsubs, Connect(x) \/ ConnectMissed(x) \/ Disconnect(x)
        PROVE  Notes'
    <2>1. CASE Connect(x)
      BY <1>1, <1>2, <2>1 DEF Notes, Connect
    <2>2. CASE ConnectMissed(x)
      BY <1>1, <1>2, <2>2 DEF Notes, ConnectMissed
    <2>3. CASE Disconnect(x)
      BY <1>1, <1>2, <2>3 DEF Notes, Disconnect
    <2> QED BY <1>4, <2>1, <2>2, <2>3
  <1>5. ASSUME NEW x \in setup.xsubs, XsubStep(x) PROVE Notes'
    <2>1. CASE Lookup(x)
      BY <1>1, <1>2, <2>1 DEF Notes, Lookup
    <2>2. CASE ChangeDone(x)
      BY <1>1, <1>2, <2>2 DEF Notes, ChangeDone
    <2>3. CASE JoinDone(x)
      BY <1>1, <1>2, <2>3 DEF Notes, JoinDone
    <2>4. CASE ConnectPend(x)
      BY <1>1, <1>2, <2>4 DEF Notes, ConnectPend
    <2>5. CASE LeaveDone(x)
      BY <1>1, <1>2, <2>5 DEF Notes, LeaveDone
    <2>6. CASE DisconnectPending(x)
      BY <1>1, <1>2, <2>6 DEF Notes, DisconnectPending
    <2> QED BY <1>5, <2>1, <2>2, <2>3, <2>4, <2>5, <2>6 DEF XsubStep
  <1>6. ASSUME NEW a \in Actor, Push(a) PROVE Notes'
    BY <1>1, <1>2, <1>6 DEF Notes, Push, TypeOK
  <1>7. ASSUME NEW a \in Actor, Decide(a) PROVE Notes'
    <2>1. PICK c \in todo[a] :
            /\ todo' = [todo EXCEPT ![a] = @ \ {c}]
            /\ \/ pc' = [pc EXCEPT ![a] = "push"] /\ now' = [now EXCEPT ![a] = {c}]
               \/ UNCHANGED <<pc, now>>
      BY <1>7 DEF Decide
    <2>2. c \in Change /\ pc[a] = "decide" /\ UNCHANGED <<setup, bound>>
      BY <1>1, <1>7 DEF TypeOK, Decide
    <2>3. todo'[a] = todo[a] \ {c} /\ \A b \in Actor : b # a => todo'[b] = todo[b]
      BY <1>1, <2>1 DEF TypeOK
    <2>4. \A b \in Actor : b # a => pc'[b] = pc[b] /\ now'[b] = now[b]
      BY <1>1, <2>1 DEF TypeOK
    <2>5. \/ pc'[a] = "push" /\ now'[a] = {c}
          \/ pc'[a] = "decide" /\ now'[a] = {}
      <3>1. now[a] = {}
        BY <2>2 DEF Notes
      <3>2. CASE UNCHANGED <<pc, now>>
        BY <2>2, <3>1, <3>2
      <3>3. CASE pc' = [pc EXCEPT ![a] = "push"] /\ now' = [now EXCEPT ![a] = {c}]
        <4>1. pc'[a] = "push"
          BY <1>1, <3>3 DEF TypeOK
        <4>2. now'[a] = {c}
          BY <1>1, <3>3 DEF TypeOK
        <4> QED BY <4>1, <4>2
      <3> QED BY <2>1, <3>2, <3>3
    <2> QED BY <1>2, <2>2, <2>3, <2>4, <2>5 DEF Notes
  <1>8. ASSUME Bind \/ BindDone \/ \E x \in Xsub : BindAddPeer(x) PROVE Notes'
    <2>1. CASE Bind
      BY <1>1, <1>2, <2>1 DEF Notes, Bind
    <2>2. CASE BindDone
      BY <1>1, <1>2, <2>2 DEF Notes, BindDone
    <2>3. ASSUME NEW x \in Xsub, BindAddPeer(x) PROVE Notes'
      BY <1>1, <1>2, <2>3 DEF Notes, BindAddPeer
    <2> QED BY <1>8, <2>1, <2>2, <2>3
  <1>9. ASSUME \/ \E t \in setup.topics : ManualSubscribe(t) \/ ManualUnsubscribe(t)
               \/ Publish \/ UNCHANGED vars
        PROVE  Notes'
    <2>1. UNCHANGED <<setup, bound, pc, now, todo>>
      BY <1>9 DEF ManualSubscribe, ManualUnsubscribe, Publish, vars, threadVars
    <2> QED BY <2>1 DEF Notes
  <1> QED BY <1>3, <1>4, <1>5, <1>6, <1>7, <1>8, <1>9 DEF Next, XsubCall, XpubStep

(* What a step that notifies nothing leaves alone. *)
LEMMA OnlyDecideAndPush ==
  ASSUME [Next]_vars, ~\E a \in Actor : Decide(a) \/ Push(a)
  PROVE  UNCHANGED <<topics, inbox, now>>
  BY DEF Next, XsubCall, XsubStep, XpubStep, Subscribe, Unsubscribe, RawSubscribe,
         RawUnsubscribe, Tell, Connect, ConnectMissed, Disconnect, Lookup, ChangeDone,
         JoinDone, ConnectPend, LeaveDone, DisconnectPending, Bind, BindAddPeer, BindDone,
         ManualSubscribe, ManualUnsubscribe, Publish, vars, endpointVars, threadVars

LEMMA SetupKept == [Next]_vars => setup' = setup
  BY DEF Next, XsubCall, XsubStep, XpubStep, Subscribe, Unsubscribe, RawSubscribe,
         RawUnsubscribe, Tell, Connect, ConnectMissed, Disconnect, Lookup, ChangeDone,
         JoinDone, ConnectPend, LeaveDone, DisconnectPending, Bind, BindAddPeer, BindDone,
         ManualSubscribe, ManualUnsubscribe, Publish, vars, socketVars, Decide, Push

(* The notifications about t that are in the inbox, and those on their way. *)
InInbox(t, s) == {i \in 1 .. Len(inbox) : inbox[i] = [subscribe |-> s, topic |-> t]}
OnTheWay(t, s) == {a \in Actor : \E c \in now[a] : Frame(c) = [subscribe |-> s, topic |-> t]}

LEMMA ToldCounts ==
  ASSUME TypeOK, NEW t, NEW s
  PROVE  /\ IsFiniteSet(InInbox(t, s)) /\ IsFiniteSet(OnTheWay(t, s))
         /\ Cardinality(InInbox(t, s)) \in Nat /\ Cardinality(OnTheWay(t, s)) \in Nat
         /\ Told(t, s) = Cardinality(InInbox(t, s)) + Cardinality(OnTheWay(t, s))
  <1>1. IsFiniteSet(1 .. Len(inbox))
    BY FS_Interval DEF TypeOK
  <1>2. IsFiniteSet(Actor)
    BY XpubAssumption, FS_AddElement DEF Actor
  <1>3. IsFiniteSet(InInbox(t, s)) /\ IsFiniteSet(OnTheWay(t, s))
    <2>1. InInbox(t, s) \in SUBSET (1 .. Len(inbox)) /\ OnTheWay(t, s) \in SUBSET Actor
      BY DEF InInbox, OnTheWay
    <2> QED BY <1>1, <1>2, <2>1, FS_Subset
  <1> QED BY <1>3, FS_CardinalityType DEF Told, InInbox, OnTheWay

LEMMA ToldType ==
  ASSUME TypeOK, NEW t, NEW s
  PROVE  Told(t, s) \in Nat
  BY ToldCounts

(* The thread of a pushes c: one notification less on the way, one more in
   the inbox. *)
LEMMA PushTold ==
  ASSUME TypeOK, TypeOK', Notes, NEW a \in Actor, Push(a), NEW t \in Topic, NEW s \in BOOLEAN
  PROVE  Told(t, s)' = Told(t, s)
  <1> DEFINE n == Len(inbox)
             f == [subscribe |-> s, topic |-> t]
  <1>1. PICK c \in Change : now[a] = {c}
    BY DEF Push, Notes
  <1>2. inbox' = Append(inbox, Frame(c)) /\ now' = [now EXCEPT ![a] = {}]
    BY <1>1 DEF Push
  <1>3. inbox \in Seq(Note) /\ Frame(c) \in Note
    BY <1>1, FrameType DEF TypeOK
  <1>4. /\ n \in Nat /\ Len(inbox') = n + 1 /\ inbox'[n + 1] = Frame(c)
        /\ \A i \in 1 .. n : inbox'[i] = inbox[i]
    BY <1>2, <1>3
  <1>5. now'[a] = {} /\ \A b \in Actor : b # a => now'[b] = now[b]
    BY <1>2 DEF TypeOK
  <1> HIDE DEF n, f
  <1>6. CASE Frame(c) = f
    <2>1. InInbox(t, s)' = InInbox(t, s) \cup {n + 1}
      <3>1. \A i : i \in 1 .. n + 1 <=> i \in 1 .. n \/ i = n + 1
        BY <1>4
      <3> QED BY <1>4, <1>6, <3>1 DEF InInbox, n, f
    <2>2. n + 1 \notin InInbox(t, s)
      BY <1>4 DEF InInbox, n
    <2>3. OnTheWay(t, s)' = OnTheWay(t, s) \ {a} /\ a \in OnTheWay(t, s)
      BY <1>1, <1>5, <1>6 DEF OnTheWay, f, Frame
    <2>4. Cardinality(InInbox(t, s)') = Cardinality(InInbox(t, s)) + 1
      BY <2>1, <2>2, ToldCounts, FS_AddElement
    <2>5. Cardinality(OnTheWay(t, s)') = Cardinality(OnTheWay(t, s)) - 1
      BY <2>3, ToldCounts, FS_RemoveElement
    <2>6. Told(t, s)' = Cardinality(InInbox(t, s)') + Cardinality(OnTheWay(t, s)')
      BY ToldCounts DEF Told, InInbox, OnTheWay
    <2> QED BY <2>4, <2>5, <2>6, ToldCounts
  <1>7. CASE Frame(c) # f
    <2>1. InInbox(t, s)' = InInbox(t, s)
      <3>1. \A i : i \in 1 .. n + 1 <=> i \in 1 .. n \/ i = n + 1
        BY <1>4
      <3>2. n + 1 \notin 1 .. n
        BY <1>4
      <3> QED BY <1>4, <1>7, <3>1, <3>2 DEF InInbox, n, f
    <2>2. OnTheWay(t, s)' = OnTheWay(t, s)
      BY <1>1, <1>5, <1>7 DEF OnTheWay, f, Frame
    <2> QED BY <2>1, <2>2 DEF Told, InInbox, OnTheWay
  <1> QED BY <1>6, <1>7

(* The thread of a decides to notify c: one more is on the way. *)
LEMMA DecideTold ==
  ASSUME TypeOK, TypeOK', NEW a \in Actor, NEW c \in Change, now[a] = {},
         now' = [now EXCEPT ![a] = {c}], inbox' = inbox,
         NEW t \in Topic, NEW s \in BOOLEAN
  PROVE  Told(t, s)' = Told(t, s) + (IF Frame(c) = [subscribe |-> s, topic |-> t] THEN 1 ELSE 0)
  <1>1. now'[a] = {c} /\ \A b \in Actor : b # a => now'[b] = now[b]
    BY DEF TypeOK
  <1>2. InInbox(t, s)' = InInbox(t, s)
    BY DEF InInbox
  <1>3. Told(t, s)' = Cardinality(InInbox(t, s)') + Cardinality(OnTheWay(t, s)')
    BY ToldCounts DEF Told, InInbox, OnTheWay
  <1>4. CASE Frame(c) = [subscribe |-> s, topic |-> t]
    <2>1. OnTheWay(t, s)' = OnTheWay(t, s) \cup {a} /\ a \notin OnTheWay(t, s)
      BY <1>1, <1>4 DEF OnTheWay, Frame
    <2>2. Cardinality(OnTheWay(t, s)') = Cardinality(OnTheWay(t, s)) + 1
      BY <2>1, ToldCounts, FS_AddElement
    <2> QED BY <1>2, <1>3, <1>4, <2>2, ToldCounts
  <1>5. CASE Frame(c) # [subscribe |-> s, topic |-> t]
    <2>1. OnTheWay(t, s)' = OnTheWay(t, s)
      BY <1>1, <1>5 DEF OnTheWay, Frame
    <2> QED BY <1>2, <1>3, <1>5, <2>1, ToldCounts
  <1> QED BY <1>4, <1>5

(* With every verbosity off, a change is notified when it is the first
   subscription to its topic or the last unsubscription from it. *)
LEMMA TerseNotifies ==
  ASSUME TypeOK, Terse, NEW c \in Change, c.kind # "unmatched", NEW p \in Xsub
  PROVE  /\ c.kind = "sub" => (Notifies(c, p) <=> topics[c.topic] \subseteq {p})
         /\ c.kind = "dup" => ~Notifies(c, p)
         /\ c.kind = "unsub" => (Notifies(c, p) <=> topics[c.topic] \subseteq {p})
  <1> DEFINE T == topics[c.topic]
  <1>1. T \subseteq Xsub /\ c.kind \in Kind
    BY DEF TypeOK, Change
  <1>2. IsFiniteSet(T)
    BY <1>1, XpubAssumption, FS_Subset
  <1> HIDE DEF T
  <1>3. Cardinality(T \cup {p}) = 1 <=> T \subseteq {p}
    <2>1. CASE T \subseteq {p}
      <3>1. T \cup {p} = {p}
        BY <2>1
      <3> QED BY <2>1, <3>1, FS_Singleton
    <2>2. CASE ~(T \subseteq {p})
      <3>1. PICK y \in T : y # p
        BY <2>2
      <3>2. IsFiniteSet(T \cup {p})
        BY <1>2, FS_AddElement
      <3>3. Cardinality(T \cup {p}) # 1
        <4>1. SUFFICES ASSUME Cardinality(T \cup {p}) = 1 PROVE FALSE
          OBVIOUS
        <4>2. PICK z : T \cup {p} = {z}
          BY <3>2, <4>1, FS_Singleton
        <4> QED BY <3>1, <4>2
      <3> QED BY <2>2, <3>3
    <2> QED BY <2>1, <2>2
  <1>4. c.kind = "sub" => PeersAfter(c, p) = T \cup {p}
    BY DEF PeersAfter, T
  <1>5. c.kind = "unsub" => PeersAfter(c, p) = T \ {p}
    BY DEF PeersAfter, T
  <1>6. T \ {p} = {} <=> T \subseteq {p}
    OBVIOUS
  <1>7. c.kind = "sub" => (Notifies(c, p) <=> Cardinality(PeersAfter(c, p)) = 1)
    BY DEF Notifies, Terse
  <1>8. c.kind = "dup" => ~Notifies(c, p)
    BY DEF Notifies, Terse
  <1>9. c.kind = "unsub" => (Notifies(c, p) <=> PeersAfter(c, p) = {})
    BY DEF Notifies, Terse
  <1> QED BY <1>3, <1>4, <1>5, <1>6, <1>7, <1>8, <1>9 DEF T

(* A thread decides: with its own subscriptions only to pass on, a socket
   adds itself where it was absent and removes itself where it was there. *)
LEMMA DecideEdges ==
  ASSUME IInv, IInv', Notes, EdgesToldOnce, NEW a \in Actor, Decide(a)
  PROVE  EdgesToldOnce'
  <1>1. TypeOK /\ TypeOK' /\ Threads /\ Replays /\ Binding /\ Listed /\ Leaves
    BY DEF IInv
  <1>2. setup' = setup
    BY DEF Decide, socketVars
  <1> SUFFICES ASSUME Terse, setup.bindFirst, NEW t \in Topic
               PROVE  (Told(t, TRUE) = Told(t, FALSE) + (IF topics[t] # {} THEN 1 ELSE 0))'
    BY <1>2 DEF EdgesToldOnce, Terse
  <1>3. PICK c \in todo[a] :
          /\ topics' = [topics EXCEPT ![c.topic] = PeersAfter(c, peer[a])]
          /\ \/ Notifies(c, peer[a]) /\ now' = [now EXCEPT ![a] = {c}]
             \/ ~Notifies(c, peer[a]) /\ now' = now
    BY DEF Decide
  <1>4. pc[a] = "decide" /\ inbox' = inbox
    BY DEF Decide
  <1>5. c \in Change /\ c.kind \in Kind /\ c.topic \in Topic
    BY <1>1 DEF TypeOK, Change
  <1>6. c = [kind |-> c.kind, topic |-> c.topic]
    BY <1>5 DEF Change
  <1>7. a \in Xsub /\ peer[a] = a
    BY <1>1, <1>3, <1>4 DEF Actor, Threads, InCall, Binding, Listed
  <1>8. c.kind # "unmatched" /\ now[a] = {}
    BY <1>3, <1>4 DEF Notes, Terse
  <1>9. /\ c.kind = "sub" => a \notin topics[c.topic]
        /\ c.kind = "unsub" => a \in topics[c.topic]
    BY <1>1, <1>3, <1>5, <1>6, <1>7 DEF Leaves
  <1>10. /\ \A u \in Topic : u # c.topic => topics'[u] = topics[u]
         /\ topics'[c.topic] = PeersAfter(c, a)
    BY <1>1, <1>3, <1>5, <1>7 DEF TypeOK
  <1>11. Told(t, TRUE) = Told(t, FALSE) + (IF topics[t] # {} THEN 1 ELSE 0)
    BY DEF EdgesToldOnce
  <1>12. Told(t, TRUE) \in Nat /\ Told(t, FALSE) \in Nat
    BY <1>1, ToldType, Zenon
  <1>13. /\ c.kind = "sub" => (Notifies(c, a) <=> topics[c.topic] = {})
         /\ c.kind = "dup" => ~Notifies(c, a)
         /\ c.kind = "unsub" => (Notifies(c, a) <=> topics[c.topic] = {a})
    BY <1>1, <1>5, <1>7, <1>8, <1>9, TerseNotifies
  <1>14. /\ c.kind = "sub" => topics'[c.topic] = topics[c.topic] \cup {a}
         /\ c.kind = "dup" => topics'[c.topic] = topics[c.topic]
         /\ c.kind = "unsub" => topics'[c.topic] = topics[c.topic] \ {a}
    BY <1>10 DEF PeersAfter
  <1>15. CASE ~Notifies(c, a)
    <2>1. now' = now
      BY <1>3, <1>7, <1>15
    <2>2. Told(t, TRUE)' = Told(t, TRUE) /\ Told(t, FALSE)' = Told(t, FALSE)
      BY <1>4, <2>1 DEF Told
    <2>3. topics'[t] = {} <=> topics[t] = {}
      BY <1>5, <1>8, <1>9, <1>10, <1>13, <1>14, <1>15 DEF Kind
    <2> QED BY <1>11, <2>2, <2>3
  <1>16. CASE Notifies(c, a)
    <2>1. now' = [now EXCEPT ![a] = {c}]
      BY <1>3, <1>7, <1>16
    <2>2. \A s \in BOOLEAN :
            Told(t, s)' = Told(t, s) + (IF Frame(c) = [subscribe |-> s, topic |-> t] THEN 1 ELSE 0)
      BY <1>1, <1>4, <1>5, <1>8, <2>1, DecideTold
    <2>3. CASE t # c.topic
      <3>1. \A s \in BOOLEAN : Frame(c) # [subscribe |-> s, topic |-> t]
        BY <2>3 DEF Frame
      <3>2. topics'[t] = topics[t]
        BY <1>10, <2>3
      <3>3. Told(t, TRUE)' = Told(t, TRUE) /\ Told(t, FALSE)' = Told(t, FALSE)
        <4>1. \A s \in BOOLEAN : Told(t, s)' = Told(t, s)
          BY <1>1, <2>2, <3>1, ToldType
        <4> QED BY <4>1, Zenon
      <3> QED BY <1>11, <3>2, <3>3
    <2>4. CASE t = c.topic /\ c.kind = "sub"
      <3>1. /\ Frame(c) = [subscribe |-> TRUE, topic |-> t]
            /\ Frame(c) # [subscribe |-> FALSE, topic |-> t]
        BY <2>4 DEF Frame
      <3>2. topics[t] = {} /\ topics'[t] # {}
        BY <1>13, <1>14, <1>16, <2>4
      <3> QED BY <1>11, <1>12, <2>2, <3>1, <3>2
    <2>5. CASE t = c.topic /\ c.kind = "unsub"
      <3>1. /\ Frame(c) = [subscribe |-> FALSE, topic |-> t]
            /\ Frame(c) # [subscribe |-> TRUE, topic |-> t]
        <4>1. c.kind \notin {"sub", "dup"}
          BY <2>5
        <4>2. (c.kind \in {"sub", "dup"}) = FALSE
          BY <4>1
        <4>3. Frame(c) = [subscribe |-> FALSE, topic |-> t]
          BY <2>5, <4>2, Zenon DEF Frame
        <4>4. [subscribe |-> FALSE, topic |-> t] # [subscribe |-> TRUE, topic |-> t]
          OBVIOUS
        <4> QED BY <4>3, <4>4
      <3>2. topics[t] # {} /\ topics'[t] = {}
        BY <1>13, <1>14, <1>16, <2>5
      <3> QED BY <1>11, <1>12, <2>2, <3>1, <3>2
    <2> QED BY <1>5, <1>8, <1>13, <1>16, <2>3, <2>4, <2>5 DEF Kind
  <1> QED BY <1>15, <1>16

(***************************************************************************)
(* Without verbosity, and when sockets connect to a bound name, the        *)
(* application is told once of every change between "somebody subscribes"  *)
(* and "nobody does": however the threads interleave between the decision  *)
(* under the map's lock and the push into the inbox.                       *)
(***************************************************************************)
THEOREM EdgesAlwaysToldOnce == Spec => []EdgesToldOnce
  <1>1. Init => EdgesToldOnce
    <2> SUFFICES ASSUME Init, NEW t \in Topic
                 PROVE  Told(t, TRUE) = Told(t, FALSE) + (IF topics[t] # {} THEN 1 ELSE 0)
      BY DEF EdgesToldOnce
    <2>1. TypeOK
      BY InitIInv DEF IInv
    <2>2. inbox = <<>> /\ \A a \in Actor : now[a] = {}
      BY DEF Init
    <2>3. \A s \in BOOLEAN : InInbox(t, s) = {} /\ OnTheWay(t, s) = {}
      BY <2>2 DEF InInbox, OnTheWay
    <2>4. \A s \in BOOLEAN : Told(t, s) = 0
      BY <2>1, <2>3, ToldCounts, FS_EmptySet
    <2>5. Told(t, TRUE) = 0 /\ Told(t, FALSE) = 0
      BY <2>4, Zenon
    <2>6. topics[t] = {}
      BY DEF Init
    <2>7. 0 = 0 + (IF topics[t] # {} THEN 1 ELSE 0)
      BY <2>6
    <2> QED BY <2>5, <2>7, Zenon
  <1>2. IInv /\ IInv' /\ Notes /\ EdgesToldOnce /\ [Next]_vars => EdgesToldOnce'
    <2> SUFFICES ASSUME IInv, IInv', Notes, EdgesToldOnce, [Next]_vars PROVE EdgesToldOnce'
      OBVIOUS
    <2>1. setup' = setup
      BY SetupKept
    <2>2. CASE ~\E a \in Actor : Decide(a) \/ Push(a)
      <3>1. UNCHANGED <<topics, inbox, now>>
        BY <2>2, OnlyDecideAndPush
      <3> QED BY <2>1, <3>1 DEF EdgesToldOnce, Terse, Told
    <2>3. ASSUME NEW a \in Actor, Push(a) PROVE EdgesToldOnce'
      <3>1. \A t \in Topic, s \in BOOLEAN : Told(t, s)' = Told(t, s)
        BY <2>3, PushTold DEF IInv
      <3>2. topics' = topics
        BY <2>3 DEF Push
      <3>3. \A t \in Topic : Told(t, TRUE)' = Told(t, TRUE) /\ Told(t, FALSE)' = Told(t, FALSE)
        BY <3>1
      <3> QED BY <2>1, <3>2, <3>3 DEF EdgesToldOnce, Terse
    <2> QED BY <2>2, <2>3, DecideEdges
  <1> QED BY <1>1, <1>2, InitNotes, NextNotes, AlwaysIInv, PTL DEF Spec

-----------------------------------------------------------------------------
(* A single XSUB. *)

(* Some thread is about to push a notification about t. *)
Pushing(t) == \E a \in Actor : \E c \in now[a] : c.topic = t

(***************************************************************************)
(* HeardFromOne is about quiet states.  In between, whoever is about to    *)
(* push a notification about t pushes the truth about the topic map.       *)
(***************************************************************************)
HeardInv ==
  Terse /\ Cardinality(setup.xsubs) = 1 => \A t \in Topic :
    /\ ~Pushing(t) => (Heard(t) <=> topics[t] # {})
    /\ \A a \in Actor : \A c \in now[a] :
         c.topic = t => (c.kind \in {"sub", "dup"} <=> topics[t] # {})

(* While one thread notifies nobody else does: the XSUB gets there after the
   bind and bind is the only other. *)
LEMMA Alone ==
  ASSUME IInv, Notes, Cardinality(setup.xsubs) = 1,
         NEW a \in Actor, pc[a] \in {"decide", "push"}
  PROVE  \A b \in Actor : b # a => now[b] = {}
  <1>1. TypeOK /\ Threads /\ Binding
    BY DEF IInv
  <1>2. PICK x : setup.xsubs = {x}
    <2>1. IsFiniteSet(setup.xsubs)
      BY <1>1, Actors, XpubAssumption, FS_Subset
    <2> QED BY <2>1, FS_Singleton
  <1>3. \A b \in Actor : pc[b] # "idle" => b \in {x, Xpub}
    BY <1>1, <1>2 DEF Actor, Threads
  <1>4. x \in Xsub /\ Xpub \in Actor /\ x \in Actor
    BY <1>1, <1>2, Actors
  <1>5. pc[x] \in {"decide", "push"} => bound /\ pc[Xpub] = "idle"
    BY <1>1, <1>4 DEF Notes, Binding
  <1>6. SUFFICES ASSUME NEW b \in Actor, b # a, pc[b] = "push" PROVE FALSE
    BY DEF Notes
  <1>7. a \in {x, Xpub} /\ b \in {x, Xpub}
    BY <1>3, <1>6
  <1> QED BY <1>4, <1>5, <1>6, <1>7

LEMMA DecideHeard ==
  ASSUME IInv, Notes, HeardInv, NEW a \in Actor, Decide(a)
  PROVE  HeardInv'
  <1>1. TypeOK /\ Threads /\ Binding /\ Listed /\ InMap
    BY DEF IInv
  <1>2. setup' = setup /\ inbox' = inbox /\ pc[a] = "decide"
    BY DEF Decide, socketVars
  <1> SUFFICES ASSUME Terse, Cardinality(setup.xsubs) = 1, NEW t \in Topic
               PROVE  /\ (~Pushing(t) => (Heard(t) <=> topics[t] # {}))'
                      /\ \A b \in Actor : \A d \in now'[b] :
                           d.topic = t => (d.kind \in {"sub", "dup"} <=> topics'[t] # {})
    BY <1>2 DEF HeardInv, Terse
  <1>3. PICK c \in todo[a] :
          /\ topics' = [topics EXCEPT ![c.topic] = PeersAfter(c, peer[a])]
          /\ \/ Notifies(c, peer[a]) /\ now' = [now EXCEPT ![a] = {c}]
             \/ ~Notifies(c, peer[a]) /\ now' = now
    BY DEF Decide
  <1>4. c \in Change /\ c.kind \in Kind /\ c.topic \in Topic /\ c.kind # "unmatched"
    BY <1>1, <1>3 DEF TypeOK, Change, Notes, Terse
  <1>5. \A b \in Actor : now[b] = {}
    <2>1. now[a] = {}
      BY <1>2 DEF Notes
    <2> QED BY <1>2, <2>1, Alone
  <1>6. peer[a] \in setup.xsubs
    <2>1. CASE a \in Xsub
      BY <1>1, <1>2, <2>1 DEF Threads, InCall
    <2>2. CASE a = Xpub
      BY <1>1, <1>3, <2>2 DEF Binding, Listed
    <2> QED BY <2>1, <2>2 DEF Actor
  <1> DEFINE p == peer[a]
  <1>7. setup.xsubs = {p} /\ p \in Xsub
    <2>1. IsFiniteSet(setup.xsubs)
      BY <1>1, Actors, XpubAssumption, FS_Subset
    <2>2. \E x : setup.xsubs = {x}
      BY <2>1, FS_Singleton
    <2> QED BY <1>1, <1>6, <2>2, Actors
  <1>8. topics[c.topic] \subseteq {p}
    BY <1>1, <1>4, <1>7 DEF InMap
  <1>9. /\ \A u \in Topic : u # c.topic => topics'[u] = topics[u]
        /\ topics'[c.topic] = PeersAfter(c, p)
    BY <1>1, <1>3, <1>4 DEF TypeOK
  <1>10. Heard(t)' <=> Heard(t)
    BY <1>2 DEF Heard
  <1>11. ~Pushing(t) /\ (Heard(t) <=> topics[t] # {})
    BY <1>5 DEF HeardInv, Pushing
  <1> HIDE DEF p
  <1>12. CASE c.kind = "dup"
    <2>1. now' = now
      BY <1>1, <1>3, <1>4, <1>7, <1>12, TerseNotifies DEF p
    <2>2. topics'[t] = topics[t]
      BY <1>9, <1>12 DEF PeersAfter
    <2> QED BY <1>5, <1>10, <1>11, <2>1, <2>2 DEF Pushing
  <1>13. CASE c.kind \in {"sub", "unsub"}
    <2>1. now' = [now EXCEPT ![a] = {c}]
      BY <1>1, <1>3, <1>4, <1>7, <1>8, <1>13, TerseNotifies DEF p
    <2>2. now'[a] = {c} /\ \A b \in Actor : b # a => now'[b] = {}
      BY <1>1, <1>5, <2>1 DEF TypeOK
    <2>3. /\ c.kind = "sub" => topics'[c.topic] # {}
          /\ c.kind = "unsub" => topics'[c.topic] = {}
      BY <1>8, <1>9 DEF PeersAfter
    <2>4. CASE t = c.topic
      <3>1. Pushing(t)'
        BY <2>2, <2>4 DEF Pushing
      <3>2. \A b \in Actor : \A d \in now'[b] : d = c
        BY <2>2
      <3> QED BY <1>13, <2>3, <2>4, <3>1, <3>2
    <2>5. CASE t # c.topic
      <3>1. topics'[t] = topics[t]
        BY <1>9, <2>5
      <3>2. \A b \in Actor : \A d \in now'[b] : d.topic # t
        BY <2>2, <2>5
      <3> QED BY <1>10, <1>11, <3>1, <3>2
    <2> QED BY <2>4, <2>5
  <1> QED BY <1>4, <1>12, <1>13 DEF Kind

LEMMA PushHeard ==
  ASSUME IInv, Notes, HeardInv, NEW a \in Actor, Push(a)
  PROVE  HeardInv'
  <1>1. TypeOK
    BY DEF IInv
  <1>2. setup' = setup /\ topics' = topics /\ pc[a] = "push"
    BY DEF Push, socketVars
  <1> SUFFICES ASSUME Terse, Cardinality(setup.xsubs) = 1, NEW t \in Topic
               PROVE  /\ Heard(t)' <=> topics[t] # {}
                      /\ \A b \in Actor : now'[b] = {}
    BY <1>2 DEF HeardInv, Terse
  <1>3. PICK c \in Change : now[a] = {c}
    BY <1>2 DEF Notes
  <1>4. inbox' = Append(inbox, Frame(c)) /\ now' = [now EXCEPT ![a] = {}]
    BY <1>3 DEF Push
  <1>5. \A b \in Actor : b # a => now[b] = {}
    BY <1>2, Alone
  <1>6. \A b \in Actor : now'[b] = {}
    BY <1>1, <1>4, <1>5 DEF TypeOK
  <1> DEFINE n == Len(inbox)
             f == Frame(c)
  <1>7. inbox \in Seq(Note) /\ f \in Note /\ f.topic = c.topic
    BY <1>1, FrameType DEF TypeOK, Frame
  <1>8. /\ n \in Nat /\ Len(inbox') = n + 1 /\ inbox'[n + 1] = f
        /\ \A i \in 1 .. n : inbox'[i] = inbox[i]
    BY <1>4, <1>7
  <1>9. /\ \A i : i \in 1 .. n + 1 <=> i \in 1 .. n \/ i = n + 1
        /\ \A i \in 1 .. n : i <= n + 1 /\ ~(n + 1 <= i)
        /\ n + 1 <= n + 1
    BY <1>8
  <1>10. f.subscribe <=> c.kind \in {"sub", "dup"}
    BY DEF Frame
  <1>11. t = c.topic => (f.subscribe <=> topics[t] # {})
    BY <1>3, <1>10 DEF HeardInv
  <1>12. t # c.topic => (Heard(t) <=> topics[t] # {})
    <2>1. t # c.topic => ~Pushing(t)
      BY <1>3, <1>5 DEF Pushing
    <2> QED BY <2>1 DEF HeardInv
  <1> HIDE DEF f
  <1>13. Heard(t) <=> \E i \in 1 .. n : /\ inbox[i].topic = t /\ inbox[i].subscribe
                                        /\ \A j \in 1 .. n : inbox[j].topic = t => j <= i
    BY DEF Heard
  <1>14. Heard(t)' <=> \E i \in 1 .. n + 1 :
                         /\ inbox'[i].topic = t /\ inbox'[i].subscribe
                         /\ \A j \in 1 .. n + 1 : inbox'[j].topic = t => j <= i
    BY <1>8 DEF Heard
  <1> HIDE DEF n
  <1>15. CASE t = c.topic
    <2>1. Heard(t)' <=> f.subscribe
      BY <1>7, <1>8, <1>9, <1>14, <1>15
    <2> QED BY <1>6, <1>11, <1>15, <2>1
  <1>16. CASE t # c.topic
    <2>1. Heard(t)' <=> Heard(t)
      BY <1>7, <1>8, <1>9, <1>13, <1>14, <1>16
    <2> QED BY <1>6, <1>12, <1>16, <2>1
  <1> QED BY <1>15, <1>16

(***************************************************************************)
(* With one XSUB the application always learns of a peer's subscription,   *)
(* also when the subscribe races with the bind and both replay it; and     *)
(* when the XSUB connects after the bind, of its end.  The topic map is    *)
(* the link: it is exact (TopicMapExact), and HeardInv relates it to what  *)
(* was pushed.                                                             *)
(***************************************************************************)
THEOREM AlwaysHeardFromOne == Spec => []HeardFromOne
  <1>1. Init => HeardInv
    BY DEF Init, HeardInv, Heard
  <1>2. IInv /\ Notes /\ HeardInv /\ [Next]_vars => HeardInv'
    <2> SUFFICES ASSUME IInv, Notes, HeardInv, [Next]_vars PROVE HeardInv'
      OBVIOUS
    <2>1. CASE ~\E a \in Actor : Decide(a) \/ Push(a)
      BY <2>1, SetupKept, OnlyDecideAndPush DEF HeardInv, Terse, Heard, Pushing
    <2> QED BY <2>1, DecideHeard, PushHeard
  <1>3. IInv /\ Notes /\ HeardInv => HeardFromOne
    <2> SUFFICES ASSUME IInv, Notes, HeardInv, Terse, Cardinality(setup.xsubs) = 1, Quiet,
                        NEW t \in Topic
                 PROVE  /\ Wanted(t) => Heard(t)
                        /\ setup.bindFirst /\ Heard(t) => Wanted(t)
      BY DEF HeardFromOne
    <2>1. Heard(t) <=> topics[t] # {}
      BY DEF Notes, HeardInv, Pushing, Quiet
    <2>2. \A x \in Xsub : Settled(x)
      <3>1. Binding BY DEF IInv
      <3>2. pc[Xpub] = "idle" /\ \A x \in Xsub : pc[x] = "idle" BY DEF Quiet, Actor
      <3>3. peer[Xpub] \notin Xsub BY <3>1, <3>2, XpubAssumption DEF Binding
      <3> QED BY <3>2, <3>3 DEF Settled
    <2>3. peers \subseteq Xsub /\ topics[t] \subseteq Xsub BY DEF IInv, TypeOK
    <2>4. NoLostSubscription /\ NoGhostSubscription BY InvMapExact DEF TopicMapExact
    <2>5. Wanted(t) => topics[t] # {} BY <2>2, <2>3, <2>4 DEF Wanted, NoLostSubscription
    <2>6. setup.bindFirst /\ topics[t] # {} => Wanted(t)
      BY <2>2, <2>3, <2>4 DEF Wanted, NoGhostSubscription
    <2> QED BY <2>1, <2>5, <2>6
  <1> QED BY <1>1, <1>2, <1>3, InitNotes, NextNotes, AlwaysIInv, PTL DEF Spec
=============================================================================
