--------------------------- MODULE EventBusProofs ---------------------------
(***************************************************************************)
(* Proofs about the event bus for any number of publishers, subscribers,   *)
(* callers of Stop and topics, and any channel capacity.                   *)
(*                                                                         *)
(* BusInv is the inductive invariant of the life cycle.  StreamInv adds    *)
(* what makes each subscriber's stream complete, and OrderInv what keeps   *)
(* the messages of a publisher in order from its call to the log.          *)
(***************************************************************************)
EXTENDS EventBus, TLAPS, SequenceTheorems

\* What the two rendezvous of stop establish: whoever gets past them has seen
\* the processor return, and nothing is closed before that.
Handshake ==
    /\ \A c \in Stoppers : stopper[c] \in {"close", "done"} => proc.pc = "stopped"
    /\ closed # {} => proc.pc = "stopped"

\* Where the channel of a subscriber is: in the map, or closed once the map is
\* gone.
Registered ==
    /\ subscribers # Nil =>
          \A s \in Subs : sub[s].pc \in Subscribed =>
              /\ sub[s].topic \in Topics
              /\ \E i \in DOMAIN subscribers[sub[s].topic] :
                    subscribers[sub[s].topic][i] = s
    /\ subscribers = Nil => \A s \in Subs : sub[s].pc \in Subscribed => s \in closed
    /\ \A c \in Stoppers : stopper[c] = "done" => subscribers = Nil

\* The map is dropped by a caller of Stop that has stopped the bus.
StoppedFirst ==
    /\ \A c \in Stoppers : stopper[c] \in {"signal", "wait", "close", "done"}
                              => state = "stopped"
    /\ subscribers = Nil => state = "stopped"

\* An entry under way has a topic; the snapshot's counters are in range.
ActorsGood ==
    /\ \A p \in Publishers : pub[p].pc = "checked" => pub[p].entry \in Entry
    /\ proc.pc \in {"publish", "send"} => proc.entry \in Entry
    /\ proc.pc = "send" => /\ proc.si \in DOMAIN proc.targets
                           /\ proc.mi \in DOMAIN proc.entry.messages
    /\ \A s \in Subs : sub[s].pc \notin {"idle", "refused"} => sub[s].topic \in Topics
    /\ \A p \in Publishers : pub[p].pc = "checked" => pub[p].entry.messages # <<>>
    /\ \A i \in DOMAIN publishChan : publishChan[i].messages # <<>>
    /\ proc.pc \in {"publish", "send"} => proc.entry.messages # <<>>

BusInv == TypeOK /\ ActorsGood /\ Handshake /\ Registered /\ StoppedFirst

-----------------------------------------------------------------------------
\* A goroutine without an entry is well typed.
LEMMA NoEntryType == NoEntry \in Entry \cup {NoEntry}
OBVIOUS

\* The records the processing goroutine is given.
LEMMA ProcType ==
    ASSUME NEW pc \in {"select", "publish", "send", "ack", "stopped"},
           NEW e \in Entry \cup {NoEntry}, NEW ts \in Seq(Subs),
           NEW si \in Nat, NEW mi \in Nat
    PROVE  /\ Processing(pc, e, ts, si, mi) \in Processor
           /\ Processing(pc, e, ts, si, mi).pc = pc
           /\ Processing(pc, e, ts, si, mi).entry = e
           /\ Processing(pc, e, ts, si, mi).targets = ts
           /\ Processing(pc, e, ts, si, mi).si = si
           /\ Processing(pc, e, ts, si, mi).mi = mi
BY DEF Processing, Processor

\* A read of the map, nil or not, gives channels.
LEMMA SubscribersType ==
    ASSUME TypeOK, NEW t \in Topics
    PROVE  SubscribersOf(t) \in Seq(Subs)
BY DEF TypeOK, SubscribersOf

\* A subscriber moves on and keeps its topic; the others stay.
LEMMA SubMoves ==
    ASSUME TypeOK, NEW s \in Subs, NEW x, sub' = [sub EXCEPT ![s].pc = x]
    PROVE  /\ sub'[s].pc = x
           /\ sub'[s].topic = sub[s].topic
           /\ \A r \in Subs \ {s} : sub'[r] = sub[r]
BY DEF TypeOK, Subscriber

\* What a subscriber does other than registering its channel leaves alone.
LEMMA SubQuiet ==
    ASSUME TypeOK, NEW s \in Subs, SubscribeCheck(s) \/ ListenerStep(s)
    PROVE  /\ UNCHANGED <<state, subscribers, closed, proc, pub, stopper>>
           /\ \A r \in Subs : sub'[r].pc \in Subscribed =>
                 sub[r].pc \in Subscribed /\ sub'[r].topic = sub[r].topic
           /\ \A r \in Subs : sub'[r].pc = "panicked" => sub[r].pc = "panicked"
<1>1. CASE SubscribeCheck(s)
  <2>1. PICK t \in Topics : sub' = [sub EXCEPT ![s] =
              [pc |-> IF state = "started" THEN "checked" ELSE "refused", topic |-> t]]
    BY <1>1 DEF SubscribeCheck
  <2>2. sub'[s].pc \in {"checked", "refused"} /\ \A r \in Subs \ {s} : sub'[r] = sub[r]
    BY <2>1 DEF TypeOK
  <2> QED BY <1>1, <2>2 DEF SubscribeCheck, Subscribed, busVars
<1>2. CASE Listen(s)
  BY <1>2, SubMoves DEF Listen, Subscribed, busVars
<1>3. CASE HandleEvent(s)
  BY <1>3, SubMoves DEF HandleEvent, Subscribed, busVars
<1>4. CASE Receive(s)
  <2>1. \/ sub' = [sub EXCEPT ![s].pc = "handling"]
        \/ sub' = [sub EXCEPT ![s].pc = "ended"]
    BY <1>4 DEF Receive
  <2>2. /\ sub[s].pc = "listening"
        /\ UNCHANGED <<state, subscribers, closed, proc, pub, stopper>>
    BY <1>4 DEF Receive
  <2> QED BY <2>1, <2>2, SubMoves DEF Subscribed
<1> QED BY <1>1, <1>2, <1>3, <1>4 DEF ListenerStep

\* The invariant holds of the bus NewEventBus returns.
LEMMA BusInvInit == Init => BusInv
<1> SUFFICES ASSUME Init PROVE BusInv
  OBVIOUS
<1> USE DEF Init
<1>1. proc \in Processor /\ proc.pc = "select"
  <2>1. <<>> \in Seq(Subs) /\ NoEntry \in Entry \cup {NoEntry} /\ 1 \in Nat
    OBVIOUS
  <2>2. proc = [pc |-> "select", entry |-> NoEntry, targets |-> <<>>, si |-> 1, mi |-> 1]
    BY DEF Processing
  <2> QED BY ONLY <2>1, <2>2 DEF Processor
<1>2. \A p \in Publishers : pub[p] \in Publisher /\ pub[p].pc = "idle"
  <2>1. 0 \in 0..MaxEvents
    BY BusAssumption
  <2>2. [pc |-> "idle", entry |-> NoEntry, sent |-> 0] \in Publisher
    BY <2>1 DEF Publisher
  <2> QED BY <2>2
<1>3. \A s \in Subs : sub[s] \in Subscriber /\ sub[s].pc = "idle"
  BY DEF Subscriber, SubPC
<1>4. TypeOK
  <2>1. pub \in [Publishers -> Publisher]
    BY <1>2
  <2>2. sub \in [Subs -> Subscriber]
    BY <1>3
  <2>3. stopper \in [Stoppers -> StopPC]
    BY DEF StopPC
  <2>4. /\ state \in {"started", "stopped"}
        /\ publishChan \in Seq(Entry)
        /\ subscribers \in [Topics -> Seq(Subs)]
        /\ buffer \in [Subs -> Seq(Event)]
        /\ closed \subseteq Subs
        /\ log \in [Topics -> Seq(Event)]
        /\ joined \in [Subs -> Nat]
        /\ received \in [Subs -> Seq(Event)]
    OBVIOUS
  <2> QED BY <1>1, <2>1, <2>2, <2>3, <2>4 DEF TypeOK
<1>5. subscribers # Nil
  <2>1. subscribers \in [Topics -> Seq(Subs)]
    OBVIOUS
  <2> QED BY <2>1, NilAssumption
<1>6. \A c \in Stoppers : stopper[c] = "idle"
  OBVIOUS
<1>7. closed = {} /\ publishChan = <<>>
  OBVIOUS
<1> HIDE DEF Init
<1>8. ActorsGood
  BY <1>1, <1>2, <1>3, <1>7 DEF ActorsGood
<1>9. Handshake /\ Registered /\ StoppedFirst
  BY <1>1, <1>3, <1>5, <1>6, <1>7 DEF Handshake, Registered, StoppedFirst, Subscribed
<1> QED
  BY <1>4, <1>8, <1>9 DEF BusInv

-----------------------------------------------------------------------------
\* Types and counters, one action at a time.

\* Publish keeps the types.
LEMMA PublisherTypes ==
    ASSUME BusInv, NEW p \in Publishers, PublisherStep(p)
    PROVE  TypeOK' /\ ActorsGood'
<1> USE DEF BusInv
<1>1. pub[p] \in Publisher /\ publishChan \in Seq(Entry)
  BY DEF TypeOK
<1>2. CASE PublishCheck(p)
  <2>1. PICK t \in Topics, k \in 1..MaxBatch :
          /\ pub[p].sent + k <= MaxEvents
          /\ pub' = [pub EXCEPT ![p] =
                [pc |-> IF state = "started" THEN "checked" ELSE "idle",
                 entry |-> IF state = "started"
                           THEN [topic |-> t,
                                 messages |-> [i \in 1..k |->
                                     [pub |-> p, num |-> pub[p].sent + i]]]
                           ELSE NoEntry,
                 sent |-> pub[p].sent + k]]
    BY <1>2 DEF PublishCheck
  <2> DEFINE ms == [i \in 1..k |-> [pub |-> p, num |-> pub[p].sent + i]]
             e == [topic |-> t, messages |-> ms]
  <2>2. pub[p].sent \in Nat /\ k \in Nat /\ k > 0 /\ pub[p].sent + k \in 0..MaxEvents
    BY <1>1, <2>1, BusAssumption DEF Publisher
  <2>3. ms \in Seq(Event) /\ ms # <<>>
    <3>1. \A i \in 1..k : [pub |-> p, num |-> pub[p].sent + i] \in Event
      BY <2>1, <2>2, BusAssumption DEF Event
    <3>2. ms \in [1..k -> Event]
      BY <3>1
    <3>3. DOMAIN ms = 1..k /\ 1 \in 1..k
      BY <2>2
    <3> QED BY <2>2, <3>2, <3>3
  <2>4. e \in Entry /\ e.messages = ms
    BY <2>3 DEF Entry
  <2> HIDE DEF ms
  <2>5. pub'[p] \in Publisher
    <3>1. [pc |-> "checked", entry |-> e, sent |-> pub[p].sent + k] \in Publisher
      BY <2>2, <2>4 DEF Publisher
    <3>2. [pc |-> "idle", entry |-> NoEntry, sent |-> pub[p].sent + k] \in Publisher
      BY <2>2 DEF Publisher
    <3> QED BY <2>1, <3>1, <3>2 DEF TypeOK, ms
  <2>6. pub'[p].pc = "checked" => pub'[p].entry = e
    BY <2>1, <1>1 DEF TypeOK, ms
  <2>7. \A q \in Publishers \ {p} : pub'[q] = pub[q]
    BY <2>1 DEF TypeOK
  <2>8. pub' \in [Publishers -> Publisher]
    BY <2>1, <2>5, <2>7 DEF TypeOK
  <2>9. UNCHANGED <<state, publishChan, subscribers, buffer, closed, proc, sub, stopper,
                    log, joined, received>>
    BY <1>2 DEF PublishCheck, busVars, histVars
  <2>10. TypeOK'
    BY <2>8, <2>9 DEF TypeOK
  <2>11. \A q \in Publishers : pub'[q].pc = "checked" =>
             pub'[q].entry \in Entry /\ pub'[q].entry.messages # <<>>
    BY <2>3, <2>4, <2>6, <2>7 DEF ActorsGood
  <2> QED BY <2>9, <2>10, <2>11 DEF ActorsGood
<1>3. CASE PublishSend(p)
  <2>1. /\ publishChan' = Append(publishChan, pub[p].entry)
        /\ pub' = [pub EXCEPT ![p].pc = "idle", ![p].entry = NoEntry]
        /\ pub[p].pc = "checked"
        /\ UNCHANGED <<state, subscribers, buffer, closed, proc, sub, stopper,
                       log, joined, received>>
    BY <1>3 DEF PublishSend, histVars
  <2>2. pub[p].entry \in Entry /\ pub[p].entry.messages # <<>>
    BY <2>1 DEF ActorsGood
  <2>3. publishChan' \in Seq(Entry)
    BY <1>1, <2>1, <2>2
  <2>4. \A i \in DOMAIN publishChan' : publishChan'[i].messages # <<>>
    BY <1>1, <2>1, <2>2 DEF ActorsGood
  <2>5. pub'[p].pc = "idle" /\ pub'[p] \in Publisher
    BY <1>1, <2>1 DEF TypeOK, Publisher
  <2>6. \A q \in Publishers \ {p} : pub'[q] = pub[q]
    BY <2>1 DEF TypeOK
  <2>7. pub' \in [Publishers -> Publisher]
    BY <2>1, <2>5, <2>6 DEF TypeOK
  <2>8. TypeOK'
    BY <2>1, <2>3, <2>7 DEF TypeOK
  <2>9. \A q \in Publishers : pub'[q].pc = "checked" =>
             pub'[q].entry \in Entry /\ pub'[q].entry.messages # <<>>
    BY <2>5, <2>6 DEF ActorsGood
  <2> QED BY <2>1, <2>4, <2>8, <2>9 DEF ActorsGood
<1> QED
  BY <1>2, <1>3 DEF PublisherStep

\* Subscribe and the listener keep the types.
LEMMA SubscriberTypes ==
    ASSUME BusInv, NEW s \in Subs, SubscriberStep(s)
    PROVE  TypeOK' /\ ActorsGood'
<1> USE DEF BusInv
<1>1. sub[s] \in Subscriber /\ sub[s].topic \in Topics \cup {Nil}
  BY DEF TypeOK, Subscriber
<1>2. CASE UNCHANGED <<state, publishChan, subscribers, buffer, closed, proc, pub,
                       stopper, log, joined, received>>
  <2>1. SubscribeCheck(s) \/ SubscribeAppend(s) \/ Listen(s) \/ Receive(s) \/ HandleEvent(s)
    BY DEF SubscriberStep, ListenerStep
  <2> DEFINE Good == /\ sub' \in [Subs -> Subscriber]
                     /\ \A r \in Subs : sub'[r].pc \notin {"idle", "refused"}
                                          => sub'[r].topic \in Topics
  <2>2. Good
    <3>1. ASSUME NEW x \in SubPC, NEW t \in Topics,
                 sub' = [sub EXCEPT ![s] = [pc |-> x, topic |-> t]]
          PROVE  Good
      BY <3>1 DEF TypeOK, ActorsGood, Subscriber
    <3>2. ASSUME NEW x \in SubPC, sub' = [sub EXCEPT ![s].pc = x],
                 sub[s].pc \notin {"idle", "refused"}
          PROVE  Good
      BY <1>1, <3>2 DEF TypeOK, ActorsGood, Subscriber
    <3> HIDE DEF Good
    <3>3. CASE SubscribeCheck(s)
      BY <3>1, <3>3 DEF SubscribeCheck, SubPC
    <3>4. CASE SubscribeAppend(s)
      BY <3>2, <3>4 DEF SubscribeAppend, SubPC, Subscribed
    <3>5. CASE Listen(s) \/ HandleEvent(s)
      BY <3>2, <3>5 DEF Listen, HandleEvent, SubPC, Subscribed
    <3>6. CASE Receive(s)
      BY <3>2, <3>6 DEF Receive, SubPC, Subscribed
    <3> QED BY <2>1, <3>3, <3>4, <3>5, <3>6
  <2> QED BY <1>2, <2>2 DEF TypeOK, ActorsGood
<1>3. CASE SubscribeAppend(s) /\ subscribers # Nil
  <2>1. /\ subscribers' = [subscribers EXCEPT ![sub[s].topic] = Append(@, s)]
        /\ sub' = [sub EXCEPT ![s].pc = "ready"]
        /\ joined' = [joined EXCEPT ![s] = Len(log[sub[s].topic])]
        /\ sub[s].pc = "checked"
        /\ UNCHANGED <<state, publishChan, buffer, closed, proc, pub, stopper, log, received>>
    BY <1>3 DEF SubscribeAppend
  <2>2. sub[s].topic \in Topics
    BY <2>1 DEF ActorsGood
  <2>3. subscribers' \in [Topics -> Seq(Subs)]
    BY <1>3, <2>1, <2>2 DEF TypeOK
  <2>4. joined' \in [Subs -> Nat]
    BY <2>1, <2>2 DEF TypeOK
  <2>5. /\ sub' \in [Subs -> Subscriber]
        /\ \A r \in Subs : sub'[r].topic = sub[r].topic
        /\ \A r \in Subs \ {s} : sub'[r] = sub[r]
    BY <1>1, <2>1 DEF TypeOK, Subscriber, SubPC, Subscribed
  <2> QED BY <2>1, <2>2, <2>3, <2>4, <2>5 DEF TypeOK, ActorsGood
<1>4. CASE Receive(s) /\ buffer[s] # <<>>
  <2>1. /\ buffer' = [buffer EXCEPT ![s] = Tail(@)]
        /\ received' = [received EXCEPT ![s] = Append(@, Head(buffer[s]))]
        /\ sub' = [sub EXCEPT ![s].pc = "handling"]
        /\ sub[s].pc = "listening"
        /\ UNCHANGED <<state, publishChan, subscribers, closed, proc, pub, stopper,
                       log, joined>>
    BY <1>4 DEF Receive
  <2>2. buffer' \in [Subs -> Seq(Event)] /\ received' \in [Subs -> Seq(Event)]
    BY <1>4, <2>1 DEF TypeOK
  <2>3. /\ sub' \in [Subs -> Subscriber]
        /\ \A r \in Subs : sub'[r].topic = sub[r].topic
        /\ \A r \in Subs \ {s} : sub'[r] = sub[r]
    BY <1>1, <2>1 DEF TypeOK, Subscriber, SubPC, Subscribed
  <2> QED BY <2>1, <2>2, <2>3 DEF TypeOK, ActorsGood
<1> QED
  BY <1>2, <1>3, <1>4 DEF SubscriberStep, ListenerStep, SubscribeCheck, SubscribeAppend,
     Listen, Receive, HandleEvent, busVars, histVars

\* processMessages and publish keep the types.
LEMMA ProcessorTypes ==
    ASSUME BusInv, ProcessorStep
    PROVE  TypeOK' /\ ActorsGood'
<1> USE DEF BusInv
<1>1. proc \in Processor /\ publishChan \in Seq(Entry) /\ <<>> \in Seq(Subs)
  BY DEF TypeOK
<1>2. CASE TakeEntry
  <2>1. /\ proc' = Processing("publish", Head(publishChan), <<>>, 1, 1)
        /\ publishChan # <<>>
        /\ publishChan' = Tail(publishChan)
        /\ UNCHANGED <<state, subscribers, buffer, closed, pub, sub, stopper,
                       log, joined, received>>
    BY <1>2 DEF TakeEntry, histVars
  <2>2. publishChan' \in Seq(Entry) /\ Head(publishChan) \in Entry
    BY <1>1, <2>1
  <2>3. Head(publishChan).messages # <<>>
    BY <1>1, <2>1 DEF ActorsGood
  <2>4. \A i \in DOMAIN publishChan' : publishChan'[i].messages # <<>>
    BY <1>1, <2>1 DEF ActorsGood
  <2>5. proc' \in Processor /\ proc'.pc = "publish" /\ proc'.entry = Head(publishChan)
    BY <1>1, <2>1, <2>2 DEF Processing, Processor
  <2> QED BY <2>1, <2>2, <2>3, <2>4, <2>5 DEF TypeOK, ActorsGood
<1>3. ASSUME proc' = Processing("select", NoEntry, <<>>, 1, 1)
      PROVE  proc' \in Processor /\ proc'.pc = "select"
  BY <1>1, <1>3 DEF Processing, Processor
<1>4. CASE Snapshot
  <2> DEFINE ts == SubscribersOf(proc.entry.topic)
  <2>1. /\ proc.pc = "publish"
        /\ proc' = IF ts = <<>> THEN Processing("select", NoEntry, <<>>, 1, 1)
                                ELSE Processing("send", proc.entry, ts, 1, 1)
        /\ log' = [log EXCEPT ![proc.entry.topic] = @ \o proc.entry.messages]
        /\ UNCHANGED <<state, publishChan, subscribers, buffer, closed, pub, sub, stopper,
                       joined, received>>
    BY <1>4 DEF Snapshot, busVars
  <2>2. proc.entry \in Entry /\ proc.entry.messages # <<>>
    BY <2>1 DEF ActorsGood
  <2>3. proc.entry.topic \in Topics /\ proc.entry.messages \in Seq(Event)
    BY <2>2 DEF Entry
  <2>4. ts \in Seq(Subs)
    BY <2>3, SubscribersType
  <2>5. log' \in [Topics -> Seq(Event)]
    BY <2>1, <2>3 DEF TypeOK
  <2> HIDE DEF ts
  <2>6. CASE ts = <<>>
    BY <1>3, <2>1, <2>5, <2>6 DEF TypeOK, ActorsGood
  <2>7. CASE ts # <<>>
    <3>1. proc' = [pc |-> "send", entry |-> proc.entry, targets |-> ts, si |-> 1, mi |-> 1]
      BY <2>1, <2>7 DEF Processing
    <3>2. proc' \in Processor
      BY <2>2, <2>4, <3>1 DEF Processor
    <3>3. /\ proc'.pc = "send" /\ proc'.entry = proc.entry
          /\ proc'.si \in DOMAIN proc'.targets
          /\ proc'.mi \in DOMAIN proc'.entry.messages
      BY <2>2, <2>3, <2>4, <2>7, <3>1
    <3> QED BY <2>1, <2>2, <2>5, <3>2, <3>3 DEF TypeOK, ActorsGood
  <2> QED BY <2>6, <2>7
<1>5. CASE SendMessage
  <2>1. /\ proc.pc = "send"
        /\ buffer' = [buffer EXCEPT ![proc.targets[proc.si]] =
                         Append(@, proc.entry.messages[proc.mi])]
        /\ proc' = AfterSend
        /\ UNCHANGED <<state, publishChan, subscribers, closed, pub, sub, stopper,
                       log, joined, received>>
    BY <1>5 DEF SendMessage, histVars
  <2>2. /\ proc.entry \in Entry /\ proc.entry.messages # <<>>
        /\ proc.si \in DOMAIN proc.targets /\ proc.mi \in DOMAIN proc.entry.messages
    BY <2>1 DEF ActorsGood
  <2>3. proc.targets \in Seq(Subs) /\ proc.entry.messages \in Seq(Event)
    BY <1>1, <2>2 DEF Processor, Entry
  <2>4. proc.targets[proc.si] \in Subs /\ proc.entry.messages[proc.mi] \in Event
    BY <2>2, <2>3
  <2>5. buffer' \in [Subs -> Seq(Event)]
    BY <2>1, <2>4 DEF TypeOK
  <2>6. CASE proc.mi < Len(proc.entry.messages)
    <3>1. proc' = [pc |-> "send", entry |-> proc.entry, targets |-> proc.targets,
                   si |-> proc.si, mi |-> proc.mi + 1]
      BY <2>1, <2>6 DEF AfterSend, Processing
    <3>2. proc' \in Processor /\ proc'.mi \in DOMAIN proc.entry.messages
      BY <2>2, <2>3, <2>6, <3>1 DEF Processor
    <3> QED BY <2>1, <2>2, <2>5, <3>1, <3>2 DEF TypeOK, ActorsGood
  <2>7. CASE ~(proc.mi < Len(proc.entry.messages)) /\ proc.si < Len(proc.targets)
    <3>1. proc' = [pc |-> "send", entry |-> proc.entry, targets |-> proc.targets,
                   si |-> proc.si + 1, mi |-> 1]
      BY <2>1, <2>7 DEF AfterSend, Processing
    <3>2. /\ proc' \in Processor /\ proc'.si \in DOMAIN proc.targets
          /\ proc'.mi \in DOMAIN proc.entry.messages
      BY <2>2, <2>3, <2>7, <3>1 DEF Processor
    <3> QED BY <2>1, <2>2, <2>5, <3>1, <3>2 DEF TypeOK, ActorsGood
  <2>8. CASE ~(proc.mi < Len(proc.entry.messages)) /\ ~(proc.si < Len(proc.targets))
    <3>1. proc' = Processing("select", NoEntry, <<>>, 1, 1)
      BY <2>1, <2>8 DEF AfterSend
    <3> QED BY <1>3, <2>1, <2>5, <3>1 DEF TypeOK, ActorsGood
  <2> QED BY <2>6, <2>7, <2>8
<1> QED
  BY <1>2, <1>4, <1>5 DEF ProcessorStep

\* Stop keeps the types.
LEMMA StopperTypes ==
    ASSUME BusInv, NEW c \in Stoppers, StopBegin(c) \/ StopperStep(c)
    PROVE  TypeOK' /\ ActorsGood'
<1> USE DEF BusInv
<1>1. stopper' \in [Stoppers -> StopPC]
  BY DEF TypeOK, StopBegin, StopperStep, StopSignal, StopWait, StopClose, StopPC
<1>2. /\ UNCHANGED <<publishChan, buffer, pub, sub, log, joined, received>>
      /\ state' \in {"started", "stopped"}
      /\ subscribers' \in [Topics -> Seq(Subs)] \cup {Nil}
      /\ closed' \subseteq Subs
  BY DEF TypeOK, StopBegin, StopperStep, StopSignal, StopWait, StopClose, busVars, histVars
<1>3. proc' = proc \/ (proc' \in Processor /\ proc'.pc \in {"ack", "stopped"})
  BY DEF TypeOK, Processor, StopBegin, StopperStep, StopSignal, StopWait, StopClose
<1> QED
  BY <1>1, <1>2, <1>3 DEF TypeOK, ActorsGood

-----------------------------------------------------------------------------
\* The handshake of stop, the registered channels and the order of Stop.

\* Nobody gets past the two rendezvous of stop while the processor runs.
LEMMA HandshakeStep ==
    ASSUME BusInv, Next
    PROVE  Handshake'
<1> USE DEF BusInv
<1>1. CASE ProcessorStep
  <2>1. proc.pc # "stopped" /\ UNCHANGED <<closed, stopper>>
    BY <1>1 DEF ProcessorStep, TakeEntry, Snapshot, SendMessage, busVars
  <2> QED BY <2>1 DEF Handshake
<1>2. ASSUME NEW c \in Stoppers, StopBegin(c) PROVE Handshake'
  <2>1. /\ UNCHANGED <<closed, proc>>
        /\ \A d \in Stoppers : stopper'[d] \in {"close", "done"}
                                  => stopper[d] \in {"close", "done"}
    BY <1>2 DEF StopBegin, TypeOK
  <2> QED BY <2>1 DEF Handshake
<1>3. ASSUME NEW c \in Stoppers, StopSignal(c) PROVE Handshake'
  <2>1. /\ UNCHANGED closed
        /\ proc.pc # "stopped"
        /\ \A d \in Stoppers : stopper'[d] \in {"close", "done"}
                                  => stopper[d] \in {"close", "done"}
    BY <1>3 DEF StopSignal, TypeOK, busVars
  <2> QED BY <2>1 DEF Handshake
<1>4. ASSUME NEW c \in Stoppers, StopWait(c) PROVE Handshake'
  <2>1. proc'.pc = "stopped"
    BY <1>4 DEF StopWait, TypeOK, Processor
  <2> QED BY <2>1 DEF Handshake
<1>5. ASSUME NEW c \in Stoppers, StopClose(c) PROVE Handshake'
  <2>1. proc'.pc = "stopped"
    BY <1>5 DEF StopClose, Handshake
  <2> QED BY <2>1 DEF Handshake
<1>6. CASE UNCHANGED <<closed, proc, stopper>>
  BY <1>6 DEF Handshake
<1> QED
  BY <1>1, <1>2, <1>3, <1>4, <1>5, <1>6 DEF Next, PublisherStep, PublishCheck, PublishSend,
     SubscriberStep, SubscribeCheck, SubscribeAppend, ListenerStep, Listen, Receive,
     HandleEvent, StopperStep, busVars

\* The map is dropped only after the state was changed.
LEMMA StoppedFirstStep ==
    ASSUME BusInv, Next
    PROVE  StoppedFirst'
<1> USE DEF BusInv
<1>1. ASSUME NEW c \in Stoppers, StopBegin(c) PROVE StoppedFirst'
  BY <1>1 DEF StopBegin, StoppedFirst
<1>2. ASSUME NEW c \in Stoppers, StopperStep(c) PROVE StoppedFirst'
  <2>1. stopper[c] \in {"signal", "wait", "close"} /\ UNCHANGED state
    BY <1>2 DEF StopperStep, StopSignal, StopWait, StopClose, busVars
  <2> QED BY <2>1 DEF StoppedFirst
<1>3. CASE UNCHANGED <<state, stopper>> /\ (subscribers' = Nil => subscribers = Nil)
  BY <1>3 DEF StoppedFirst
<1>4. ASSUME NEW s \in Subs, SubscribeAppend(s), subscribers # Nil
      PROVE  subscribers' # Nil
  <2>1. /\ subscribers' = [subscribers EXCEPT ![sub[s].topic] = Append(@, s)]
        /\ sub[s].topic \in Topics
        /\ subscribers \in [Topics -> Seq(Subs)]
    BY <1>4 DEF SubscribeAppend, ActorsGood, TypeOK
  <2>2. subscribers' \in [Topics -> Seq(Subs)]
    BY <2>1
  <2> QED BY <2>2, NilAssumption
<1> QED
  BY <1>1, <1>2, <1>3, <1>4 DEF Next, PublisherStep, PublishCheck, PublishSend,
     SubscriberStep, SubscribeCheck, SubscribeAppend, ListenerStep, Listen, Receive,
     HandleEvent, ProcessorStep, TakeEntry, Snapshot, SendMessage, busVars

\* A channel stays in the map until it is closed.
LEMMA RegisteredStep ==
    ASSUME BusInv, Next
    PROVE  Registered'
<1> USE DEF BusInv
<1>1. ASSUME NEW s \in Subs, SubscribeAppend(s) PROVE Registered'
  <2>1. CASE subscribers = Nil
    <3>1. /\ \A r \in Subs : sub'[r].pc \in Subscribed => sub[r].pc \in Subscribed
          /\ UNCHANGED <<closed, stopper, subscribers>>
      BY <1>1, <2>1, SubMoves DEF SubscribeAppend, Subscribed
    <3> QED BY <2>1, <3>1 DEF Registered
  <2>2. CASE subscribers # Nil
    <3> DEFINE t == sub[s].topic
    <3>1. /\ subscribers' = [subscribers EXCEPT ![t] = Append(@, s)]
          /\ t \in Topics
          /\ subscribers \in [Topics -> Seq(Subs)]
          /\ UNCHANGED <<closed, stopper>>
          /\ sub' = [sub EXCEPT ![s].pc = "ready"]
      BY <1>1, <2>2 DEF SubscribeAppend, ActorsGood, TypeOK
    <3>2. subscribers' \in [Topics -> Seq(Subs)] /\ subscribers'[t] = Append(subscribers[t], s)
      BY <3>1
    <3>3. /\ \A r \in Subs \ {s} : sub'[r] = sub[r]
          /\ sub'[s].topic = t
      BY <3>1 DEF TypeOK, Subscriber
    <3>4. \E i \in DOMAIN subscribers'[t] : subscribers'[t][i] = s
      BY <3>1, <3>2
    <3>5. \A u \in Topics : \A i \in DOMAIN subscribers[u] :
              i \in DOMAIN subscribers'[u] /\ subscribers'[u][i] = subscribers[u][i]
      <4> SUFFICES ASSUME NEW u \in Topics, NEW i \in DOMAIN subscribers[u]
                   PROVE  i \in DOMAIN subscribers'[u] /\ subscribers'[u][i] = subscribers[u][i]
        OBVIOUS
      <4>1. CASE u # t
        BY <3>1, <4>1
      <4>2. CASE u = t
        BY <3>1, <3>2, <4>2
      <4> QED BY <4>1, <4>2
    <3>6. subscribers' # Nil
      BY <3>2, NilAssumption
    <3>7. \A r \in Subs : sub'[r].pc \in Subscribed =>
              /\ sub'[r].topic \in Topics
              /\ \E i \in DOMAIN subscribers'[sub'[r].topic] :
                    subscribers'[sub'[r].topic][i] = r
      <4> HIDE DEF t
      <4>1. \A r \in Subs \ {s} : sub'[r].pc \in Subscribed =>
              /\ sub'[r].topic \in Topics
              /\ \E i \in DOMAIN subscribers'[sub'[r].topic] :
                    subscribers'[sub'[r].topic][i] = r
        BY <2>2, <3>3, <3>5 DEF Registered
      <4> QED BY <3>1, <3>3, <3>4, <4>1
    <3>8. \A c \in Stoppers : stopper[c] # "done"
      BY <2>2 DEF Registered
    <3> QED BY <3>1, <3>6, <3>7, <3>8 DEF Registered
  <2> QED BY <2>1, <2>2
<1>2. ASSUME NEW c \in Stoppers, StopClose(c) PROVE Registered'
  <2>1. /\ subscribers' = Nil
        /\ UNCHANGED sub
        /\ closed' = closed \cup {s \in Subs :
               \E t \in Topics : \E i \in DOMAIN SubscribersOf(t) : SubscribersOf(t)[i] = s}
    BY <1>2 DEF StopClose
  <2>2. \A s \in Subs : sub[s].pc \in Subscribed => s \in closed'
    BY <2>1 DEF Registered, SubscribersOf
  <2> QED BY <2>1, <2>2 DEF Registered
<1>3. ASSUME NEW c \in Stoppers, StopBegin(c) \/ StopSignal(c) \/ StopWait(c)
      PROVE  Registered'
  <2>1. /\ UNCHANGED <<subscribers, closed, sub>>
        /\ \A d \in Stoppers : stopper'[d] = "done" => stopper[d] = "done"
    BY <1>3 DEF StopBegin, StopSignal, StopWait, TypeOK, busVars
  <2> QED BY <2>1 DEF Registered
<1>4. ASSUME NEW s \in Subs, SubscribeCheck(s) \/ ListenerStep(s) PROVE Registered'
  <2>1. /\ UNCHANGED <<subscribers, closed, stopper>>
        /\ \A r \in Subs : sub'[r].pc \in Subscribed =>
               sub[r].pc \in Subscribed /\ sub'[r].topic = sub[r].topic
    BY <1>4, SubQuiet
  <2> QED BY <2>1 DEF Registered
<1>5. CASE UNCHANGED <<subscribers, closed, sub, stopper>>
  BY <1>5 DEF Registered
<1> QED
  BY <1>1, <1>2, <1>3, <1>4, <1>5 DEF Next, PublisherStep, PublishCheck, PublishSend,
     SubscriberStep, ProcessorStep, TakeEntry, Snapshot, SendMessage, StopperStep, busVars

-----------------------------------------------------------------------------
\* Every step keeps the invariant.
LEMMA BusInvStep == BusInv /\ [Next]_vars => BusInv'
<1> SUFFICES ASSUME BusInv, [Next]_vars PROVE BusInv'
  OBVIOUS
<1>1. CASE Next
  <2>1. TypeOK' /\ ActorsGood'
    BY <1>1, PublisherTypes, SubscriberTypes, ProcessorTypes, StopperTypes DEF Next
  <2> QED BY <1>1, <2>1, HandshakeStep, StoppedFirstStep, RegisteredStep DEF BusInv
<1>2. CASE UNCHANGED vars
  BY <1>2 DEF BusInv, vars, busVars, actorVars, histVars, TypeOK, ActorsGood, Handshake,
     Registered, StoppedFirst
<1> QED BY <1>1, <1>2

\* The inductive invariant of the bus holds in every reachable state.
THEOREM BusInvariance == Spec => []BusInv
BY BusInvInit, BusInvStep, PTL DEF Spec

\* Publish, Subscribe, Stop and the listeners keep the bus well-typed.
THEOREM BusTypeCorrectness == Spec => []TypeOK
<1>1. BusInv => TypeOK
  BY DEF BusInv
<1> QED BY <1>1, BusInvariance, PTL

\* publish never sends on a channel that stop has closed, however the calls
\* overlap.
THEOREM NeverSendsOnClosed == Spec => []NoSendOnClosed
<1>1. BusInv => NoSendOnClosed
  BY DEF BusInv, Handshake, NoSendOnClosed
<1> QED BY <1>1, BusInvariance, PTL

\* When stop has returned, the processor has ended and every channel that
\* Subscribe returned is closed.
THEOREM StopClosesAll == Spec => []StoppedMeansClosed
<1>1. BusInv => StoppedMeansClosed
  BY DEF BusInv, Handshake, Registered, StoppedMeansClosed
<1> QED BY <1>1, BusInvariance, PTL

-----------------------------------------------------------------------------
\* Streams: what publish has still to send is cut from the snapshot, and the
\* snapshot is the topic's subscribers, each once.

\* What the processing goroutine, with the locals r, has still to send to s.
Rest(r, s) ==
    IF r.pc # "send" \/ ~\E i \in DOMAIN r.targets : r.targets[i] = s
    THEN <<>>
    ELSE LET i == CHOOSE i \in DOMAIN r.targets : r.targets[i] = s
         IN IF i < r.si THEN <<>>
            ELSE IF i = r.si
            THEN SubSeq(r.entry.messages, r.mi, Len(r.entry.messages))
            ELSE r.entry.messages

\* No channel is twice in a list.
Distinct(ts) == \A i, j \in DOMAIN ts : ts[i] = ts[j] => i = j

\* A list of subscribers of topic t, each once.
ListOf(ts, t) ==
    /\ Distinct(ts)
    /\ \A i \in DOMAIN ts : sub[ts[i]].pc \in Subscribed /\ sub[ts[i]].topic = t

\* The map lists a topic's subscribers, and so does a snapshot.
ListsGood ==
    /\ subscribers # Nil => \A t \in Topics : ListOf(subscribers[t], t)
    /\ proc.pc = "send" => ListOf(proc.targets, proc.entry.topic)

\* Nothing reaches a channel before Subscribe has returned it.
Fresh == \A s \in Subs : sub[s].pc \notin Subscribed => received[s] = <<>> /\ buffer[s] = <<>>

\* A subscriber joined no later than now.
JoinedGood == \A s \in Subs : sub[s].pc \in Subscribed => joined[s] <= Len(log[sub[s].topic])

StreamInv == BusInv /\ ListsGood /\ Fresh /\ JoinedGood /\ StreamComplete

-----------------------------------------------------------------------------
\* Lemmas about sequences.

\* A message moves from the channel to the listener.
LEMMA MoveHead ==
    ASSUME NEW S, NEW a \in Seq(S), NEW b \in Seq(S), b # <<>>
    PROVE  Append(a, Head(b)) \o Tail(b) = a \o b
<1> DEFINE x == Append(a, Head(b))
           y == Tail(b)
<1>1. /\ Head(b) \in S /\ y \in Seq(S) /\ Len(y) = Len(b) - 1
      /\ \A i \in 1..Len(y) : y[i] = b[i + 1]
      /\ Head(b) = b[1]
  BY HeadTailProperties
<1>2. /\ x \in Seq(S) /\ Len(x) = Len(a) + 1
      /\ \A i \in 1..Len(a) : x[i] = a[i]
      /\ x[Len(a) + 1] = b[1]
  BY <1>1, AppendProperties
<1> HIDE DEF x, y
<1>3. /\ x \o y \in Seq(S) /\ Len(x \o y) = Len(x) + Len(y)
      /\ \A i \in 1..(Len(x) + Len(y)) :
            (x \o y)[i] = IF i <= Len(x) THEN x[i] ELSE y[i - Len(x)]
  BY <1>1, <1>2, ConcatProperties
<1>4. /\ a \o b \in Seq(S) /\ Len(a \o b) = Len(a) + Len(b)
      /\ \A i \in 1..(Len(a) + Len(b)) :
            (a \o b)[i] = IF i <= Len(a) THEN a[i] ELSE b[i - Len(a)]
  BY ConcatProperties
<1>5. Len(a) \in Nat /\ Len(b) \in Nat /\ Len(b) > 0
  BY EmptySeq, LenProperties
<1>6. Len(x \o y) = Len(a \o b)
  BY <1>1, <1>2, <1>3, <1>4, <1>5
<1>7. ASSUME NEW i \in 1..Len(x \o y) PROVE (x \o y)[i] = (a \o b)[i]
  <2>1. CASE i <= Len(a)
    BY <1>2, <1>3, <1>4, <1>5, <1>6, <2>1
  <2>2. CASE i = Len(a) + 1
    BY <1>2, <1>3, <1>4, <1>5, <1>6, <2>2
  <2>3. CASE i > Len(a) + 1
    <3>1. i - Len(x) \in 1..Len(y) /\ i - Len(x) + 1 = i - Len(a)
      BY <1>1, <1>2, <1>3, <1>5, <2>3
    <3>2. (x \o y)[i] = y[i - Len(x)]
      BY <1>1, <1>2, <1>3, <1>5, <2>3
    <3>3. (a \o b)[i] = b[i - Len(a)]
      BY <1>4, <1>5, <1>6, <2>3
    <3> QED BY <1>1, <3>1, <3>2, <3>3
  <2> QED BY <1>4, <1>5, <1>6, <2>1, <2>2, <2>3
<1>8. x \o y = a \o b
  BY <1>3, <1>4, <1>6, <1>7, SeqEqual
<1> QED BY <1>8 DEF x, y

\* The log grows behind what a subscriber has to get.
LEMMA SuffixGrows ==
    ASSUME NEW S, NEW l \in Seq(S), NEW m \in Seq(S), NEW j \in Nat, j <= Len(l)
    PROVE  SubSeq(l \o m, j + 1, Len(l \o m)) = SubSeq(l, j + 1, Len(l)) \o m
<1> DEFINE c == l \o m
           x == SubSeq(c, j + 1, Len(c))
           y == SubSeq(l, j + 1, Len(l))
<1>1. Len(l) \in Nat /\ Len(m) \in Nat
  BY LenProperties
<1>2. /\ c \in Seq(S) /\ Len(c) = Len(l) + Len(m)
      /\ \A i \in 1..(Len(l) + Len(m)) : c[i] = IF i <= Len(l) THEN l[i] ELSE m[i - Len(l)]
  BY ConcatProperties
<1> HIDE DEF c
<1>3. \A i \in (j + 1)..Len(c) : c[i] \in S
  BY <1>1, <1>2, ElementOfSeq
<1>4. \A i \in (j + 1)..Len(l) : l[i] \in S
  BY <1>1, ElementOfSeq
<1>5. /\ x \in Seq(S) /\ Len(x) = Len(c) - j
      /\ \A i \in 1..(Len(c) - j) : x[i] = c[j + i]
  <2>1. /\ x \in Seq(S) /\ Len(x) = IF j + 1 <= Len(c) THEN Len(c) - (j + 1) + 1 ELSE 0
        /\ \A i \in 1..(Len(c) - (j + 1) + 1) : x[i] = c[(j + 1) + i - 1]
    BY <1>1, <1>2, <1>3, SubSeqProperties
  <2> HIDE DEF x
  <2>2. Len(x) = Len(c) - j
    BY <1>1, <1>2, <2>1
  <2>3. ASSUME NEW i \in 1..(Len(c) - j) PROVE x[i] = c[j + i]
    <3>1. i \in 1..(Len(c) - (j + 1) + 1) /\ (j + 1) + i - 1 = j + i
      BY <1>1, <1>2
    <3> QED BY <2>1, <3>1
  <2> QED BY <2>1, <2>2, <2>3
<1>6. /\ y \in Seq(S) /\ Len(y) = Len(l) - j
      /\ \A i \in 1..(Len(l) - j) : y[i] = l[j + i]
  <2>1. /\ y \in Seq(S) /\ Len(y) = IF j + 1 <= Len(l) THEN Len(l) - (j + 1) + 1 ELSE 0
        /\ \A i \in 1..(Len(l) - (j + 1) + 1) : y[i] = l[(j + 1) + i - 1]
    BY <1>1, <1>4, SubSeqProperties
  <2> HIDE DEF y
  <2>2. Len(y) = Len(l) - j
    BY <1>1, <2>1
  <2>3. ASSUME NEW i \in 1..(Len(l) - j) PROVE y[i] = l[j + i]
    <3>1. i \in 1..(Len(l) - (j + 1) + 1) /\ (j + 1) + i - 1 = j + i
      BY <1>1
    <3> QED BY <2>1, <3>1
  <2> QED BY <2>1, <2>2, <2>3
<1> HIDE DEF x, y
<1>7. /\ y \o m \in Seq(S) /\ Len(y \o m) = Len(y) + Len(m)
      /\ \A i \in 1..(Len(y) + Len(m)) :
            (y \o m)[i] = IF i <= Len(y) THEN y[i] ELSE m[i - Len(y)]
  BY <1>6, ConcatProperties
<1>8. Len(x) = Len(y \o m)
  BY <1>1, <1>2, <1>5, <1>6, <1>7
<1>9. ASSUME NEW i \in 1..Len(x) PROVE x[i] = (y \o m)[i]
  <2>1. x[i] = c[j + i] /\ j + i \in 1..(Len(l) + Len(m))
    BY <1>1, <1>2, <1>5
  <2>2. CASE i <= Len(l) - j
    <3>1. c[j + i] = l[j + i]
      BY <1>1, <1>2, <2>1, <2>2
    <3>2. (y \o m)[i] = l[j + i]
      BY <1>1, <1>6, <1>7, <1>8, <2>2
    <3> QED BY <2>1, <3>1, <3>2
  <2>3. CASE i > Len(l) - j
    <3>1. c[j + i] = m[(j + i) - Len(l)]
      BY <1>1, <1>2, <2>1, <2>3
    <3>2. (y \o m)[i] = m[i - Len(y)]
      BY <1>1, <1>6, <1>7, <1>8, <2>3
    <3>3. (j + i) - Len(l) = i - Len(y)
      BY <1>1, <1>6
    <3> QED BY <2>1, <3>1, <3>2, <3>3
  <2>4. Len(x) \in Nat
    BY <1>5, LenProperties
  <2>5. i \in Nat /\ Len(l) - j \in Int
    BY <1>1, <2>4
  <2>6. i <= Len(l) - j \/ i > Len(l) - j
    BY <2>5
  <2> QED BY <2>2, <2>3, <2>6
<1>10. x = y \o m
  BY <1>5, <1>7, <1>8, <1>9, SeqEqual
<1> QED BY <1>10 DEF x, y, c

\* Concatenation, left unexpanded where only its laws matter.
Join(a, b) == a \o b

\* Joining is associative.
LEMMA JoinAssociative ==
    ASSUME NEW S, NEW a \in Seq(S), NEW b \in Seq(S), NEW c \in Seq(S)
    PROVE  /\ Join(a, b) \in Seq(S)
           /\ Join(Join(a, b), c) = Join(a, Join(b, c))
<1>1. Join(a, b) \in Seq(S)
  BY ConcatProperties DEF Join
<1>2. Join(Join(a, b), c) = Join(a, Join(b, c))
  BY ConcatAssociative DEF Join
<1> QED BY <1>1, <1>2

\* Messages move from what is to be sent to the channel.
LEMMA MoveFirst ==
    ASSUME NEW S, NEW a \in Seq(S), NEW b \in Seq(S), NEW y \in Seq(S), NEW z \in Seq(S)
    PROVE  Join(Join(a, Join(b, z)), y) = Join(Join(a, b), Join(z, y))
<1>1. Join(a, b) \in Seq(S)
  BY JoinAssociative
<1>2. Join(Join(a, b), z) = Join(a, Join(b, z))
  BY JoinAssociative
<1>3. Join(Join(Join(a, b), z), y) = Join(Join(a, b), Join(z, y))
  BY <1>1, JoinAssociative
<1> QED BY <1>2, <1>3

-----------------------------------------------------------------------------
\* What publish has still to send.

\* The two ways of saying it agree.
LEMMA PendingIsRest == \A s \in Subs : Pending(s) = Rest(proc, s)
BY DEF Pending, Rest

\* Nothing, unless it is sending to the subscriber.
LEMMA RestNone ==
    ASSUME NEW r, NEW s, r.pc # "send" \/ \A i \in DOMAIN r.targets : r.targets[i] # s
    PROVE  Rest(r, s) = <<>>
BY DEF Rest

\* The part of the entry that the loops have not reached.
LEMMA RestAt ==
    ASSUME NEW r, r.pc = "send", Distinct(r.targets), NEW i \in DOMAIN r.targets
    PROVE  Rest(r, r.targets[i]) =
             IF i < r.si THEN <<>>
             ELSE IF i = r.si
             THEN SubSeq(r.entry.messages, r.mi, Len(r.entry.messages))
             ELSE r.entry.messages
<1> DEFINE s == r.targets[i]
           P(k) == k \in DOMAIN r.targets /\ r.targets[k] = s
           j == CHOOSE k \in DOMAIN r.targets : r.targets[k] = s
<1>1. \E k \in DOMAIN r.targets : r.targets[k] = s
  OBVIOUS
<1>2. j \in DOMAIN r.targets /\ r.targets[j] = s
  BY <1>1
<1>3. j = i
  BY <1>2 DEF Distinct
<1> QED BY <1>1, <1>3 DEF Rest

\* It is a sequence of messages.
LEMMA RestType ==
    ASSUME TypeOK, ActorsGood, NEW s \in Subs, proc.pc = "send" => Distinct(proc.targets)
    PROVE  Rest(proc, s) \in Seq(Event)
<1>1. CASE proc.pc # "send" \/ \A i \in DOMAIN proc.targets : proc.targets[i] # s
  BY <1>1, RestNone, EmptySeq
<1>2. CASE proc.pc = "send" /\ \E i \in DOMAIN proc.targets : proc.targets[i] = s
  <2>1. PICK i \in DOMAIN proc.targets : proc.targets[i] = s
    BY <1>2
  <2>2. /\ proc.entry.messages \in Seq(Event)
        /\ proc.mi \in 1..Len(proc.entry.messages)
    <3>1. proc.entry.messages \in Seq(Event) /\ proc.mi \in DOMAIN proc.entry.messages
      BY <1>2 DEF ActorsGood, Entry
    <3> QED BY <3>1, LenProperties
  <2> DEFINE m == proc.entry.messages
             k == proc.mi
  <2> HIDE DEF m, k
  <2>3. m \in Seq(Event) /\ k \in 1..Len(m) /\ Len(m) \in Nat
    BY <2>2, LenProperties DEF m, k
  <2>4. SubSeq(m, k, Len(m)) \in Seq(Event)
    <3>1. \A n \in k..Len(m) : m[n] \in Event
      BY <2>3, ElementOfSeq
    <3> QED BY <2>3, <3>1, SubSeqProperties
  <2> QED BY <1>2, <2>1, <2>3, <2>4, RestAt, EmptySeq DEF m, k
<1> QED BY <1>1, <1>2

-----------------------------------------------------------------------------
\* One subscriber's stream, in terms of its parts.
Whole(s) ==
    received[s] \o buffer[s] \o Rest(proc, s)
        = SubSeq(log[sub[s].topic], joined[s] + 1, Len(log[sub[s].topic]))

\* The property speaks of each stream.
LEMMA StreamMeans ==
    StreamComplete <=> \A s \in Subs : sub[s].pc \in Subscribed => Whole(s)
BY PendingIsRest DEF StreamComplete, Whole

\* The same of the next state.
LEMMA StreamMeansNext ==
    ASSUME \A s \in Subs : sub'[s].pc \in Subscribed => Whole(s)'
    PROVE  StreamComplete'
<1>1. SUFFICES ASSUME NEW s \in Subs, sub'[s].pc \in Subscribed
               PROVE  received'[s] \o buffer'[s] \o Pending(s)'
                        = SubSeq(log'[sub'[s].topic], joined'[s] + 1, Len(log'[sub'[s].topic]))
  BY DEF StreamComplete
<1>2. Pending(s)' = Rest(proc', s)
  BY DEF Pending, Rest
<1>3. Whole(s)'
  BY <1>1
<1> QED BY <1>2, <1>3 DEF Whole

\* A stream whose parts are as they were.
LEMMA WholeKept ==
    ASSUME NEW s \in Subs, Whole(s), received'[s] = received[s], buffer'[s] = buffer[s],
           Rest(proc', s) = Rest(proc, s), sub'[s].topic = sub[s].topic,
           log'[sub[s].topic] = log[sub[s].topic], joined'[s] = joined[s]
    PROVE  Whole(s)'
<1>1. Whole(s)' <=> received'[s] \o buffer'[s] \o Rest(proc', s)
        = SubSeq(log'[sub'[s].topic], joined'[s] + 1, Len(log'[sub'[s].topic]))
  BY DEF Whole, Rest
<1> QED BY <1>1 DEF Whole

\* Nothing that streams are made of changes.
StreamQuiet ==
    /\ UNCHANGED <<received, buffer, log, joined>>
    /\ \A s \in Subs : Rest(proc', s) = Rest(proc, s)
    /\ \A s \in Subs : sub'[s].pc \in Subscribed <=> sub[s].pc \in Subscribed
    /\ \A s \in Subs : sub[s].pc \in Subscribed => sub'[s].topic = sub[s].topic
    /\ subscribers' \in {subscribers, Nil}
    /\ proc' = proc \/ proc'.pc # "send"

\* Such a step keeps the streams.
LEMMA QuietStreams ==
    ASSUME StreamInv, BusInv', StreamQuiet
    PROVE  StreamInv'
<1>1. ListsGood /\ Fresh /\ JoinedGood /\ StreamComplete
  BY DEF StreamInv
<1>2. ListsGood'
  <2>1. \A ts, t : (\A i \in DOMAIN ts : ts[i] \in Subs) /\ ListOf(ts, t) => ListOf(ts, t)'
    BY DEF StreamQuiet, ListOf
  <2>2. ASSUME subscribers' # Nil, NEW t \in Topics PROVE ListOf(subscribers[t], t)'
    <3>1. subscribers' = subscribers /\ subscribers[t] \in Seq(Subs) /\ ListOf(subscribers[t], t)
      BY <1>1, <2>2 DEF StreamQuiet, ListsGood, StreamInv, BusInv, TypeOK
    <3>2. \A i \in DOMAIN subscribers[t] : subscribers[t][i] \in Subs
      BY <3>1
    <3>3. subscribers'[t] = subscribers[t]
      BY <3>1
    <3> QED BY <3>1, <3>2, <3>3 DEF StreamQuiet, ListOf
  <2>3. ASSUME proc'.pc = "send" PROVE ListOf(proc.targets, proc.entry.topic)'
    <3>1. /\ proc' = proc /\ proc.targets \in Seq(Subs)
          /\ ListOf(proc.targets, proc.entry.topic)
      BY <1>1, <2>3 DEF StreamQuiet, ListsGood, StreamInv, BusInv, TypeOK, Processor
    <3>2. \A i \in DOMAIN proc.targets : proc.targets[i] \in Subs
      BY <3>1
    <3> QED BY <2>1, <3>1, <3>2 DEF ListOf
  <2> QED BY <2>2, <2>3 DEF ListsGood
<1>3. Fresh' /\ JoinedGood'
  BY <1>1 DEF StreamQuiet, Fresh, JoinedGood
<1>4. \A s \in Subs : sub'[s].pc \in Subscribed => Whole(s)'
  BY <1>1, StreamMeans, WholeKept DEF StreamQuiet
<1> QED BY <1>2, <1>3, <1>4, StreamMeansNext DEF StreamInv

-----------------------------------------------------------------------------
\* The streams, one action at a time.

\* They are empty at the start.
LEMMA StreamInit == Init => StreamInv
<1> SUFFICES ASSUME Init PROVE StreamInv
  OBVIOUS
<1>1. BusInv
  BY BusInvInit
<1>2. /\ proc.pc = "select"
      /\ \A s \in Subs : sub[s].pc \notin Subscribed
      /\ \A s \in Subs : received[s] = <<>> /\ buffer[s] = <<>>
      /\ \A t \in Topics : subscribers[t] = <<>>
  BY DEF Init, Processing, Subscribed
<1>3. ListsGood
  BY <1>2 DEF ListsGood, ListOf, Distinct
<1>4. Fresh /\ JoinedGood /\ StreamComplete
  BY <1>2 DEF Fresh, JoinedGood, StreamComplete
<1> QED BY <1>1, <1>3, <1>4 DEF StreamInv

\* A publisher's step.
LEMMA PublisherQuiet ==
    ASSUME TypeOK, NEW p \in Publishers, PublisherStep(p)
    PROVE  StreamQuiet
BY DEF PublisherStep, PublishCheck, PublishSend, StreamQuiet, busVars, histVars

\* A subscriber's step that neither registers a channel nor takes a message.
LEMMA SubscriberQuiet ==
    ASSUME TypeOK, NEW s \in Subs, SubscriberStep(s),
           ~(SubscribeAppend(s) /\ subscribers # Nil),
           ~(Receive(s) /\ buffer[s] # <<>>)
    PROVE  StreamQuiet
<1>1. UNCHANGED <<received, buffer, log, joined, subscribers, proc>>
  BY DEF SubscriberStep, ListenerStep, SubscribeCheck, SubscribeAppend, Listen, Receive,
     HandleEvent, busVars, histVars
<1>2. /\ \A r \in Subs : sub'[r].pc \in Subscribed <=> sub[r].pc \in Subscribed
      /\ \A r \in Subs : sub[r].pc \in Subscribed => sub'[r].topic = sub[r].topic
  <2>1. CASE SubscribeCheck(s)
    <3>1. PICK t \in Topics : sub' = [sub EXCEPT ![s] =
              [pc |-> IF state = "started" THEN "checked" ELSE "refused", topic |-> t]]
      BY <2>1 DEF SubscribeCheck
    <3>2. sub'[s].pc \in {"checked", "refused"} /\ \A r \in Subs \ {s} : sub'[r] = sub[r]
      BY <3>1 DEF TypeOK
    <3>3. sub[s].pc = "idle"
      BY <2>1 DEF SubscribeCheck
    <3> QED BY <3>2, <3>3 DEF Subscribed
  <2>2. CASE SubscribeAppend(s)
    <3>1. sub[s].pc = "checked" /\ sub' = [sub EXCEPT ![s].pc = "panicked"]
      BY <2>2 DEF SubscribeAppend
    <3> QED BY <3>1, SubMoves DEF Subscribed
  <2>3. CASE ListenerStep(s)
    <3>1. PICK x \in Subscribed : sub[s].pc \in Subscribed /\ sub' = [sub EXCEPT ![s].pc = x]
      BY <2>3 DEF ListenerStep, Listen, Receive, HandleEvent, Subscribed
    <3> QED BY <3>1, SubMoves
  <2> QED BY <2>1, <2>2, <2>3 DEF SubscriberStep
<1> QED BY <1>1, <1>2 DEF StreamQuiet

\* The processor takes an entry and sends nothing yet.
LEMMA TakeQuiet ==
    ASSUME TypeOK, TakeEntry
    PROVE  StreamQuiet
<1>1. /\ UNCHANGED <<received, buffer, log, joined, subscribers, sub>>
      /\ proc.pc = "select"
      /\ proc' = Processing("publish", Head(publishChan), <<>>, 1, 1)
  BY DEF TakeEntry, histVars
<1>2. proc'.pc = "publish"
  BY <1>1 DEF Processing
<1>3. \A s \in Subs : Rest(proc, s) = <<>> /\ Rest(proc', s) = <<>>
  BY <1>1, <1>2, RestNone
<1> QED BY <1>1, <1>2, <1>3 DEF StreamQuiet

\* Stop, which meets the processor only between two entries.
LEMMA StopperQuiet ==
    ASSUME TypeOK, NEW c \in Stoppers, StopBegin(c) \/ StopperStep(c)
    PROVE  StreamQuiet
<1>1. /\ UNCHANGED <<received, buffer, log, joined, sub>>
      /\ subscribers' \in {subscribers, Nil}
  BY DEF StopBegin, StopperStep, StopSignal, StopWait, StopClose, busVars, histVars
<1>2. proc' = proc \/ (proc.pc # "send" /\ proc'.pc # "send")
  BY DEF TypeOK, Processor, StopBegin, StopperStep, StopSignal, StopWait, StopClose
<1>3. \A s \in Subs : Rest(proc', s) = Rest(proc, s)
  BY <1>2, RestNone
<1> QED BY <1>1, <1>2, <1>3 DEF StreamQuiet

\* A new channel joins the topic's list and has no part in the snapshot.
LEMMA AppendStream ==
    ASSUME StreamInv, BusInv', NEW s \in Subs, SubscribeAppend(s), subscribers # Nil
    PROVE  StreamInv'
<1> DEFINE t == sub[s].topic
<1>1. /\ subscribers' = [subscribers EXCEPT ![t] = Append(@, s)]
      /\ sub' = [sub EXCEPT ![s].pc = "ready"]
      /\ joined' = [joined EXCEPT ![s] = Len(log[t])]
      /\ sub[s].pc = "checked"
      /\ UNCHANGED <<buffer, proc, log, received>>
  BY DEF SubscribeAppend
<1>2. TypeOK /\ ActorsGood /\ ListsGood /\ Fresh /\ JoinedGood /\ StreamComplete
  BY DEF StreamInv, BusInv
<1>3. t \in Topics /\ subscribers \in [Topics -> Seq(Subs)] /\ log[t] \in Seq(Event)
  BY <1>1, <1>2 DEF ActorsGood, TypeOK
<1>4. /\ sub'[s].pc = "ready" /\ sub'[s].topic = t
      /\ \A r \in Subs \ {s} : sub'[r] = sub[r]
  BY <1>1, <1>2, SubMoves
<1> HIDE DEF t
<1>5. sub'[s].pc \in Subscribed /\ sub[s].pc \notin Subscribed
  BY <1>1, <1>4 DEF Subscribed
<1>6. \A r \in Subs : sub[r].pc \in Subscribed => r # s /\ sub'[r] = sub[r]
  BY <1>4, <1>5
<1>7. ASSUME NEW ts, NEW u, \A i \in DOMAIN ts : ts[i] \in Subs, ListOf(ts, u)
      PROVE  /\ \A i \in DOMAIN ts : ts[i] # s
             /\ \A i \in DOMAIN ts : sub'[ts[i]].pc \in Subscribed /\ sub'[ts[i]].topic = u
             /\ Distinct(ts)
  BY <1>6, <1>7 DEF ListOf
<1>8. \A u \in Topics : ListOf(subscribers[u], u)
  BY <1>2 DEF ListsGood
<1>9. ListsGood'
  <2>1. ASSUME NEW u \in Topics PROVE ListOf(subscribers[u], u)'
    <3> DEFINE ts == subscribers[u]
    <3>1. ts \in Seq(Subs) /\ \A i \in DOMAIN ts : ts[i] \in Subs
      BY <1>3, ElementOfSeq, LenProperties
    <3>2. /\ \A i \in DOMAIN ts : ts[i] # s
          /\ \A i \in DOMAIN ts : sub'[ts[i]].pc \in Subscribed /\ sub'[ts[i]].topic = u
          /\ Distinct(ts)
      BY <1>7, <1>8, <3>1
    <3>3. CASE u # t
      <4>1. subscribers'[u] = ts
        BY <1>1, <1>3, <3>3
      <4> QED BY <3>2, <4>1 DEF ListOf, Distinct
    <3>4. CASE u = t
      <4> DEFINE ns == Append(ts, s)
      <4>1. subscribers'[u] = ns
        BY <1>1, <1>3, <3>4
      <4>2. /\ DOMAIN ns = 1..(Len(ts) + 1) /\ DOMAIN ts = 1..Len(ts) /\ Len(ts) \in Nat
            /\ \A i \in DOMAIN ts : ns[i] = ts[i]
            /\ ns[Len(ts) + 1] = s
        <5> HIDE DEF ts
        <5>1. ts \in Seq(Subs) /\ Len(ts) \in Nat /\ DOMAIN ts = 1..Len(ts)
          BY <3>1, LenProperties
        <5> QED BY <5>1, AppendProperties
      <4> HIDE DEF ts, ns
      <4>3. \A i \in DOMAIN ns : i \in DOMAIN ts \/ i = Len(ts) + 1
        BY <4>2
      <4>4. Distinct(ns)
        BY <3>2, <4>2, <4>3 DEF Distinct
      <4>5. \A i \in DOMAIN ns : sub'[ns[i]].pc \in Subscribed /\ sub'[ns[i]].topic = u
        BY <1>4, <1>5, <3>2, <3>4, <4>2, <4>3
      <4> QED BY <4>1, <4>4, <4>5 DEF ListOf, Distinct
    <3> QED BY <3>3, <3>4
  <2>2. ASSUME proc.pc = "send" PROVE ListOf(proc.targets, proc.entry.topic)'
    <3>1. proc.targets \in Seq(Subs) /\ ListOf(proc.targets, proc.entry.topic)
      BY <1>2, <2>2 DEF TypeOK, Processor, ListsGood
    <3>2. \A i \in DOMAIN proc.targets : proc.targets[i] \in Subs
      BY <3>1, ElementOfSeq, LenProperties
    <3> DEFINE ts == proc.targets
               u == proc.entry.topic
    <3>3. proc' = proc
      BY <1>1
    <3>4. /\ \A i \in DOMAIN ts : sub'[ts[i]].pc \in Subscribed /\ sub'[ts[i]].topic = u
          /\ Distinct(ts)
      BY <1>7, <3>1, <3>2
    <3> QED BY <3>3, <3>4 DEF ListOf, Distinct
  <2> QED BY <1>1, <2>1, <2>2 DEF ListsGood
<1>10. Fresh'
  BY <1>1, <1>2, <1>4, <1>5 DEF Fresh
<1>11. joined'[s] = Len(log[t]) /\ \A r \in Subs \ {s} : joined'[r] = joined[r]
  BY <1>1, <1>2 DEF TypeOK
<1>12. JoinedGood'
  <2>1. log' = log /\ Len(log[t]) \in Nat
    BY <1>1, <1>3, LenProperties
  <2> QED BY <1>2, <1>4, <1>11, <2>1 DEF JoinedGood
<1>13. Whole(s)'
  <2>1. received'[s] = <<>> /\ buffer'[s] = <<>>
    BY <1>1, <1>2, <1>5 DEF Fresh
  <2>2. Rest(proc', s) = <<>>
    <3>1. ASSUME proc.pc = "send" PROVE \A i \in DOMAIN proc.targets : proc.targets[i] # s
      <4>1. proc.targets \in Seq(Subs) /\ ListOf(proc.targets, proc.entry.topic)
        BY <1>2, <3>1 DEF TypeOK, Processor, ListsGood
      <4> QED BY <1>5, <4>1 DEF ListOf
    <3>2. Rest(proc, s) = <<>>
      BY <3>1, RestNone
    <3> QED BY <1>1, <3>2
  <2>3. SubSeq(log[t], Len(log[t]) + 1, Len(log[t])) = <<>>
    BY <1>3, LenProperties, SubSeqEmpty
  <2>4. Whole(s)' <=> received'[s] \o buffer'[s] \o Rest(proc', s)
        = SubSeq(log'[sub'[s].topic], joined'[s] + 1, Len(log'[sub'[s].topic]))
    BY DEF Whole, Rest
  <2>5. log' = log
    BY <1>1
  <2>6. (<<>> \o <<>>) \o <<>> = <<>>
    OBVIOUS
  <2> QED BY <1>4, <1>11, <2>1, <2>2, <2>3, <2>4, <2>5, <2>6
<1>14. ASSUME NEW r \in Subs, sub'[r].pc \in Subscribed PROVE Whole(r)'
  <2>1. CASE r = s
    BY <1>13, <2>1
  <2>2. CASE r # s
    <3>1. Whole(r)
      BY <1>2, <1>4, <1>14, <2>2, StreamMeans
    <3> QED BY <1>1, <1>4, <1>11, <2>2, <3>1, WholeKept
  <2> QED BY <2>1, <2>2
<1> QED BY <1>9, <1>10, <1>12, <1>14, StreamMeansNext DEF StreamInv

\* The listener moves a message from the channel to what it received.
LEMMA ReceiveStream ==
    ASSUME StreamInv, BusInv', NEW s \in Subs, Receive(s), buffer[s] # <<>>
    PROVE  StreamInv'
<1>1. /\ buffer' = [buffer EXCEPT ![s] = Tail(@)]
      /\ received' = [received EXCEPT ![s] = Append(@, Head(buffer[s]))]
      /\ sub' = [sub EXCEPT ![s].pc = "handling"]
      /\ sub[s].pc = "listening"
      /\ UNCHANGED <<subscribers, proc, log, joined>>
  BY DEF Receive
<1>2. TypeOK /\ ListsGood /\ Fresh /\ JoinedGood /\ StreamComplete
  BY DEF StreamInv, BusInv
<1>3. /\ sub'[s].pc = "handling" /\ sub'[s].topic = sub[s].topic
      /\ \A r \in Subs \ {s} : sub'[r] = sub[r]
  BY <1>1, <1>2, SubMoves
<1>4. /\ \A r \in Subs : sub'[r].pc \in Subscribed <=> sub[r].pc \in Subscribed
      /\ \A r \in Subs : sub'[r].topic = sub[r].topic
  BY <1>1, <1>3 DEF Subscribed
<1>5. /\ buffer'[s] = Tail(buffer[s]) /\ received'[s] = Append(received[s], Head(buffer[s]))
      /\ \A r \in Subs \ {s} : buffer'[r] = buffer[r] /\ received'[r] = received[r]
      /\ buffer[s] \in Seq(Event) /\ received[s] \in Seq(Event)
  BY <1>1, <1>2 DEF TypeOK
<1>6. ListsGood'
  <2>1. ASSUME subscribers # Nil, NEW t \in Topics PROVE ListOf(subscribers[t], t)'
    <3>1. subscribers[t] \in Seq(Subs) /\ ListOf(subscribers[t], t)
      BY <1>2, <2>1 DEF TypeOK, ListsGood
    <3>2. \A i \in DOMAIN subscribers[t] : subscribers[t][i] \in Subs
      BY <3>1, ElementOfSeq, LenProperties
    <3>3. subscribers'[t] = subscribers[t]
      BY <1>1
    <3> QED BY <1>4, <3>1, <3>2, <3>3 DEF ListOf, Distinct
  <2>2. ASSUME proc.pc = "send" PROVE ListOf(proc.targets, proc.entry.topic)'
    <3>1. proc.targets \in Seq(Subs) /\ ListOf(proc.targets, proc.entry.topic) /\ proc' = proc
      BY <1>1, <1>2, <2>2 DEF TypeOK, Processor, ListsGood
    <3>2. \A i \in DOMAIN proc.targets : proc.targets[i] \in Subs
      BY <3>1, ElementOfSeq, LenProperties
    <3> QED BY <1>4, <3>1, <3>2 DEF ListOf, Distinct
  <2>3. subscribers' = subscribers /\ proc' = proc
    BY <1>1
  <2> QED BY <2>1, <2>2, <2>3 DEF ListsGood
<1>7. Fresh' /\ JoinedGood'
  BY <1>1, <1>2, <1>4, <1>5 DEF Fresh, JoinedGood, Subscribed
<1>8. Whole(s)'
  <2>1. Whole(s)
    BY <1>1, <1>2, StreamMeans DEF Subscribed
  <2>2. received'[s] \o buffer'[s] = received[s] \o buffer[s]
    BY <1>5, MoveHead
  <2>3. Whole(s)' <=> received'[s] \o buffer'[s] \o Rest(proc', s)
        = SubSeq(log'[sub'[s].topic], joined'[s] + 1, Len(log'[sub'[s].topic]))
    BY DEF Whole, Rest
  <2>4. proc' = proc /\ log' = log /\ joined' = joined
    BY <1>1
  <2> QED BY <1>3, <2>1, <2>2, <2>3, <2>4 DEF Whole
<1>9. ASSUME NEW r \in Subs, sub'[r].pc \in Subscribed PROVE Whole(r)'
  <2>1. CASE r = s
    BY <1>8, <2>1
  <2>2. CASE r # s
    <3>1. Whole(r)
      BY <1>2, <1>4, <1>9, StreamMeans
    <3> QED BY <1>1, <1>3, <1>5, <2>2, <3>1, WholeKept
  <2> QED BY <2>1, <2>2
<1> QED BY <1>6, <1>7, <1>9, StreamMeansNext DEF StreamInv

\* The snapshot: the entry's messages join the topic's log and what publish has
\* to send to each of the topic's subscribers.
LEMMA SnapshotStream ==
    ASSUME StreamInv, BusInv', Snapshot
    PROVE  StreamInv'
<1> DEFINE t == proc.entry.topic
           m == proc.entry.messages
           ts == SubscribersOf(t)
<1>1. /\ proc.pc = "publish"
      /\ proc' = IF ts = <<>> THEN Processing("select", NoEntry, <<>>, 1, 1)
                              ELSE Processing("send", proc.entry, ts, 1, 1)
      /\ log' = [log EXCEPT ![t] = @ \o m]
      /\ UNCHANGED <<subscribers, buffer, sub, joined, received>>
  BY DEF Snapshot, busVars
<1>2. /\ TypeOK /\ ActorsGood /\ Handshake /\ Registered
      /\ ListsGood /\ Fresh /\ JoinedGood /\ StreamComplete
  BY DEF StreamInv, BusInv
<1>3. t \in Topics /\ m \in Seq(Event)
  BY <1>1, <1>2 DEF ActorsGood, Entry
<1> HIDE DEF t, m, ts
<1>4. /\ log'[t] = log[t] \o m /\ log[t] \in Seq(Event)
      /\ \A u \in Topics \ {t} : log'[u] = log[u]
  BY <1>1, <1>2, <1>3 DEF TypeOK
<1>5. Fresh'
  BY <1>1, <1>2 DEF Fresh
<1>6. JoinedGood'
  <2>1. Len(log[t] \o m) = Len(log[t]) + Len(m) /\ Len(log[t]) \in Nat /\ Len(m) \in Nat
    BY <1>3, <1>4, ConcatProperties, LenProperties
  <2>2. ASSUME NEW s \in Subs, sub[s].pc \in Subscribed
        PROVE  joined[s] <= Len(log'[sub[s].topic])
    <3>1. joined[s] <= Len(log[sub[s].topic]) /\ joined[s] \in Nat /\ sub[s].topic \in Topics
      BY <1>2, <2>2 DEF JoinedGood, TypeOK, ActorsGood, Subscribed
    <3>2. CASE sub[s].topic = t
      BY <1>4, <2>1, <3>1, <3>2
    <3>3. CASE sub[s].topic # t
      BY <1>4, <3>1, <3>3
    <3> QED BY <3>2, <3>3
  <2> QED BY <1>1, <2>2 DEF JoinedGood
<1>7. CASE subscribers = Nil
  <2>1. ts = <<>>
    BY <1>7 DEF ts, SubscribersOf
  <2>2. proc'.pc = "select"
    BY <1>1, <2>1 DEF Processing
  <2>3. \A s \in Subs : sub[s].pc \notin Subscribed
    BY <1>1, <1>2, <1>7 DEF Registered, Handshake
  <2>4. ListsGood'
    BY <1>1, <1>7, <2>2 DEF ListsGood
  <2>5. \A s \in Subs : sub'[s].pc \in Subscribed => Whole(s)'
    BY <1>1, <2>3
  <2> QED BY <1>5, <1>6, <2>4, <2>5, StreamMeansNext DEF StreamInv
<1>8. CASE subscribers # Nil
  <2>1. ts = subscribers[t] /\ ts \in Seq(Subs) /\ ListOf(ts, t)
    BY <1>2, <1>3, <1>8 DEF ts, SubscribersOf, TypeOK, ListsGood
  <2>2. ts # <<>> => /\ proc'.pc = "send" /\ proc'.entry = proc.entry
                     /\ proc'.targets = ts /\ proc'.si = 1 /\ proc'.mi = 1
    BY <1>1 DEF Processing
  <2>3. ts = <<>> => proc'.pc = "select"
    BY <1>1 DEF Processing
  <2>4. DOMAIN ts = 1..Len(ts) /\ Len(ts) \in Nat
    BY <2>1, LenProperties
  <2>5. ListsGood'
    <3>1. ASSUME NEW u \in Topics PROVE ListOf(subscribers[u], u)'
      <4>1. ListOf(subscribers[u], u) /\ subscribers' = subscribers /\ sub' = sub
        BY <1>1, <1>2, <1>8 DEF ListsGood
      <4> QED BY <4>1 DEF ListOf, Distinct
    <3>2. ASSUME proc'.pc = "send" PROVE ListOf(proc.targets, proc.entry.topic)'
      <4>1. proc'.targets = ts /\ proc'.entry.topic = t /\ sub' = sub
        BY <1>1, <2>2, <2>3, <3>2 DEF t
      <4> QED BY <2>1, <4>1 DEF ListOf, Distinct
    <3> QED BY <1>1, <3>1, <3>2 DEF ListsGood
  <2>6. \A s \in Subs : Rest(proc, s) = <<>>
    BY <1>1, RestNone
  <2>7. ASSUME NEW s \in Subs, sub[s].pc \in Subscribed, sub[s].topic # t
        PROVE  Whole(s)'
    <3>1. \A i \in DOMAIN ts : ts[i] # s
      BY <2>1, <2>7 DEF ListOf
    <3>2. Rest(proc', s) = <<>>
      BY <2>2, <2>3, <3>1, RestNone
    <3>3. Whole(s)
      BY <1>2, <2>7, StreamMeans
    <3>4. log'[sub[s].topic] = log[sub[s].topic]
      BY <1>2, <1>4, <2>7 DEF ActorsGood, Subscribed
    <3> QED BY <1>1, <2>6, <3>2, <3>3, <3>4, WholeKept
  <2>8. ASSUME NEW s \in Subs, sub[s].pc \in Subscribed, sub[s].topic = t
        PROVE  Whole(s)'
    <3>1. PICK i \in DOMAIN ts : ts[i] = s
      BY <1>2, <1>8, <2>1, <2>8 DEF Registered
    <3>2. ts # <<>> /\ i \in Nat /\ i >= 1
      BY <2>4, <3>1
    <3>3. Rest(proc', s) = m
      <4>1. Rest(proc', proc'.targets[i]) =
             IF i < proc'.si THEN <<>>
             ELSE IF i = proc'.si
             THEN SubSeq(proc'.entry.messages, proc'.mi, Len(proc'.entry.messages))
             ELSE proc'.entry.messages
        BY <2>1, <2>2, <3>1, <3>2, RestAt DEF ListOf
      <4>2. SubSeq(m, 1, Len(m)) = m
        BY <1>3, SubSeqFull
      <4>3. proc'.entry.messages = m /\ ~(i < 1)
        BY <2>2, <3>2 DEF m
      <4> QED BY <2>2, <3>1, <3>2, <4>1, <4>2, <4>3
    <3>4. received[s] \o buffer[s] = SubSeq(log[t], joined[s] + 1, Len(log[t]))
      <4>1. received[s] \o buffer[s] \o Rest(proc, s)
               = SubSeq(log[t], joined[s] + 1, Len(log[t]))
        BY <1>2, <2>8, StreamMeans DEF Whole
      <4>2. received[s] \in Seq(Event) /\ buffer[s] \in Seq(Event)
        BY <1>2 DEF TypeOK
      <4>3. (received[s] \o buffer[s]) \o <<>> = received[s] \o buffer[s]
        <5>1. received[s] \o buffer[s] \in Seq(Event)
          BY <4>2, ConcatProperties
        <5> QED BY <5>1, ConcatEmptySeq
      <4> QED BY <2>6, <4>1, <4>3
    <3>5. joined[s] \in Nat /\ joined[s] <= Len(log[t])
      BY <1>2, <2>8 DEF TypeOK, JoinedGood
    <3>6. SubSeq(log[t] \o m, joined[s] + 1, Len(log[t] \o m))
            = SubSeq(log[t], joined[s] + 1, Len(log[t])) \o m
      BY <1>3, <1>4, <3>5, SuffixGrows
    <3>7. Whole(s)' <=> received'[s] \o buffer'[s] \o Rest(proc', s)
        = SubSeq(log'[sub'[s].topic], joined'[s] + 1, Len(log'[sub'[s].topic]))
      BY DEF Whole, Rest
    <3> QED BY <1>1, <1>4, <2>8, <3>3, <3>4, <3>6, <3>7
  <2> QED BY <1>1, <1>5, <1>6, <2>5, <2>7, <2>8, StreamMeansNext DEF StreamInv
<1> QED BY <1>7, <1>8

\* A message moves from what publish has to send to the subscriber's channel.
LEMMA SendStream ==
    ASSUME StreamInv, BusInv', SendMessage
    PROVE  StreamInv'
<1> DEFINE ts == proc.targets
           n == proc.si
           m == proc.entry.messages
           k == proc.mi
<1>1. /\ proc.pc = "send"
      /\ buffer' = [buffer EXCEPT ![ts[n]] = Append(@, m[k])]
      /\ proc' = AfterSend
      /\ UNCHANGED <<subscribers, sub, log, joined, received>>
  BY DEF SendMessage, histVars
<1>2. /\ TypeOK /\ ActorsGood /\ ListsGood /\ Fresh /\ JoinedGood /\ StreamComplete
  BY DEF StreamInv, BusInv
<1>3. /\ ts \in Seq(Subs) /\ m \in Seq(Event) /\ n \in DOMAIN ts /\ k \in DOMAIN m
      /\ ListOf(ts, proc.entry.topic)
  BY <1>1, <1>2 DEF ActorsGood, Entry, TypeOK, Processor, ListsGood
<1>4. \/ /\ k < Len(m)
         /\ proc' = Processing("send", proc.entry, ts, n, k + 1)
      \/ /\ ~(k < Len(m)) /\ n < Len(ts)
         /\ proc' = Processing("send", proc.entry, ts, n + 1, 1)
      \/ /\ ~(k < Len(m)) /\ ~(n < Len(ts))
         /\ proc' = Processing("select", NoEntry, <<>>, 1, 1)
  BY <1>1 DEF AfterSend
<1> HIDE DEF ts, n, m, k
<1>5. /\ n \in 1..Len(ts) /\ Len(ts) \in Nat /\ DOMAIN ts = 1..Len(ts)
      /\ k \in 1..Len(m) /\ Len(m) \in Nat
      /\ ts[n] \in Subs /\ Distinct(ts)
  BY <1>3, LenProperties, ElementOfSeq DEF ListOf
<1>0. PICK s \in Subs : s = ts[n]
  BY <1>5
<1>6. /\ buffer'[s] = Append(buffer[s], m[k])
      /\ \A r \in Subs \ {s} : buffer'[r] = buffer[r]
  BY <1>0, <1>1, <1>2, <1>5 DEF TypeOK
<1>7. sub[s].pc \in Subscribed
  BY <1>0, <1>3 DEF ListOf
<1>8. ListsGood'
  <2>1. ASSUME subscribers # Nil, NEW u \in Topics PROVE ListOf(subscribers[u], u)'
    <3>1. ListOf(subscribers[u], u) /\ subscribers' = subscribers /\ sub' = sub
      BY <1>1, <1>2, <2>1 DEF ListsGood
    <3> QED BY <3>1 DEF ListOf, Distinct
  <2>2. ASSUME proc'.pc = "send" PROVE ListOf(proc.targets, proc.entry.topic)'
    <3>1. proc'.targets = ts /\ proc'.entry = proc.entry /\ sub' = sub
      BY <1>1, <1>4, <2>2 DEF Processing
    <3> QED BY <1>3, <3>1 DEF ListOf, Distinct
  <2> QED BY <1>1, <2>1, <2>2 DEF ListsGood
<1>9. Fresh'
  BY <1>1, <1>2, <1>6, <1>7 DEF Fresh
<1>10. JoinedGood'
  BY <1>1, <1>2 DEF JoinedGood
<1>11. ASSUME NEW i \in 1..Len(ts)
       PROVE  Rest(proc, ts[i]) = IF i < n THEN <<>>
                                  ELSE IF i = n THEN SubSeq(m, k, Len(m)) ELSE m
  BY <1>1, <1>5, RestAt DEF ts, n, m, k
<1>12. SubSeq(m, 1, Len(m)) = m
  BY <1>3, SubSeqFull
<1>13. ~(k < Len(m)) => SubSeq(m, k + 1, Len(m)) = <<>>
  BY <1>5, SubSeqEmpty
<1>14. ASSUME NEW i \in 1..Len(ts)
       PROVE  Rest(proc', ts[i]) = IF i < n THEN <<>>
                                   ELSE IF i = n THEN SubSeq(m, k + 1, Len(m)) ELSE m
  <2>1. CASE k < Len(m)
    <3>1. /\ proc'.pc = "send" /\ proc'.entry.messages = m /\ proc'.targets = ts
          /\ proc'.si = n /\ proc'.mi = k + 1
      BY <1>4, <2>1 DEF Processing, m
    <3>2. Rest(proc', proc'.targets[i]) =
             IF i < proc'.si THEN <<>>
             ELSE IF i = proc'.si
             THEN SubSeq(proc'.entry.messages, proc'.mi, Len(proc'.entry.messages))
             ELSE proc'.entry.messages
      BY <1>5, <3>1, RestAt
    <3> QED BY <3>1, <3>2
  <2>2. CASE ~(k < Len(m)) /\ n < Len(ts)
    <3>1. /\ proc'.pc = "send" /\ proc'.entry.messages = m /\ proc'.targets = ts
          /\ proc'.si = n + 1 /\ proc'.mi = 1
      BY <1>4, <2>2 DEF Processing, m
    <3>2. Rest(proc', proc'.targets[i]) =
             IF i < proc'.si THEN <<>>
             ELSE IF i = proc'.si
             THEN SubSeq(proc'.entry.messages, proc'.mi, Len(proc'.entry.messages))
             ELSE proc'.entry.messages
      BY <1>5, <3>1, RestAt
    <3>3. i \in Nat /\ n \in Nat
      BY <1>5
    <3>4. CASE i < n
      BY <3>1, <3>2, <3>3, <3>4
    <3>5. CASE i = n
      <4>1. Rest(proc', ts[i]) = <<>>
        BY <3>1, <3>2, <3>3, <3>5
      <4>2. SubSeq(m, k + 1, Len(m)) = <<>> /\ ~(i < n)
        BY <1>13, <2>2, <3>3, <3>5
      <4> QED BY <3>5, <4>1, <4>2
    <3>6. CASE i = n + 1
      <4>1. ~(i < n + 1) /\ ~(i < n) /\ i # n
        BY <3>3, <3>6
      <4>2. Rest(proc', ts[i]) = SubSeq(m, 1, Len(m))
        BY <3>1, <3>2, <3>6, <4>1
      <4> QED BY <1>12, <4>1, <4>2
    <3>7. CASE i > n + 1
      BY <3>1, <3>2, <3>3, <3>7
    <3> QED BY <3>3, <3>4, <3>5, <3>6, <3>7
  <2>3. CASE ~(k < Len(m)) /\ ~(n < Len(ts))
    <3>1. proc'.pc = "select"
      BY <1>4, <2>3 DEF Processing
    <3>2. Rest(proc', ts[i]) = <<>>
      BY <3>1, RestNone
    <3>3. i < n \/ i = n
      BY <1>5, <2>3
    <3> QED BY <1>13, <2>3, <3>2, <3>3
  <2> QED BY <2>1, <2>2, <2>3
<1>15. Whole(s)'
  <2>1. Rest(proc, s) = SubSeq(m, k, Len(m)) /\ Rest(proc', s) = SubSeq(m, k + 1, Len(m))
    <3>1. n \in 1..Len(ts) /\ ~(n < n)
      BY <1>5
    <3> QED BY <1>0, <1>11, <1>14, <3>1
  <2>2. received[s] \in Seq(Event) /\ buffer[s] \in Seq(Event)
    BY <1>2, <1>5 DEF TypeOK
  <2>3. (received[s] \o buffer'[s]) \o Rest(proc', s) = (received[s] \o buffer[s]) \o Rest(proc, s)
    <3>1. m \in Seq(Event) /\ k \in DOMAIN m
      BY <1>3
    <3>2. PICK e : e = m[k]
      OBVIOUS
    <3>3. PICK y : y = SubSeq(m, k + 1, Len(m))
      OBVIOUS
    <3>4. e \in Event /\ y \in Seq(Event)
      BY <1>5, <3>1, <3>2, <3>3, ElementOfSeq, SubSeqProperties
    <3>5. SubSeq(m, k, Len(m)) = <<e>> \o y
      <4>1. Len(m) \in k..Len(m)
        BY <1>5
      <4> QED BY <1>5, <3>1, <3>2, <3>3, <4>1, SubSeqRecursiveFirst
    <3>6. PICK z : z = <<e>>
      OBVIOUS
    <3>7. z \in Seq(Event) /\ Append(buffer[s], e) = buffer[s] \o z
      BY <2>2, <3>4, <3>6, AppendIsConcat
    <3>8. Join(Join(received[s], Join(buffer[s], z)), y)
             = Join(Join(received[s], buffer[s]), Join(z, y))
      BY <2>2, <3>4, <3>7, MoveFirst
    <3> QED BY <1>6, <2>1, <3>2, <3>3, <3>5, <3>6, <3>7, <3>8 DEF Join
  <2>4. Whole(s)
    BY <1>2, <1>5, <1>7, StreamMeans
  <2>5. Whole(s)' <=> received'[s] \o buffer'[s] \o Rest(proc', s)
        = SubSeq(log'[sub'[s].topic], joined'[s] + 1, Len(log'[sub'[s].topic]))
    BY DEF Whole, Rest
  <2> QED BY <1>1, <2>3, <2>4, <2>5 DEF Whole
<1>16. ASSUME NEW r \in Subs, r # s, sub[r].pc \in Subscribed PROVE Whole(r)'
  <2>1. Rest(proc', r) = Rest(proc, r)
    <3>1. CASE \A i \in 1..Len(ts) : ts[i] # r
      <4>1. proc'.pc = "send" => proc'.targets = ts
        BY <1>4 DEF Processing
      <4>2. Rest(proc', r) = <<>>
        BY <1>5, <3>1, <4>1, RestNone
      <4>3. Rest(proc, r) = <<>>
        BY <1>5, <3>1, RestNone DEF ts
      <4> QED BY <4>2, <4>3
    <3>2. CASE \E i \in 1..Len(ts) : ts[i] = r
      <4>1. PICK i \in 1..Len(ts) : ts[i] = r
        BY <3>2
      <4>2. i # n
        BY <1>0, <1>16, <4>1
      <4> QED BY <1>11, <1>14, <4>1, <4>2
    <3> QED BY <3>1, <3>2
  <2>2. Whole(r)
    BY <1>2, <1>16, StreamMeans
  <2> QED BY <1>1, <1>6, <1>16, <2>1, <2>2, WholeKept
<1>17. \A r \in Subs : sub'[r].pc \in Subscribed => Whole(r)'
  BY <1>1, <1>15, <1>16
<1> QED BY <1>8, <1>9, <1>10, <1>17, StreamMeansNext DEF StreamInv

\* Every step keeps the streams.
LEMMA StreamStep == StreamInv /\ [Next]_vars => StreamInv'
<1> SUFFICES ASSUME StreamInv, [Next]_vars PROVE StreamInv'
  OBVIOUS
<1>1. BusInv /\ TypeOK /\ BusInv'
  BY BusInvStep DEF StreamInv, BusInv
<1>2. CASE UNCHANGED vars
  <2>1. StreamQuiet
    BY <1>2 DEF StreamQuiet, vars, busVars, actorVars, histVars
  <2> QED BY <1>1, <2>1, QuietStreams
<1>3. CASE Next
  <2>1. CASE \E p \in Publishers : PublisherStep(p)
    BY <1>1, <2>1, PublisherQuiet, QuietStreams
  <2>2. ASSUME NEW s \in Subs, SubscriberStep(s) PROVE StreamInv'
    <3>1. CASE SubscribeAppend(s) /\ subscribers # Nil
      BY <1>1, <3>1, AppendStream
    <3>2. CASE Receive(s) /\ buffer[s] # <<>>
      BY <1>1, <3>2, ReceiveStream
    <3>3. CASE ~(SubscribeAppend(s) /\ subscribers # Nil) /\ ~(Receive(s) /\ buffer[s] # <<>>)
      BY <1>1, <2>2, <3>3, SubscriberQuiet, QuietStreams
    <3> QED BY <3>1, <3>2, <3>3
  <2>3. CASE TakeEntry
    BY <1>1, <2>3, TakeQuiet, QuietStreams
  <2>4. CASE Snapshot
    BY <1>1, <2>4, SnapshotStream
  <2>5. CASE SendMessage
    BY <1>1, <2>5, SendStream
  <2>6. CASE \E c \in Stoppers : StopBegin(c) \/ StopperStep(c)
    BY <1>1, <2>6, StopperQuiet, QuietStreams
  <2> QED BY <1>3, <2>1, <2>2, <2>3, <2>4, <2>5, <2>6 DEF Next, ProcessorStep
<1> QED BY <1>2, <1>3

\* What a subscriber received, has in its channel and is about to be sent are
\* the messages of its topic since it subscribed: publish and the listener lose,
\* duplicate and reorder nothing, also while the bus stops.
THEOREM StreamsAreComplete == Spec => []StreamComplete
<1>1. Spec => []StreamInv
  BY StreamInit, StreamStep, PTL DEF Spec
<1>2. StreamInv => StreamComplete
  BY DEF StreamInv
<1> QED BY <1>1, <1>2, PTL

-----------------------------------------------------------------------------
\* Order: a message goes from its publisher's call through the publish channel
\* and the processing goroutine to the log, and no stage overtakes another.

\* The messages of one sequence come before those of another, publisher by
\* publisher.
Earlier(ms, ns) ==
    \A i \in DOMAIN ms : \A j \in DOMAIN ns : ms[i].pub = ns[j].pub => ms[i].num < ns[j].num

\* The messages of each publisher in a sequence are in order.
Sorted(ms) ==
    \A i, j \in DOMAIN ms : i < j /\ ms[i].pub = ms[j].pub => ms[i].num < ms[j].num

\* The publishers, in state pb, have numbered the messages.
Within(ms, pb) == \A i \in DOMAIN ms : ms[i].num <= pb[ms[i].pub].sent

\* Messages that are in order and follow the ones in the log lg.
Due(ms, lg, pb) ==
    /\ Sorted(ms)
    /\ Within(ms, pb)
    /\ \A t \in Topics : Earlier(lg[t], ms)

\* The messages of Publish calls that wait for the channel come after ms.
BeforeWaiting(ms, pb) ==
    \A p \in Publishers : pb[p].pc = "checked" => Earlier(ms, pb[p].entry.messages)

\* The four stages: the log, the processor that is about to dispatch, the
\* publish channel and the waiting calls.
LogInOrder(lg, pb) == \A t \in Topics : Sorted(lg[t]) /\ Within(lg[t], pb)

ProcInOrder(lg, ch, pr, pb) ==
    pr.pc = "publish" =>
        /\ Due(pr.entry.messages, lg, pb)
        /\ BeforeWaiting(pr.entry.messages, pb)
        /\ \A i \in DOMAIN ch : Earlier(pr.entry.messages, ch[i].messages)

ChannelInOrder(lg, ch, pb) ==
    \A i \in DOMAIN ch :
        /\ Due(ch[i].messages, lg, pb)
        /\ BeforeWaiting(ch[i].messages, pb)
        /\ \A j \in DOMAIN ch : i < j => Earlier(ch[i].messages, ch[j].messages)

CallsInOrder(lg, pb) ==
    \A p \in Publishers : pb[p].pc = "checked" =>
        /\ Due(pb[p].entry.messages, lg, pb)
        /\ \A i \in DOMAIN pb[p].entry.messages : pb[p].entry.messages[i].pub = p

Ordered(lg, ch, pr, pb) ==
    /\ LogInOrder(lg, pb)
    /\ ProcInOrder(lg, ch, pr, pb)
    /\ ChannelInOrder(lg, ch, pb)
    /\ CallsInOrder(lg, pb)

OrderInv == BusInv /\ Ordered(log, publishChan, proc, pub)

-----------------------------------------------------------------------------
\* Lemmas about ordered messages.

\* What joins two sequences in order.
LEMMA JoinInOrder ==
    ASSUME NEW a \in Seq(Event), NEW b \in Seq(Event)
    PROVE  /\ Sorted(a) /\ Sorted(b) /\ Earlier(a, b) => Sorted(a \o b)
           /\ \A pb : Within(a, pb) /\ Within(b, pb) => Within(a \o b, pb)
           /\ \A c : Earlier(a, c) /\ Earlier(b, c) => Earlier(a \o b, c)
<1> DEFINE x == a \o b
<1>1. /\ DOMAIN x = 1..(Len(a) + Len(b)) /\ DOMAIN a = 1..Len(a) /\ DOMAIN b = 1..Len(b)
      /\ Len(a) \in Nat /\ Len(b) \in Nat
      /\ \A i \in 1..(Len(a) + Len(b)) : x[i] = IF i <= Len(a) THEN a[i] ELSE b[i - Len(a)]
  BY ConcatProperties, LenProperties
<1> HIDE DEF x
<1>2. \A i \in DOMAIN x : /\ i <= Len(a) => i \in DOMAIN a /\ x[i] = a[i]
                          /\ i > Len(a) => i - Len(a) \in DOMAIN b /\ x[i] = b[i - Len(a)]
                          /\ i \in Nat
  BY <1>1
<1>3. Sorted(a) /\ Sorted(b) /\ Earlier(a, b) => Sorted(x)
  <2> SUFFICES ASSUME Sorted(a), Sorted(b), Earlier(a, b),
                      NEW i \in DOMAIN x, NEW j \in DOMAIN x, i < j, x[i].pub = x[j].pub
               PROVE  x[i].num < x[j].num
    BY DEF Sorted
  <2>1. i \in Nat /\ j \in Nat
    BY <1>2
  <2>2. CASE j <= Len(a)
    <3>1. i <= Len(a)
      BY <1>1, <2>1, <2>2
    <3> QED BY <1>2, <2>2, <3>1 DEF Sorted
  <2>3. CASE i <= Len(a) /\ j > Len(a)
    BY <1>2, <2>3 DEF Earlier
  <2>4. CASE i > Len(a)
    <3>1. j > Len(a) /\ i - Len(a) < j - Len(a)
      BY <1>1, <2>1, <2>4
    <3> QED BY <1>2, <2>4, <3>1 DEF Sorted
  <2> QED BY <1>1, <2>1, <2>2, <2>3, <2>4
<1>4. ASSUME NEW pb, Within(a, pb), Within(b, pb) PROVE Within(x, pb)
  <2>1. \A i \in DOMAIN x : i <= Len(a) \/ i > Len(a)
    BY <1>1
  <2> QED BY <1>2, <1>4, <2>1 DEF Within
<1>5. ASSUME NEW c, Earlier(a, c), Earlier(b, c) PROVE Earlier(x, c)
  <2>1. \A i \in DOMAIN x : i <= Len(a) \/ i > Len(a)
    BY <1>1
  <2> QED BY <1>2, <1>5, <2>1 DEF Earlier
<1> QED BY <1>3, <1>4, <1>5 DEF x

\* Publishers only count up.
LEMMA WithinGrows ==
    ASSUME NEW ms \in Seq(Event), NEW pb, NEW qb, Within(ms, pb),
           \A p \in Publishers : /\ pb[p].sent \in Nat /\ qb[p].sent \in Nat
                                 /\ pb[p].sent <= qb[p].sent
    PROVE  Within(ms, qb)
<1>1. ASSUME NEW i \in DOMAIN ms PROVE ms[i].num <= qb[ms[i].pub].sent
  <2>1. ms[i] \in Event
    BY LenProperties, ElementOfSeq
  <2>2. ms[i].pub \in Publishers /\ ms[i].num \in Nat
    BY <2>1, BusAssumption DEF Event
  <2>3. ms[i].num <= pb[ms[i].pub].sent
    BY DEF Within
  <2> QED BY <2>2, <2>3
<1> QED BY <1>1 DEF Within

\* The messages of a new Publish call come after all that were numbered.
LEMMA NewComeLater ==
    ASSUME NEW ms \in Seq(Event), NEW pb, Within(ms, pb), NEW p \in Publishers,
           NEW ns, \A j \in DOMAIN ns : /\ ns[j].pub = p /\ ns[j].num \in Nat
                                        /\ ns[j].num > pb[p].sent,
           pb[p].sent \in Nat
    PROVE  Earlier(ms, ns)
<1>1. ASSUME NEW i \in DOMAIN ms, NEW j \in DOMAIN ns, ms[i].pub = ns[j].pub
      PROVE  ms[i].num < ns[j].num
  <2>1. ms[i] \in Event
    BY LenProperties, ElementOfSeq
  <2>2. ms[i].num \in Nat
    BY <2>1, BusAssumption DEF Event
  <2>3. ms[i].num <= pb[p].sent
    BY <1>1 DEF Within
  <2> QED BY <2>2, <2>3
<1> QED BY <1>1 DEF Earlier

\* What follows a longer log.
LEMMA DueAfter ==
    ASSUME NEW ms, NEW lg, NEW pb, Due(ms, lg, pb), NEW t \in Topics,
           NEW lg2, lg \in [Topics -> Seq(Event)],
           NEW ns \in Seq(Event), lg2 = [lg EXCEPT ![t] = @ \o ns], Earlier(ns, ms)
    PROVE  Due(ms, lg2, pb)
<1>1. ASSUME NEW u \in Topics PROVE Earlier(lg2[u], ms)
  <2>1. CASE u = t
    <3>1. lg2[u] = lg[t] \o ns /\ lg[t] \in Seq(Event)
      BY <2>1
    <3>2. Earlier(lg[t], ms)
      BY DEF Due
    <3> QED BY <3>1, <3>2, JoinInOrder
  <2>2. CASE u # t
    <3>1. lg2[u] = lg[u]
      BY <2>2
    <3> QED BY <3>1 DEF Due
  <2> QED BY <2>1, <2>2
<1> QED BY <1>1 DEF Due

-----------------------------------------------------------------------------
\* The order, one action at a time.

\* Messages under way are messages.
LEMMA MessagesTyped ==
    ASSUME TypeOK, ActorsGood
    PROVE  /\ \A i \in DOMAIN publishChan : publishChan[i].messages \in Seq(Event)
           /\ proc.pc = "publish" => proc.entry.messages \in Seq(Event)
           /\ \A p \in Publishers : pub[p].pc = "checked" => pub[p].entry.messages \in Seq(Event)
           /\ \A t \in Topics : log[t] \in Seq(Event)
           /\ \A p \in Publishers : pub[p].sent \in Nat
<1>1. ASSUME NEW i \in DOMAIN publishChan PROVE publishChan[i].messages \in Seq(Event)
  <2>1. publishChan[i] \in Entry
    BY LenProperties, ElementOfSeq DEF TypeOK
  <2> QED BY <2>1 DEF Entry
<1> QED BY <1>1, BusAssumption DEF TypeOK, ActorsGood, Entry, Publisher

\* Nothing is under way at the start.
LEMMA OrderInit == Init => OrderInv
<1> SUFFICES ASSUME Init PROVE OrderInv
  OBVIOUS
<1>1. BusInv
  BY BusInvInit
<1>2. /\ proc.pc = "select" /\ publishChan = <<>>
      /\ \A p \in Publishers : pub[p].pc = "idle"
      /\ \A t \in Topics : log[t] = <<>>
  BY DEF Init, Processing
<1>3. Ordered(log, publishChan, proc, pub)
  BY <1>2 DEF Ordered, LogInOrder, ProcInOrder, ChannelInOrder, CallsInOrder, Sorted, Within
<1> QED BY <1>1, <1>3 DEF OrderInv

\* Steps that move no message before the snapshot.
LEMMA OrderQuiet ==
    ASSUME OrderInv, UNCHANGED <<log, publishChan, pub>>,
           proc' = proc \/ proc'.pc # "publish"
    PROVE  Ordered(log', publishChan', proc', pub')
<1>1. Ordered(log, publishChan, proc, pub)
  BY DEF OrderInv
<1> QED BY <1>1 DEF Ordered, ProcInOrder

\* The steps of subscribers and of Stop, and the sends, are such steps.
LEMMA QuietInOrder ==
    ASSUME OrderInv,
           \/ \E s \in Subs : SubscriberStep(s)
           \/ SendMessage
           \/ \E c \in Stoppers : StopBegin(c) \/ StopperStep(c)
    PROVE  Ordered(log', publishChan', proc', pub')
<1>1. CASE \E s \in Subs : SubscriberStep(s)
  <2>1. UNCHANGED <<log, publishChan, pub, proc>>
    BY <1>1 DEF SubscriberStep, ListenerStep, SubscribeCheck, SubscribeAppend, Listen,
       Receive, HandleEvent, busVars, histVars
  <2> QED BY <2>1, OrderQuiet
<1>2. CASE SendMessage
  <2>1. UNCHANGED <<log, publishChan, pub>> /\ proc' = AfterSend
    BY <1>2 DEF SendMessage, histVars
  <2>2. proc'.pc # "publish"
    BY <2>1 DEF AfterSend, Processing
  <2> QED BY <2>1, <2>2, OrderQuiet
<1>3. CASE \E c \in Stoppers : StopBegin(c) \/ StopperStep(c)
  <2>1. UNCHANGED <<log, publishChan, pub>>
    BY <1>3 DEF StopBegin, StopperStep, StopSignal, StopWait, StopClose, busVars, histVars
  <2>2. proc' = proc \/ proc'.pc # "publish"
    BY <1>3 DEF StopBegin, StopperStep, StopSignal, StopWait, StopClose, OrderInv, BusInv,
       TypeOK, Processor
  <2> QED BY <2>1, <2>2, OrderQuiet
<1> QED BY <1>1, <1>2, <1>3

\* A new call's messages come after everything the publisher has numbered.
LEMMA CallInOrder ==
    ASSUME OrderInv, NEW p \in Publishers, PublishCheck(p)
    PROVE  Ordered(log', publishChan', proc', pub')
<1>1. PICK t \in Topics, k \in 1..MaxBatch :
          /\ pub[p].sent + k <= MaxEvents
          /\ pub' = [pub EXCEPT ![p] =
                [pc |-> IF state = "started" THEN "checked" ELSE "idle",
                 entry |-> IF state = "started"
                           THEN [topic |-> t,
                                 messages |-> [i \in 1..k |->
                                     [pub |-> p, num |-> pub[p].sent + i]]]
                           ELSE NoEntry,
                 sent |-> pub[p].sent + k]]
  BY DEF PublishCheck
<1>2. UNCHANGED <<log, publishChan, proc>>
  BY DEF PublishCheck, busVars, histVars
<1>3. /\ TypeOK /\ ActorsGood
      /\ LogInOrder(log, pub) /\ ProcInOrder(log, publishChan, proc, pub)
      /\ ChannelInOrder(log, publishChan, pub) /\ CallsInOrder(log, pub)
  BY DEF OrderInv, BusInv, Ordered
<1> DEFINE ns == [i \in 1..k |-> [pub |-> p, num |-> pub[p].sent + i]]
<1>4. /\ pub'[p].sent = pub[p].sent + k
      /\ pub'[p].pc = "checked" => pub'[p].entry.messages = ns
      /\ \A q \in Publishers \ {p} : pub'[q] = pub[q]
  BY <1>1, <1>3 DEF TypeOK
<1>5. pub[p].sent \in Nat /\ k \in Nat /\ \A q \in Publishers : pub[q].sent \in Nat
  BY <1>1, <1>3, BusAssumption, MessagesTyped
<1>6. \A q \in Publishers : /\ pub[q].sent \in Nat /\ pub'[q].sent \in Nat
                            /\ pub[q].sent <= pub'[q].sent
  BY <1>4, <1>5
<1>7. /\ DOMAIN ns = 1..k
      /\ \A j \in 1..k : ns[j].pub = p /\ ns[j].num = pub[p].sent + j
  OBVIOUS
<1> HIDE DEF ns
<1>8. /\ \A j \in DOMAIN ns : ns[j].pub = p /\ ns[j].num \in Nat /\ ns[j].num > pub[p].sent
      /\ \A j \in DOMAIN ns : ns[j].num <= pub'[p].sent
      /\ Sorted(ns)
  <2>1. \A j \in 1..k : j \in Nat /\ j > 0 /\ j <= k
    BY <1>5
  <2> QED BY <1>4, <1>5, <1>7, <2>1 DEF Sorted
<1>9. ASSUME NEW ms \in Seq(Event), Within(ms, pub)
      PROVE  /\ Within(ms, pub')
             /\ Earlier(ms, ns)
  BY <1>5, <1>6, <1>8, <1>9, WithinGrows, NewComeLater
<1>10. ASSUME NEW ms \in Seq(Event), Within(ms, pub), BeforeWaiting(ms, pub)
       PROVE  BeforeWaiting(ms, pub')
  BY <1>4, <1>9, <1>10 DEF BeforeWaiting
<1>11. ASSUME NEW ms \in Seq(Event), Due(ms, log, pub)
       PROVE  Due(ms, log, pub') /\ Within(ms, pub)
  BY <1>9, <1>11 DEF Due
<1>12. LogInOrder(log, pub')
  BY <1>3, <1>9, MessagesTyped DEF LogInOrder
<1>13. ProcInOrder(log, publishChan, proc, pub')
  BY <1>3, <1>10, <1>11, MessagesTyped DEF ProcInOrder
<1>14. ChannelInOrder(log, publishChan, pub')
  BY <1>3, <1>10, <1>11, MessagesTyped DEF ChannelInOrder
<1>15. CallsInOrder(log, pub')
  <2>1. ASSUME pub'[p].pc = "checked" PROVE Due(ns, log, pub')
    <3>1. \A u \in Topics : Earlier(log[u], ns)
      BY <1>3, <1>9, MessagesTyped DEF LogInOrder
    <3>2. Within(ns, pub')
      BY <1>8 DEF Within
    <3> QED BY <1>8, <3>1, <3>2 DEF Due
  <2>2. ASSUME NEW q \in Publishers, pub'[q].pc = "checked"
        PROVE  /\ Due(pub'[q].entry.messages, log, pub')
               /\ \A i \in DOMAIN pub'[q].entry.messages : pub'[q].entry.messages[i].pub = q
    <3>1. CASE q = p
      BY <1>4, <1>8, <2>1, <2>2, <3>1
    <3>2. CASE q # p
      BY <1>3, <1>4, <1>11, <2>2, <3>2, MessagesTyped DEF CallsInOrder
    <3> QED BY <3>1, <3>2
  <2> QED BY <2>2 DEF CallsInOrder
<1> QED BY <1>2, <1>12, <1>13, <1>14, <1>15 DEF Ordered

\* The entry of a call goes to the end of the channel.
LEMMA ChannelGrowsInOrder ==
    ASSUME OrderInv, NEW p \in Publishers, PublishSend(p)
    PROVE  Ordered(log', publishChan', proc', pub')
<1> DEFINE e == pub[p].entry
<1>1. /\ pub[p].pc = "checked"
      /\ publishChan' = Append(publishChan, e)
      /\ pub' = [pub EXCEPT ![p].pc = "idle", ![p].entry = NoEntry]
      /\ UNCHANGED <<log, proc>>
  BY DEF PublishSend, histVars
<1>2. /\ TypeOK /\ ActorsGood
      /\ LogInOrder(log, pub) /\ ProcInOrder(log, publishChan, proc, pub)
      /\ ChannelInOrder(log, publishChan, pub) /\ CallsInOrder(log, pub)
  BY DEF OrderInv, BusInv, Ordered
<1>3. /\ e \in Entry /\ e.messages \in Seq(Event) /\ publishChan \in Seq(Entry)
      /\ Due(e.messages, log, pub)
      /\ \A i \in DOMAIN e.messages : e.messages[i].pub = p
  BY <1>1, <1>2, MessagesTyped DEF ActorsGood, CallsInOrder, TypeOK
<1>4. /\ pub'[p].pc = "idle" /\ pub'[p].sent = pub[p].sent
      /\ \A q \in Publishers \ {p} : pub'[q] = pub[q]
  BY <1>1, <1>2 DEF TypeOK, Publisher
<1> HIDE DEF e
<1>5. /\ \A q \in Publishers : pub'[q].sent = pub[q].sent
      /\ \A q \in Publishers : pub'[q].pc = "checked" => q # p /\ pub[q].pc = "checked"
                                                        /\ pub'[q].entry = pub[q].entry
  BY <1>4
<1>6. ASSUME NEW ms \in Seq(Event) PROVE Within(ms, pub) => Within(ms, pub')
  <2>1. \A q \in Publishers : /\ pub[q].sent \in Nat /\ pub'[q].sent \in Nat
                              /\ pub[q].sent <= pub'[q].sent
    BY <1>2, <1>5, MessagesTyped
  <2> QED BY <2>1, WithinGrows
<1>7. ASSUME NEW ms \in Seq(Event), Due(ms, log, pub) PROVE Due(ms, log, pub')
  BY <1>6, <1>7 DEF Due
<1>8. ASSUME NEW ms, BeforeWaiting(ms, pub)
      PROVE  BeforeWaiting(ms, pub') /\ Earlier(ms, e.messages)
  BY <1>1, <1>5, <1>8 DEF BeforeWaiting, e
<1>9. BeforeWaiting(e.messages, pub')
  <2>1. ASSUME NEW q \in Publishers, pub'[q].pc = "checked"
        PROVE  Earlier(e.messages, pub'[q].entry.messages)
    <3>1. \A i \in DOMAIN pub[q].entry.messages : pub[q].entry.messages[i].pub = q
      BY <1>2, <1>5, <2>1 DEF CallsInOrder
    <3> QED BY <1>3, <1>5, <2>1, <3>1 DEF Earlier
  <2> QED BY <2>1 DEF BeforeWaiting
<1>10. /\ DOMAIN publishChan = 1..Len(publishChan) /\ Len(publishChan) \in Nat
       /\ DOMAIN publishChan' = 1..(Len(publishChan) + 1)
       /\ \A i \in DOMAIN publishChan : publishChan'[i] = publishChan[i]
       /\ publishChan'[Len(publishChan) + 1] = e
  BY <1>1, <1>3, AppendProperties, LenProperties
<1>11. \A i \in DOMAIN publishChan' : i \in DOMAIN publishChan \/ i = Len(publishChan) + 1
  BY <1>10
<1>12. LogInOrder(log, pub')
  BY <1>2, <1>6, MessagesTyped DEF LogInOrder
<1>13. ProcInOrder(log, publishChan', proc, pub')
  <2> SUFFICES ASSUME proc.pc = "publish"
               PROVE  /\ Due(proc.entry.messages, log, pub')
                      /\ BeforeWaiting(proc.entry.messages, pub')
                      /\ \A i \in DOMAIN publishChan' :
                            Earlier(proc.entry.messages, publishChan'[i].messages)
    BY DEF ProcInOrder
  <2>1. /\ Due(proc.entry.messages, log, pub) /\ BeforeWaiting(proc.entry.messages, pub)
        /\ \A i \in DOMAIN publishChan : Earlier(proc.entry.messages, publishChan[i].messages)
        /\ proc.entry.messages \in Seq(Event)
    BY <1>2, MessagesTyped DEF ProcInOrder
  <2> QED BY <1>7, <1>8, <1>10, <1>11, <2>1
<1>14. ChannelInOrder(log, publishChan', pub')
  <2>1. ASSUME NEW i \in DOMAIN publishChan'
        PROVE  /\ Due(publishChan'[i].messages, log, pub')
               /\ BeforeWaiting(publishChan'[i].messages, pub')
    <3>1. CASE i \in DOMAIN publishChan
      BY <1>2, <1>7, <1>8, <1>10, <3>1, MessagesTyped DEF ChannelInOrder
    <3>2. CASE i = Len(publishChan) + 1
      BY <1>3, <1>7, <1>9, <1>10, <3>2
    <3> QED BY <1>11, <3>1, <3>2
  <2>2. ASSUME NEW i \in DOMAIN publishChan', NEW j \in DOMAIN publishChan', i < j
        PROVE  Earlier(publishChan'[i].messages, publishChan'[j].messages)
    <3>1. i \in DOMAIN publishChan
      BY <1>10, <2>2
    <3>2. CASE j \in DOMAIN publishChan
      BY <1>2, <1>10, <2>2, <3>1, <3>2 DEF ChannelInOrder
    <3>3. CASE j = Len(publishChan) + 1
      BY <1>2, <1>8, <1>10, <3>1, <3>3 DEF ChannelInOrder
    <3> QED BY <1>11, <3>2, <3>3
  <2> QED BY <2>1, <2>2 DEF ChannelInOrder
<1>15. CallsInOrder(log, pub')
  BY <1>2, <1>5, <1>7, MessagesTyped DEF CallsInOrder
<1> QED BY <1>1, <1>12, <1>13, <1>14, <1>15 DEF Ordered

\* The processor takes the first entry.
LEMMA TakeInOrder ==
    ASSUME OrderInv, TakeEntry
    PROVE  Ordered(log', publishChan', proc', pub')
<1>1. /\ publishChan # <<>>
      /\ proc' = Processing("publish", Head(publishChan), <<>>, 1, 1)
      /\ publishChan' = Tail(publishChan)
      /\ UNCHANGED <<log, pub>>
  BY DEF TakeEntry, histVars
<1>2. /\ TypeOK /\ ActorsGood
      /\ LogInOrder(log, pub)
      /\ ChannelInOrder(log, publishChan, pub) /\ CallsInOrder(log, pub)
  BY DEF OrderInv, BusInv, Ordered
<1>3. publishChan \in Seq(Entry)
  BY <1>2 DEF TypeOK
<1>4. /\ Len(publishChan) \in Nat /\ Len(publishChan) > 0
      /\ DOMAIN publishChan = 1..Len(publishChan)
      /\ DOMAIN publishChan' = 1..(Len(publishChan) - 1)
      /\ \A i \in 1..(Len(publishChan) - 1) : publishChan'[i] = publishChan[i + 1]
      /\ Head(publishChan) = publishChan[1]
  BY <1>1, <1>3, HeadTailProperties, EmptySeq, LenProperties
<1>5. proc'.entry = publishChan[1]
  BY <1>1, <1>4 DEF Processing
<1>6. 1 \in DOMAIN publishChan
  BY <1>4
<1>7. \A i \in DOMAIN publishChan' : /\ i + 1 \in DOMAIN publishChan /\ 1 < i + 1
                                     /\ publishChan'[i] = publishChan[i + 1]
  BY <1>4
<1>8. ProcInOrder(log, publishChan', proc', pub)
  BY <1>2, <1>5, <1>6, <1>7 DEF ProcInOrder, ChannelInOrder
<1>9. ChannelInOrder(log, publishChan', pub)
  <2>1. \A i, j \in DOMAIN publishChan' : i < j => i + 1 < j + 1
    BY <1>4
  <2> QED BY <1>2, <1>7, <2>1 DEF ChannelInOrder
<1> QED BY <1>1, <1>2, <1>8, <1>9 DEF Ordered

\* The snapshot is the moment the messages join the log.
LEMMA SnapshotInOrder ==
    ASSUME OrderInv, Snapshot
    PROVE  Ordered(log', publishChan', proc', pub')
<1> DEFINE t == proc.entry.topic
           m == proc.entry.messages
<1>1. /\ proc.pc = "publish"
      /\ log' = [log EXCEPT ![t] = @ \o m]
      /\ UNCHANGED <<publishChan, pub>>
  BY DEF Snapshot, busVars
<1>2. proc'.pc # "publish"
  BY DEF Snapshot, Processing
<1>3. /\ TypeOK /\ ActorsGood
      /\ LogInOrder(log, pub) /\ ProcInOrder(log, publishChan, proc, pub)
      /\ ChannelInOrder(log, publishChan, pub) /\ CallsInOrder(log, pub)
  BY DEF OrderInv, BusInv, Ordered
<1>4. /\ t \in Topics /\ m \in Seq(Event) /\ log \in [Topics -> Seq(Event)]
      /\ Due(m, log, pub) /\ BeforeWaiting(m, pub)
      /\ \A i \in DOMAIN publishChan : Earlier(m, publishChan[i].messages)
  BY <1>1, <1>3 DEF ActorsGood, Entry, TypeOK, ProcInOrder
<1> HIDE DEF t, m
<1>5. LogInOrder(log', pub)
  <2>1. ASSUME NEW u \in Topics PROVE Sorted(log'[u]) /\ Within(log'[u], pub)
    <3>1. CASE u = t
      <4>1. log'[u] = log[t] \o m /\ log[t] \in Seq(Event)
        BY <1>1, <1>4, <3>1
      <4>2. Sorted(log[t]) /\ Within(log[t], pub) /\ Sorted(m) /\ Within(m, pub)
            /\ Earlier(log[t], m)
        BY <1>3, <1>4 DEF LogInOrder, Due
      <4> QED BY <1>4, <4>1, <4>2, JoinInOrder
    <3>2. CASE u # t
      <4>1. log'[u] = log[u]
        BY <1>1, <1>4, <3>2
      <4> QED BY <1>3, <4>1 DEF LogInOrder
    <3> QED BY <3>1, <3>2
  <2> QED BY <2>1 DEF LogInOrder
<1>6. ASSUME NEW ms, Due(ms, log, pub), Earlier(m, ms) PROVE Due(ms, log', pub)
  BY <1>1, <1>4, <1>6, DueAfter
<1>7. ProcInOrder(log', publishChan, proc', pub)
  BY <1>2 DEF ProcInOrder
<1>8. ChannelInOrder(log', publishChan, pub)
  BY <1>3, <1>4, <1>6 DEF ChannelInOrder
<1>9. CallsInOrder(log', pub)
  BY <1>3, <1>4, <1>6 DEF CallsInOrder, BeforeWaiting
<1> QED BY <1>1, <1>5, <1>7, <1>8, <1>9 DEF Ordered

\* Every step keeps the order.
LEMMA OrderStep == OrderInv /\ [Next]_vars => OrderInv'
<1> SUFFICES ASSUME OrderInv, [Next]_vars PROVE OrderInv'
  OBVIOUS
<1>1. BusInv'
  BY BusInvStep DEF OrderInv
<1>2. Ordered(log', publishChan', proc', pub')
  <2>1. CASE UNCHANGED vars
    <3>1. UNCHANGED <<log, publishChan, pub, proc>>
      BY <2>1 DEF vars, busVars, actorVars, histVars
    <3> QED BY <3>1, OrderQuiet
  <2>2. CASE Next
    <3>1. \/ \E p \in Publishers : PublishCheck(p) \/ PublishSend(p)
          \/ \E s \in Subs : SubscriberStep(s)
          \/ TakeEntry \/ Snapshot \/ SendMessage
          \/ \E c \in Stoppers : StopBegin(c) \/ StopperStep(c)
      BY <2>2 DEF Next, PublisherStep, ProcessorStep
    <3> QED BY <3>1, CallInOrder, ChannelGrowsInOrder, TakeInOrder, SnapshotInOrder,
            QuietInOrder
  <2> QED BY <2>1, <2>2
<1> QED BY <1>1, <1>2 DEF OrderInv

\* The messages of one publisher reach a topic in the order of its calls, each
\* once: neither the channel nor the processing goroutine reorders them.
THEOREM PublishersStayInOrder == Spec => []PublisherOrder
<1>1. Spec => []OrderInv
  BY OrderInit, OrderStep, PTL DEF Spec
<1>2. OrderInv => PublisherOrder
  BY DEF OrderInv, Ordered, LogInOrder, Sorted, PublisherOrder
<1> QED BY <1>1, <1>2, PTL
=============================================================================
