------------------------------- MODULE EventBus -------------------------------
(***************************************************************************)
(* The in-memory event bus (component/event).                              *)
(*                                                                         *)
(* Publish puts an entry on a buffered Go channel; one goroutine takes the *)
(* entries off it and copies their messages to the buffered channels of    *)
(* the topic's subscribers; every subscriber's listener goroutine hands    *)
(* what it receives to its handler.  Stop hands the processing goroutine a *)
(* token, waits to get it back and closes the subscribers' channels.  The  *)
(* lifecycle state is an atomic word that Publish and Subscribe read once, *)
(* before they do anything else; the subscriber map has a mutex.           *)
(*                                                                         *)
(* The bus starts as NewEventBus returns it: started and processing.       *)
(***************************************************************************)
EXTENDS Naturals, Sequences

CONSTANTS
    Publishers,  \* goroutines that call Publish, one call after another
    Subs,        \* goroutines that call Subscribe once, and their channels
    Stoppers,    \* goroutines that call Stop (or Close) once
    Topics,
    BufferSize,  \* capacity of every channel (defaultBufferSize)
    MaxBatch,    \* bound of the model: messages of one Publish call
    MaxEvents,   \* bound of the model: messages a publisher publishes
    Nil          \* the nil map, no topic

ASSUME BusAssumption ==
    /\ BufferSize \in Nat \ {0}
    /\ MaxBatch \in Nat \ {0}
    /\ MaxEvents \in Nat

ASSUME NilAssumption == Nil \notin Topics /\ Nil \notin [Topics -> Seq(Subs)]

\* A message is identified by its publisher and its number there.
Event == [pub : Publishers, num : 1..MaxEvents]

\* The type entry of bus.go.
Entry == [topic : Topics, messages : Seq(Event)]

NoEntry == [topic |-> Nil, messages |-> <<>>]

VARIABLES
    state,        \* Lifecycle.state
    publishChan,  \* the entries in the publish channel
    subscribers,  \* the subscriber map, or Nil
    buffer,       \* buffer[s]: the messages in the channel of subscriber s
    closed,       \* the channels that have been closed
    proc,         \* the goroutine of processMessages
    pub,          \* the publishers
    sub,          \* the subscribers and their listeners
    stopper,      \* the callers of Stop
    log,          \* history: the messages dispatched on each topic
    joined,       \* history: the length of the topic's log at Subscribe
    received      \* history: the messages each listener received

busVars == <<state, publishChan, subscribers, buffer, closed>>
actorVars == <<proc, pub, sub, stopper>>
histVars == <<log, joined, received>>
vars == <<busVars, actorVars, histVars>>

\* The processing goroutine: the entry it took, the snapshot of the topic's
\* subscribers and the loop counters of publish.
Processor == [pc : {"select", "publish", "send", "ack", "stopped"},
              entry : Entry \cup {NoEntry}, targets : Seq(Subs),
              si : Nat, mi : Nat]

Publisher == [pc : {"idle", "checked"}, entry : Entry \cup {NoEntry},
              sent : 0..MaxEvents]

Subscribed == {"ready", "listening", "handling", "ended"}
SubPC == {"idle", "checked", "refused", "panicked"} \cup Subscribed
Subscriber == [pc : SubPC, topic : Topics \cup {Nil}]

StopPC == {"idle", "signal", "wait", "close", "done", "refused"}

TypeOK ==
    /\ state \in {"started", "stopped"}
    /\ publishChan \in Seq(Entry)
    /\ subscribers \in [Topics -> Seq(Subs)] \cup {Nil}
    /\ buffer \in [Subs -> Seq(Event)]
    /\ closed \subseteq Subs
    /\ proc \in Processor
    /\ pub \in [Publishers -> Publisher]
    /\ sub \in [Subs -> Subscriber]
    /\ stopper \in [Stoppers -> StopPC]
    /\ log \in [Topics -> Seq(Event)]
    /\ joined \in [Subs -> Nat]
    /\ received \in [Subs -> Seq(Event)]

Processing(pc, e, targets, si, mi) ==
    [pc |-> pc, entry |-> e, targets |-> targets, si |-> si, mi |-> mi]

\* NewEventBus: the channels and the map are made, the processor runs and the
\* lifecycle is started.
Init ==
    /\ state = "started"
    /\ publishChan = <<>>
    /\ subscribers = [t \in Topics |-> <<>>]
    /\ buffer = [s \in Subs |-> <<>>]
    /\ closed = {}
    /\ proc = Processing("select", NoEntry, <<>>, 1, 1)
    /\ pub = [p \in Publishers |-> [pc |-> "idle", entry |-> NoEntry, sent |-> 0]]
    /\ sub = [s \in Subs |-> [pc |-> "idle", topic |-> Nil]]
    /\ stopper = [c \in Stoppers |-> "idle"]
    /\ log = [t \in Topics |-> <<>>]
    /\ joined = [s \in Subs |-> 0]
    /\ received = [s \in Subs |-> <<>>]

-----------------------------------------------------------------------------
\* Publish reads the lifecycle state; a bus that is stopped is an error.
PublishCheck(p) ==
    /\ pub[p].pc = "idle"
    /\ \E t \in Topics, k \in 1..MaxBatch :
          /\ pub[p].sent + k <= MaxEvents
          /\ pub' = [pub EXCEPT ![p] =
                [pc |-> IF state = "started" THEN "checked" ELSE "idle",
                 entry |-> IF state = "started"
                           THEN [topic |-> t,
                                 messages |-> [i \in 1..k |->
                                     [pub |-> p, num |-> pub[p].sent + i]]]
                           ELSE NoEntry,
                 sent |-> pub[p].sent + k]]
    /\ UNCHANGED <<busVars, proc, sub, stopper, histVars>>

\* Mutant of PublishSend: a full channel does not block, its newest entry is
\* overwritten.
PublishSendOverwrites(p) ==
    /\ pub[p].pc = "checked"
    /\ publishChan' = IF Len(publishChan) < BufferSize
                      THEN Append(publishChan, pub[p].entry)
                      ELSE [publishChan EXCEPT ![Len(publishChan)] = pub[p].entry]
    /\ pub' = [pub EXCEPT ![p].pc = "idle", ![p].entry = NoEntry]
    /\ UNCHANGED <<state, subscribers, buffer, closed, proc, sub, stopper, histVars>>

\* Mutant of PublishSend: the entry jumps the queue.
PublishSendFront(p) ==
    /\ pub[p].pc = "checked"
    /\ Len(publishChan) < BufferSize
    /\ publishChan' = <<pub[p].entry>> \o publishChan
    /\ pub' = [pub EXCEPT ![p].pc = "idle", ![p].entry = NoEntry]
    /\ UNCHANGED <<state, subscribers, buffer, closed, proc, sub, stopper, histVars>>

\* Publish puts the entry on the channel, waiting while the channel is full.
PublishSend(p) ==
    /\ pub[p].pc = "checked"
    /\ Len(publishChan) < BufferSize
    /\ publishChan' = Append(publishChan, pub[p].entry)
    /\ pub' = [pub EXCEPT ![p].pc = "idle", ![p].entry = NoEntry]
    /\ UNCHANGED <<state, subscribers, buffer, closed, proc, sub, stopper, histVars>>

-----------------------------------------------------------------------------
\* Subscribe reads the lifecycle state, before it takes the mutex.
SubscribeCheck(s) ==
    /\ sub[s].pc = "idle"
    /\ \E t \in Topics :
          sub' = [sub EXCEPT ![s] =
              [pc |-> IF state = "started" THEN "checked" ELSE "refused",
               topic |-> t]]
    /\ UNCHANGED <<busVars, proc, pub, stopper, histVars>>

\* Subscribe appends a channel to the topic's subscribers, under the mutex; a
\* write to the nil map of a stopped bus is a run-time panic.
SubscribeAppend(s) ==
    /\ sub[s].pc = "checked"
    /\ \/ /\ subscribers = Nil
          /\ sub' = [sub EXCEPT ![s].pc = "panicked"]
          /\ UNCHANGED <<subscribers, joined>>
       \/ /\ subscribers # Nil
          /\ subscribers' = [subscribers EXCEPT ![sub[s].topic] = Append(@, s)]
          /\ sub' = [sub EXCEPT ![s].pc = "ready"]
          /\ joined' = [joined EXCEPT ![s] = Len(log[sub[s].topic])]
    /\ UNCHANGED <<state, publishChan, buffer, closed, proc, pub, stopper, log, received>>

\* Subscriber.Start: the listener goroutine runs.
Listen(s) ==
    /\ sub[s].pc = "ready"
    /\ sub' = [sub EXCEPT ![s].pc = "listening"]
    /\ UNCHANGED <<busVars, proc, pub, stopper, histVars>>

\* Mutant of Receive: a closed channel is not told from a message.
ReceiveNoOkCheck(s) ==
    /\ sub[s].pc = "listening"
    /\ buffer[s] # <<>> \/ s \in closed
    /\ buffer' = [buffer EXCEPT ![s] = IF @ = <<>> THEN @ ELSE Tail(@)]
    /\ received' = [received EXCEPT ![s] =
                       Append(@, IF buffer[s] = <<>> THEN Nil ELSE Head(buffer[s]))]
    /\ sub' = [sub EXCEPT ![s].pc = "handling"]
    /\ UNCHANGED <<state, publishChan, subscribers, closed, proc, pub, stopper, log, joined>>

\* The listener receives a message, or finds the channel closed and drained
\* and returns.
Receive(s) ==
    /\ sub[s].pc = "listening"
    /\ \/ /\ buffer[s] # <<>>
          /\ buffer' = [buffer EXCEPT ![s] = Tail(@)]
          /\ received' = [received EXCEPT ![s] = Append(@, Head(buffer[s]))]
          /\ sub' = [sub EXCEPT ![s].pc = "handling"]
       \/ /\ buffer[s] = <<>>
          /\ s \in closed
          /\ sub' = [sub EXCEPT ![s].pc = "ended"]
          /\ UNCHANGED <<buffer, received>>
    /\ UNCHANGED <<state, publishChan, subscribers, closed, proc, pub, stopper, log, joined>>

\* The handler posts the event to the web hook of its payload; an error is
\* logged and the event is not handled again.
HandleEvent(s) ==
    /\ sub[s].pc = "handling"
    /\ sub' = [sub EXCEPT ![s].pc = "listening"]
    /\ UNCHANGED <<busVars, proc, pub, stopper, histVars>>

-----------------------------------------------------------------------------
\* processMessages takes an entry off the channel.
TakeEntry ==
    /\ proc.pc = "select"
    /\ publishChan # <<>>
    /\ proc' = Processing("publish", Head(publishChan), <<>>, 1, 1)
    /\ publishChan' = Tail(publishChan)
    /\ UNCHANGED <<state, subscribers, buffer, closed, pub, sub, stopper, histVars>>

\* The subscribers of a topic; a read of the nil map finds none.
SubscribersOf(t) == IF subscribers = Nil THEN <<>> ELSE subscribers[t]

\* publish takes a snapshot of the topic's subscribers under the mutex.
Snapshot ==
    /\ proc.pc = "publish"
    /\ LET targets == SubscribersOf(proc.entry.topic)
       IN proc' = IF targets = <<>>
                  THEN Processing("select", NoEntry, <<>>, 1, 1)
                  ELSE Processing("send", proc.entry, targets, 1, 1)
    /\ log' = [log EXCEPT ![proc.entry.topic] = @ \o proc.entry.messages]
    /\ UNCHANGED <<busVars, pub, sub, stopper, joined, received>>

\* The loops of publish after one message: the next message for the same
\* subscriber, the next subscriber, or the next entry.
AfterSend ==
    IF proc.mi < Len(proc.entry.messages)
    THEN Processing("send", proc.entry, proc.targets, proc.si, proc.mi + 1)
    ELSE IF proc.si < Len(proc.targets)
    THEN Processing("send", proc.entry, proc.targets, proc.si + 1, 1)
    ELSE Processing("select", NoEntry, <<>>, 1, 1)

\* Mutant of SendMessage: the message counter is not reset for the next
\* subscriber.
SendMessageNoReset ==
    /\ proc.pc = "send"
    /\ LET s == proc.targets[proc.si]
       IN /\ Len(buffer[s]) < BufferSize
          /\ buffer' = [buffer EXCEPT ![s] = Append(@, proc.entry.messages[proc.mi])]
    /\ proc' = IF proc.mi < Len(proc.entry.messages)
               THEN Processing("send", proc.entry, proc.targets, proc.si, proc.mi + 1)
               ELSE IF proc.si < Len(proc.targets)
               THEN Processing("send", proc.entry, proc.targets, proc.si + 1, proc.mi)
               ELSE Processing("select", NoEntry, <<>>, 1, 1)
    /\ UNCHANGED <<state, publishChan, subscribers, closed, pub, sub, stopper, histVars>>

\* publish sends one message to one subscriber, waiting while its channel is
\* full.
SendMessage ==
    /\ proc.pc = "send"
    /\ LET s == proc.targets[proc.si]
       IN /\ Len(buffer[s]) < BufferSize
          /\ buffer' = [buffer EXCEPT ![s] = Append(@, proc.entry.messages[proc.mi])]
    /\ proc' = AfterSend
    /\ UNCHANGED <<state, publishChan, subscribers, closed, pub, sub, stopper, histVars>>

-----------------------------------------------------------------------------
\* Lifecycle.Stop: one caller wins the compare-and-swap and runs stop.
StopBegin(c) ==
    /\ stopper[c] = "idle"
    /\ stopper' = [stopper EXCEPT ![c] = IF state = "started" THEN "signal"
                                                             ELSE "refused"]
    /\ state' = "stopped"
    /\ UNCHANGED <<publishChan, subscribers, buffer, closed, proc, pub, sub, histVars>>

\* Mutant of StopSignal: stop goes on without waiting for the processor.
StopSignalNoWait(c) ==
    /\ stopper[c] = "signal"
    /\ stopper' = [stopper EXCEPT ![c] = "close"]
    /\ UNCHANGED <<busVars, proc, pub, sub, histVars>>

\* Mutant of StopSignal: the processor returns without handing the token back.
StopSignalNoAck(c) ==
    /\ stopper[c] = "signal"
    /\ proc.pc = "select"
    /\ stopper' = [stopper EXCEPT ![c] = "wait"]
    /\ proc' = [proc EXCEPT !.pc = "stopped"]
    /\ UNCHANGED <<busVars, pub, sub, histVars>>

\* stop hands the token to the processor, between two entries.
StopSignal(c) ==
    /\ stopper[c] = "signal"
    /\ proc.pc = "select"
    /\ stopper' = [stopper EXCEPT ![c] = "wait"]
    /\ proc' = [proc EXCEPT !.pc = "ack"]
    /\ UNCHANGED <<busVars, pub, sub, histVars>>

\* The processor hands the token back and returns.
StopWait(c) ==
    /\ stopper[c] = "wait"
    /\ proc.pc = "ack"
    /\ stopper' = [stopper EXCEPT ![c] = "close"]
    /\ proc' = [proc EXCEPT !.pc = "stopped"]
    /\ UNCHANGED <<busVars, pub, sub, histVars>>

\* Mutant of StopClose: the map is dropped, the channels are not closed.
StopCloseDropsMap(c) ==
    /\ stopper[c] = "close"
    /\ subscribers' = Nil
    /\ stopper' = [stopper EXCEPT ![c] = "done"]
    /\ UNCHANGED <<state, publishChan, buffer, closed, proc, pub, sub, histVars>>

\* stop closes every channel in the map and drops the map, under the mutex.
StopClose(c) ==
    /\ stopper[c] = "close"
    /\ closed' = closed \cup {s \in Subs :
                     \E t \in Topics : \E i \in DOMAIN SubscribersOf(t) :
                         SubscribersOf(t)[i] = s}
    /\ subscribers' = Nil
    /\ stopper' = [stopper EXCEPT ![c] = "done"]
    /\ UNCHANGED <<state, publishChan, buffer, proc, pub, sub, histVars>>

-----------------------------------------------------------------------------
\* A goroutine panicked: the program is gone.
Crashed == \E s \in Subs : sub[s].pc = "panicked"

PublisherStep(p) == PublishCheck(p) \/ PublishSend(p)
ListenerStep(s) == Listen(s) \/ Receive(s) \/ HandleEvent(s)
SubscriberStep(s) == SubscribeCheck(s) \/ SubscribeAppend(s) \/ ListenerStep(s)
ProcessorStep == TakeEntry \/ Snapshot \/ SendMessage
StopperStep(c) == StopSignal(c) \/ StopWait(c) \/ StopClose(c)

Next ==
    /\ ~Crashed
    /\ \/ \E p \in Publishers : PublisherStep(p)
       \/ \E s \in Subs : SubscriberStep(s)
       \/ ProcessorStep
       \/ \E c \in Stoppers : StopBegin(c) \/ StopperStep(c)

\* Publish, Subscribe and Stop overlap in every way.
Spec == Init /\ [][Next]_vars

\* The same calls, with the fairness of goroutines that can run.  Callers are
\* not made to call.
FairSpec ==
    /\ Spec
    /\ WF_vars(~Crashed /\ ProcessorStep)
    /\ \A p \in Publishers : SF_vars(~Crashed /\ PublishSend(p))
    /\ \A s \in Subs : /\ WF_vars(~Crashed /\ SubscribeAppend(s))
                       /\ WF_vars(~Crashed /\ ListenerStep(s))
    /\ \A c \in Stoppers : WF_vars(~Crashed /\ StopperStep(c))

-----------------------------------------------------------------------------
\* Processor and Stop never meet on a channel: while publish has messages to
\* send, no channel of its snapshot is closed (a send on a closed channel
\* panics), although the snapshot is used after the mutex is released.
NoSendOnClosed ==
    proc.pc = "send" => \A i \in DOMAIN proc.targets : proc.targets[i] \notin closed

\* The messages publish has still to send to subscriber s.
Pending(s) ==
    IF proc.pc # "send" \/ ~\E i \in DOMAIN proc.targets : proc.targets[i] = s
    THEN <<>>
    ELSE LET i == CHOOSE i \in DOMAIN proc.targets : proc.targets[i] = s
         IN IF i < proc.si THEN <<>>
            ELSE IF i = proc.si
            THEN SubSeq(proc.entry.messages, proc.mi, Len(proc.entry.messages))
            ELSE proc.entry.messages

\* The messages a subscriber got, has in its channel and is about to be sent
\* are exactly the topic's messages since it subscribed: none is lost,
\* duplicated, reordered or taken from another topic, also while the bus
\* stops.
StreamComplete ==
    \A s \in Subs :
        sub[s].pc \in Subscribed =>
            LET stream == log[sub[s].topic]
            IN received[s] \o buffer[s] \o Pending(s)
                  = SubSeq(stream, joined[s] + 1, Len(stream))

\* The messages of one publisher reach a topic in the order of its calls, each
\* once.
PublisherOrder ==
    \A t \in Topics : \A i, j \in DOMAIN log[t] :
        i < j /\ log[t][i].pub = log[t][j].pub => log[t][i].num < log[t][j].num

\* When Stop has returned to the caller that stopped the bus, every channel
\* Subscribe returned is closed and nobody sends any more.
StoppedMeansClosed ==
    \A c \in Stoppers : stopper[c] = "done" =>
        /\ proc.pc = "stopped"
        /\ \A s \in Subs : sub[s].pc \in Subscribed => s \in closed

\* Nothing panics when the bus is closed while it is in use, what the test of
\* the closed bus is after (bus_test.go).
NoPanic == ~Crashed

\* With listeners that keep receiving, Stop comes to an end, unless a Subscribe
\* call on the dropped map takes the program down.
StopCompletes ==
    \A c \in Stoppers : stopper[c] = "signal" ~> stopper[c] = "done" \/ Crashed

\* Once the bus is stopped, every listener returns, with the same exception.
ListenersEnd ==
    \A s \in Subs : \A c \in Stoppers :
        stopper[c] = "signal" /\ sub[s].pc \in Subscribed
            ~> sub[s].pc = "ended" \/ Crashed

\* A message whose Publish has returned is received by every subscriber of the
\* topic, unless the bus is stopped.
EventDelivered ==
    \A s \in Subs, e \in Event :
        (/\ sub[s].pc \in Subscribed
         /\ \E i \in DOMAIN publishChan :
               /\ publishChan[i].topic = sub[s].topic
               /\ \E m \in DOMAIN publishChan[i].messages :
                     publishChan[i].messages[m] = e)
        ~> \/ \E i \in DOMAIN received[s] : received[s][i] = e
           \/ state = "stopped"
=============================================================================
