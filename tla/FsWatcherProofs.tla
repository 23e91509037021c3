-------------------------- MODULE FsWatcherProofs ---------------------------
(***************************************************************************)
(* The watchers' threads and their channel, for any number of watchers,    *)
(* keys and items: types, the order in which events reach the channel, and *)
(* that none vanishes or is in two places.                                 *)
(***************************************************************************)
EXTENDS FsWatcher, TLAPS

\* An item is an event as soon as convert_event keeps it.
LEMMA ItemIsEvent == \A x \in Item : x.key \in Key => x \in Event
BY DEF Item, Event

LEMMA SendTypeOK ==
    ASSUME WatcherTypeOK, NEW m \in Message, Send(m)
    PROVE  /\ sent' \in Seq(Message)
           /\ lost' \subseteq [id : 1..MaxRaised, why : {"unheard", "closed", "lagged"}]
<1>1. CASE listening
  <2>1. sent' = Append(sent, m) /\ lost' = lost
    BY <1>1 DEF Send
  <2>2. sent \in Seq(Message)
    BY DEF WatcherTypeOK
  <2> QED BY <2>1, <2>2 DEF WatcherTypeOK
<1>2. CASE ~listening
  <2>1. m.events \in Seq(Event)
    <3>1. <<>> \in Seq(Event)
      OBVIOUS
    <3> QED BY <3>1 DEF Message
  <2>2. \A e \in ToSet(m.events) : e \in Event
    BY <2>1 DEF ToSet
  <2>3. Losses(m.events, "unheard") \subseteq
           [id : 1..MaxRaised, why : {"unheard", "closed", "lagged"}]
    BY <2>2 DEF Losses, Loss, Event
  <2> QED BY <1>2, <2>3 DEF Send, WatcherTypeOK
<1> QED BY <1>1, <1>2

LEMMA RecvTypeOK ==
    ASSUME WatcherTypeOK, NEW w \in Watcher, DebounceRecv(w)
    PROVE  WatcherTypeOK'
<1> USE DEF WatcherTypeOK
<1> DEFINE item == Head(raw[w])
<1>1. item \in Item /\ raw' = [raw EXCEPT ![w] = Tail(@)] /\ raw' \in [Watcher -> Seq(Item)]
  BY DEF DebounceRecv
<1>2. UNCHANGED <<status, listening, reported>>
  BY DEF DebounceRecv
<1>3. CASE item.key \in Fault /\ Send(ErrorMessage) /\ UNCHANGED pending
  <2>1. ErrorMessage \in Message
    BY DEF ErrorMessage, Message
  <2> QED BY <1>1, <1>2, <1>3, <2>1, SendTypeOK
<1>4. CASE item.key \in Noise /\ UNCHANGED <<pending, sent, lost>>
  BY <1>1, <1>2, <1>4
<1>5. CASE /\ item.key \in Key
           /\ pending' = [pending EXCEPT ![w] = Append(@, item)]
           /\ UNCHANGED <<sent, lost>>
  <2>1. item \in Event
    BY <1>1, <1>5, ItemIsEvent
  <2>2. pending' \in [Watcher -> Seq(Event)]
    BY <1>5, <2>1
  <2> QED BY <1>1, <1>2, <1>5, <2>2
<1> QED BY <1>3, <1>4, <1>5 DEF DebounceRecv

LEMMA FlushTypeOK ==
    ASSUME WatcherTypeOK, NEW w \in Watcher, DebounceFlush(w)
    PROVE  WatcherTypeOK'
<1> USE DEF WatcherTypeOK
<1>1. Batch(pending[w]) \in Message /\ Send(Batch(pending[w]))
  BY DEF DebounceFlush, Batch, Message
<1>2. /\ sent' \in Seq(Message)
      /\ lost' \subseteq [id : 1..MaxRaised, why : {"unheard", "closed", "lagged"}]
  BY <1>1, SendTypeOK
<1> QED BY <1>2 DEF DebounceFlush

LEMMA EndTypeOK ==
    ASSUME WatcherTypeOK, NEW w \in Watcher, DebounceEnd(w)
    PROVE  WatcherTypeOK'
<1> USE DEF WatcherTypeOK
<1>1. \A e \in ToSet(pending[w]) : e \in Event
  BY DEF ToSet
<1>2. Losses(pending[w], "closed") \subseteq
         [id : 1..MaxRaised, why : {"unheard", "closed", "lagged"}]
  BY <1>1 DEF Losses, Loss, Event
<1>3. status' \in [Watcher -> Status] /\ pending' \in [Watcher -> Seq(Event)]
  BY DEF DebounceEnd, Status
<1> QED BY <1>2, <1>3 DEF DebounceEnd

LEMMA NotifyTypeOK ==
    ASSUME WatcherTypeOK, NEW w \in Watcher, NEW k \in Key \cup Noise \cup Fault,
           Notify(w, k)
    PROVE  WatcherTypeOK'
<1> USE DEF WatcherTypeOK
<1> DEFINE item == [id |-> Len(reported) + 1, key |-> k, from |-> w]
<1>1. item \in Item /\ Len(reported) + 1 <= MaxRaised /\ Len(reported) \in Nat
  BY MaxRaisedAssumption DEF Notify, Item
<1>2. reported' = Append(reported, item) /\ raw' = [raw EXCEPT ![w] = Append(@, item)]
  BY DEF Notify
<1>3. reported' \in Seq(Item) /\ Len(reported') <= MaxRaised
  BY <1>1, <1>2
<1>4. raw' \in [Watcher -> Seq(Item)]
  BY <1>1, <1>2
<1> QED BY <1>3, <1>4 DEF Notify

LEMMA WatcherInitTypeOK == WatcherInit => WatcherTypeOK
<1> SUFFICES ASSUME WatcherInit PROVE WatcherTypeOK
  OBVIOUS
<1> USE MaxRaisedAssumption DEF WatcherInit
<1>1. sent \in Seq(Message) /\ reported \in Seq(Item) /\ Len(reported) <= MaxRaised
  OBVIOUS
<1>2. raw \in [Watcher -> Seq(Item)] /\ pending \in [Watcher -> Seq(Event)]
  OBVIOUS
<1> QED BY <1>1, <1>2 DEF WatcherTypeOK, Status

LEMMA WatcherNextTypeOK == WatcherTypeOK /\ [WatcherNext]_watcherVars => WatcherTypeOK'
<1> SUFFICES ASSUME WatcherTypeOK, [WatcherNext]_watcherVars PROVE WatcherTypeOK'
  OBVIOUS
<1>1. CASE Subscribe
  BY <1>1 DEF Subscribe, WatcherTypeOK
<1>2. ASSUME NEW w \in Watcher, StartWatcher(w) \/ DropWatcher(w) PROVE WatcherTypeOK'
  BY <1>2 DEF StartWatcher, DropWatcher, WatcherTypeOK, Status
<1>3. ASSUME NEW w \in Watcher, NEW k \in Key \cup Noise \cup Fault, Notify(w, k)
      PROVE  WatcherTypeOK'
  BY <1>3, NotifyTypeOK
<1>4. ASSUME NEW w \in Watcher, DebounceStep(w) PROVE WatcherTypeOK'
  BY <1>4, RecvTypeOK, FlushTypeOK, EndTypeOK DEF DebounceStep
<1>5. CASE UNCHANGED watcherVars
  BY <1>5 DEF watcherVars, WatcherTypeOK
<1> QED BY <1>1, <1>2, <1>3, <1>4, <1>5 DEF WatcherNext

\* The queues, batches and losses of the watchers keep their types; a batch
\* on the channel is never empty.
THEOREM WatchersTypeOK == WatcherSpec => []WatcherTypeOK
BY WatcherInitTypeOK, WatcherNextTypeOK, PTL DEF WatcherSpec

-----------------------------------------------------------------------------
(* Order.                                                                  *)

LEMMA SortedAppend ==
    ASSUME NEW S, NEW s \in Seq(S), NEW e, Sorted(s), \A i \in DOMAIN s : s[i].id < e.id
    PROVE  Sorted(Append(s, e))
BY DEF Sorted

LEMMA SortedTail ==
    ASSUME NEW S, NEW s \in Seq(S), s # <<>>, Sorted(s)
    PROVE  Sorted(Tail(s))
BY DEF Sorted

LEMMA AllBeforeAppendRight ==
    ASSUME NEW S, NEW T, NEW s \in Seq(S), NEW t \in Seq(T), NEW e, AllBefore(s, t),
           \A i \in DOMAIN s : s[i].from = e.from => s[i].id < e.id
    PROVE  AllBefore(s, Append(t, e))
BY DEF AllBefore

LEMMA AllBeforeAppendLeft ==
    ASSUME NEW S, NEW T, NEW s \in Seq(S), NEW t \in Seq(T), NEW e, AllBefore(s, t),
           \A j \in DOMAIN t : t[j].from = e.from => e.id < t[j].id
    PROVE  AllBefore(Append(s, e), t)
BY DEF AllBefore

LEMMA AllBeforeTail ==
    ASSUME NEW S, NEW T, NEW s \in Seq(S), NEW t \in Seq(T), t # <<>>, AllBefore(s, t)
    PROVE  AllBefore(s, Tail(t))
BY DEF AllBefore

LEMMA AllBeforeEmpty ==
    ASSUME NEW s
    PROVE  AllBefore(s, <<>>) /\ AllBefore(<<>>, s) /\ Sorted(<<>>)
BY DEF AllBefore, Sorted

\* What the queues of a watcher hold is its own, and no id is ahead of notify.
Owned ==
    \A w \in Watcher :
        /\ \A i \in DOMAIN raw[w] : raw[w][i].from = w
        /\ \A i \in DOMAIN pending[w] : pending[w][i].from = w

NotAhead ==
    /\ \A w \in Watcher :
         /\ \A i \in DOMAIN raw[w] : raw[w][i].id <= Len(reported)
         /\ \A i \in DOMAIN pending[w] : pending[w][i].id <= Len(reported)
    /\ \A m \in DOMAIN sent : \A i \in DOMAIN sent[m].events :
         sent[m].events[i].id <= Len(reported)

\* InOrder, one message and one pair of messages at a time.
QueuesInOrder ==
    \A w \in Watcher :
        Sorted(raw[w]) /\ Sorted(pending[w]) /\ AllBefore(pending[w], raw[w])
LogInOrder ==
    \A m \in DOMAIN sent :
        /\ Sorted(sent[m].events)
        /\ \A n \in DOMAIN sent : m < n => AllBefore(sent[m].events, sent[n].events)
LogBeforeQueues ==
    \A m \in DOMAIN sent : \A w \in Watcher :
        AllBefore(sent[m].events, pending[w]) /\ AllBefore(sent[m].events, raw[w])

OrderInv ==
    WatcherTypeOK /\ Owned /\ NotAhead /\ QueuesInOrder /\ LogInOrder /\ LogBeforeQueues

LEMMA MessageEvents == \A m \in DOMAIN sent : WatcherTypeOK => sent[m].events \in Seq(Event)
<1> SUFFICES ASSUME NEW m \in DOMAIN sent, WatcherTypeOK PROVE sent[m].events \in Seq(Event)
  OBVIOUS
<1>1. sent[m] \in Message /\ <<>> \in Seq(Event)
  BY DEF WatcherTypeOK
<1> QED BY <1>1 DEF Message

\* notify reports an item: its id is above every id in use.
LEMMA NotifyOrder ==
    ASSUME OrderInv, NEW w \in Watcher, NEW k \in Key \cup Noise \cup Fault, Notify(w, k)
    PROVE  OrderInv'
<1> DEFINE item == [id |-> Len(reported) + 1, key |-> k, from |-> w]
<1> USE DEF OrderInv
<1>1. WatcherTypeOK'
  BY NotifyTypeOK
<1>2. /\ reported' = Append(reported, item) /\ reported \in Seq(Item)
      /\ raw' = [raw EXCEPT ![w] = Append(@, item)]
      /\ UNCHANGED <<status, pending, sent, listening, lost>>
  BY DEF Notify, WatcherTypeOK
<1>3. Len(reported) \in Nat /\ Len(reported') = Len(reported) + 1
  BY <1>2
<1>4. \A v \in Watcher : raw[v] \in Seq(Item) /\ pending[v] \in Seq(Event)
  BY DEF WatcherTypeOK
<1>5. /\ raw'[w] = Append(raw[w], item)
      /\ \A v \in Watcher \ {w} : raw'[v] = raw[v]
  BY <1>2 DEF WatcherTypeOK
<1>6. \A x \in Item : x.id \in Nat
  BY DEF Item
<1>7. \A x \in Event : x.id \in Nat
  BY DEF Event
<1>8. Owned'
  BY <1>2, <1>4, <1>5 DEF Owned
<1>9. NotAhead'
  <2>1. \A v \in Watcher : \A i \in DOMAIN raw'[v] : raw'[v][i].id <= Len(reported')
    <3> SUFFICES ASSUME NEW v \in Watcher, NEW i \in DOMAIN raw'[v]
                 PROVE  raw'[v][i].id <= Len(reported')
      OBVIOUS
    <3>1. CASE v # w
      BY <1>3, <1>4, <1>5, <1>6, <3>1 DEF NotAhead
    <3>2. CASE v = w /\ i = Len(raw[w]) + 1
      BY <1>3, <1>4, <1>5, <3>2
    <3>3. CASE v = w /\ i \in DOMAIN raw[w]
      <4>1. raw'[v][i] = raw[w][i] /\ raw[w][i] \in Item
        BY <1>4, <1>5, <3>3
      <4> QED BY <1>3, <1>6, <3>3, <4>1 DEF NotAhead
    <3> QED BY <1>4, <1>5, <3>1, <3>2, <3>3
  <2>2. \A v \in Watcher : \A i \in DOMAIN pending'[v] : pending'[v][i].id <= Len(reported')
    BY <1>2, <1>3, <1>4, <1>7 DEF NotAhead
  <2>3. \A m \in DOMAIN sent' : \A i \in DOMAIN sent'[m].events :
          sent'[m].events[i].id <= Len(reported')
    BY <1>2, <1>3, <1>7, MessageEvents DEF NotAhead
  <2> QED BY <2>1, <2>2, <2>3 DEF NotAhead
<1>10. QueuesInOrder'
  <2>1. Sorted(raw'[w])
    <3>1. \A i \in DOMAIN raw[w] : raw[w][i].id < item.id
      BY <1>3, <1>4, <1>6 DEF NotAhead
    <3> QED BY <1>4, <1>5, <3>1, SortedAppend DEF QueuesInOrder
  <2>2. AllBefore(pending[w], raw'[w])
    <3>1. \A i \in DOMAIN pending[w] : pending[w][i].id < item.id
      BY <1>3, <1>4, <1>7 DEF NotAhead
    <3> QED BY <1>4, <1>5, <3>1, AllBeforeAppendRight DEF QueuesInOrder
  <2> QED BY <1>2, <1>5, <2>1, <2>2 DEF QueuesInOrder
<1>11. LogInOrder'
  BY <1>2 DEF LogInOrder
<1>12. LogBeforeQueues'
  <2>1. ASSUME NEW m \in DOMAIN sent PROVE AllBefore(sent[m].events, raw'[w])
    <3>1. sent[m].events \in Seq(Event)
      BY MessageEvents
    <3>2. \A i \in DOMAIN sent[m].events : sent[m].events[i].id < item.id
      BY <1>3, <1>7, <3>1 DEF NotAhead
    <3> QED BY <1>4, <1>5, <3>1, <3>2, AllBeforeAppendRight DEF LogBeforeQueues
  <2> QED BY <1>2, <1>5, <2>1 DEF LogBeforeQueues
<1> QED BY <1>1, <1>8, <1>9, <1>10, <1>11, <1>12

\* Sending a sorted message whose events come after all those sent keeps the
\* log in order, and the other parts only have the new message to look at.
LEMMA SendOrder ==
    ASSUME OrderInv, NEW m \in Message, Send(m), Sorted(m.events),
           \A n \in DOMAIN sent : AllBefore(sent[n].events, m.events)
    PROVE  /\ LogInOrder'
           /\ \A n \in DOMAIN sent' :
                 \/ n \in DOMAIN sent /\ sent'[n] = sent[n]
                 \/ sent'[n] = m
<1>1. sent \in Seq(Message)
  BY DEF OrderInv, WatcherTypeOK
<1>2. CASE listening
  <2>1. sent' = Append(sent, m)
    BY <1>2 DEF Send
  <2>2. DOMAIN sent' = 1..(Len(sent) + 1) /\ Len(sent) \in Nat
    BY <1>1, <2>1
  <2>3. \A n \in DOMAIN sent : sent'[n] = sent[n]
    BY <1>1, <2>1
  <2>4. sent'[Len(sent) + 1] = m
    BY <1>1, <2>1
  <2>5. \A n \in DOMAIN sent' : n \in DOMAIN sent \/ n = Len(sent) + 1
    BY <1>1, <2>2
  <2>6. LogInOrder'
    <3> SUFFICES ASSUME NEW i \in DOMAIN sent'
                 PROVE  /\ Sorted(sent'[i].events)
                        /\ \A j \in DOMAIN sent' :
                              i < j => AllBefore(sent'[i].events, sent'[j].events)
      BY DEF LogInOrder
    <3>1. Sorted(sent'[i].events)
      BY <2>3, <2>4, <2>5 DEF OrderInv, LogInOrder
    <3>2. ASSUME NEW j \in DOMAIN sent', i < j
          PROVE  AllBefore(sent'[i].events, sent'[j].events)
      <4>1. i \in DOMAIN sent
        BY <1>1, <2>2, <3>2
      <4>2. CASE j \in DOMAIN sent
        BY <2>3, <3>2, <4>1, <4>2 DEF OrderInv, LogInOrder
      <4>3. CASE j = Len(sent) + 1
        BY <2>3, <2>4, <4>1, <4>3
      <4> QED BY <2>5, <4>2, <4>3
    <3> QED BY <3>1, <3>2
  <2> QED BY <2>3, <2>4, <2>5, <2>6
<1>3. CASE ~listening
  <2>1. sent' = sent
    BY <1>3 DEF Send
  <2> QED BY <2>1 DEF OrderInv, LogInOrder
<1> QED BY <1>2, <1>3

\* debounce_loop moves the oldest item of its queue behind what is pending.
LEMMA RecvOrder ==
    ASSUME OrderInv, NEW w \in Watcher, DebounceRecv(w)
    PROVE  OrderInv'
<1> DEFINE item == Head(raw[w])
<1> USE DEF OrderInv
<1>1. WatcherTypeOK'
  BY RecvTypeOK
<1>2. /\ raw[w] \in Seq(Item) /\ raw[w] # <<>> /\ pending[w] \in Seq(Event)
      /\ raw'[w] = Tail(raw[w])
      /\ \A v \in Watcher \ {w} : raw'[v] = raw[v]
      /\ reported' = reported /\ raw' \in [Watcher -> Seq(Item)]
  BY <1>1 DEF DebounceRecv, WatcherTypeOK
<1>3. /\ \A v \in Watcher : \A i \in DOMAIN raw'[v] : \E j \in DOMAIN raw[v] :
             raw'[v][i] = raw[v][j]
      /\ \A v \in Watcher : Sorted(raw'[v])
      /\ \A T : \A s \in Seq(T) : \A v \in Watcher :
             AllBefore(s, raw[v]) => AllBefore(s, raw'[v])
  <2>1. \A i \in DOMAIN raw'[w] : raw'[w][i] = raw[w][i + 1] /\ i + 1 \in DOMAIN raw[w]
    BY <1>2
  <2>2. Sorted(raw'[w])
    BY <1>2, SortedTail DEF QueuesInOrder
  <2>3. \A T : \A s \in Seq(T) : AllBefore(s, raw[w]) => AllBefore(s, raw'[w])
    BY <1>2, AllBeforeTail
  <2> QED BY <1>2, <2>1, <2>2, <2>3 DEF QueuesInOrder
<1>4. /\ \A m \in DOMAIN sent : sent[m].events \in Seq(Event)
      /\ \A v \in Watcher : pending[v] \in Seq(Event)
  BY MessageEvents DEF WatcherTypeOK
<1>5. CASE item.key \in Key /\ pending' = [pending EXCEPT ![w] = Append(@, item)]
           /\ UNCHANGED <<sent, lost>>
  <2>1. /\ pending'[w] = Append(pending[w], item)
        /\ \A v \in Watcher \ {w} : pending'[v] = pending[v]
    BY <1>5 DEF WatcherTypeOK
  <2>2. /\ item = raw[w][1] /\ 1 \in DOMAIN raw[w] /\ item.from = w
        /\ item.id <= Len(reported)
    BY <1>2 DEF Owned, NotAhead
  <2>3. \A i \in DOMAIN pending'[w] :
          (i \in DOMAIN pending[w] /\ pending'[w][i] = pending[w][i]) \/ pending'[w][i] = item
    BY <1>2, <2>1
  <2>4. Owned'
    <3>1. \A v \in Watcher : \A i \in DOMAIN raw'[v] : raw'[v][i].from = v
      BY <1>3 DEF Owned
    <3>2. \A i \in DOMAIN pending'[w] : pending'[w][i].from = w
      BY <2>2, <2>3 DEF Owned
    <3>3. \A v \in Watcher \ {w} : \A i \in DOMAIN pending'[v] : pending'[v][i].from = v
      BY <2>1 DEF Owned
    <3> QED BY <3>1, <3>2, <3>3 DEF Owned
  <2>5. NotAhead'
    BY <1>2, <1>3, <1>5, <2>1, <2>2, <2>3 DEF NotAhead
  <2>6. \A i \in DOMAIN pending[w] : pending[w][i].id < item.id
    <3>1. AllBefore(pending[w], raw[w])
      BY DEF QueuesInOrder
    <3>2. \A i \in DOMAIN pending[w] : pending[w][i].from = raw[w][1].from
      BY <2>2 DEF Owned
    <3> QED BY <2>2, <3>1, <3>2 DEF AllBefore
  <2>7. Sorted(pending'[w])
    BY <1>2, <2>1, <2>6, SortedAppend DEF QueuesInOrder
  <2>8. AllBefore(pending[w], raw'[w])
    BY <1>2, <1>3 DEF QueuesInOrder
  <2>9. \A j \in DOMAIN raw'[w] : item.id < raw'[w][j].id
    BY <1>2, <2>2 DEF QueuesInOrder, Sorted
  <2>10. AllBefore(pending'[w], raw'[w])
    <3>1. raw'[w] \in Seq(Item) /\ pending[w] \in Seq(Event)
      BY <1>2
    <3>2. AllBefore(Append(pending[w], item), raw'[w])
      BY <2>8, <2>9, <3>1, AllBeforeAppendLeft
    <3> QED BY <2>1, <3>2
  <2>11. QueuesInOrder'
    BY <1>2, <1>3, <2>1, <2>7, <2>10 DEF QueuesInOrder
  <2>12. LogInOrder'
    BY <1>5 DEF LogInOrder
  <2>13. ASSUME NEW m \in DOMAIN sent PROVE AllBefore(sent[m].events, pending'[w])
    <3>1. \A i \in DOMAIN sent[m].events :
            sent[m].events[i].from = item.from => sent[m].events[i].id < item.id
      BY <2>2 DEF LogBeforeQueues, AllBefore
    <3> QED
      BY <1>2, <1>4, <2>1, <2>13, <3>1, AllBeforeAppendRight DEF LogBeforeQueues
  <2>14. LogBeforeQueues'
    BY <1>3, <1>4, <1>5, <2>1, <2>13 DEF LogBeforeQueues
  <2> QED BY <1>1, <2>4, <2>5, <2>11, <2>12, <2>14
<1>6. ASSUME pending' = pending, LogInOrder',
             \A n \in DOMAIN sent' :
                \/ n \in DOMAIN sent /\ sent'[n] = sent[n]
                \/ sent'[n].events = <<>>
      PROVE  OrderInv'
  <2>1. Owned'
    BY <1>2, <1>3, <1>6 DEF Owned
  <2>2. NotAhead'
    BY <1>2, <1>3, <1>6 DEF NotAhead
  <2>3. QueuesInOrder'
    BY <1>3, <1>4, <1>6 DEF QueuesInOrder
  <2>4. LogBeforeQueues'
    <3> SUFFICES ASSUME NEW n \in DOMAIN sent', NEW v \in Watcher
                 PROVE  /\ AllBefore(sent'[n].events, pending[v])
                        /\ AllBefore(sent'[n].events, raw'[v])
      BY <1>6 DEF LogBeforeQueues
    <3>1. CASE sent'[n].events = <<>>
      BY <3>1, AllBeforeEmpty
    <3>2. CASE n \in DOMAIN sent /\ sent'[n] = sent[n]
      BY <1>3, <1>4, <3>2 DEF LogBeforeQueues
    <3> QED BY <1>6, <3>1, <3>2
  <2> QED BY <1>1, <1>6, <2>1, <2>2, <2>3, <2>4
<1>7. CASE item.key \in Fault /\ Send(ErrorMessage) /\ UNCHANGED pending
  <2>1. ErrorMessage \in Message /\ ErrorMessage.events = <<>>
    BY DEF ErrorMessage, Message
  <2> QED BY <1>6, <1>7, <2>1, SendOrder, AllBeforeEmpty
<1>8. CASE item.key \in Noise /\ UNCHANGED <<pending, sent, lost>>
  BY <1>6, <1>8 DEF LogInOrder
<1> QED BY <1>5, <1>7, <1>8 DEF DebounceRecv

\* Everything pending becomes the newest batch.
LEMMA FlushOrder ==
    ASSUME OrderInv, NEW w \in Watcher, DebounceFlush(w)
    PROVE  OrderInv'
<1> DEFINE m == Batch(pending[w])
<1> USE DEF OrderInv
<1>1. WatcherTypeOK'
  BY FlushTypeOK
<1>2. /\ m \in Message /\ m.events = pending[w] /\ Send(m)
      /\ UNCHANGED <<status, raw, listening, reported>>
      /\ pending'[w] = <<>> /\ \A v \in Watcher \ {w} : pending'[v] = pending[v]
  BY DEF DebounceFlush, Batch, Message, WatcherTypeOK
<1>3. /\ LogInOrder'
      /\ \A n \in DOMAIN sent' :
            \/ n \in DOMAIN sent /\ sent'[n] = sent[n]
            \/ sent'[n] = m
  BY <1>2, SendOrder DEF QueuesInOrder, LogBeforeQueues
<1>4. Owned'
  BY <1>2 DEF Owned
<1>5. NotAhead'
  BY <1>2, <1>3 DEF NotAhead
<1>6. QueuesInOrder'
  BY <1>2, AllBeforeEmpty DEF QueuesInOrder
<1>7. ASSUME NEW v \in Watcher
      PROVE  AllBefore(m.events, pending'[v]) /\ AllBefore(m.events, raw[v])
  <2>1. CASE v = w
    BY <1>2, <2>1, AllBeforeEmpty DEF QueuesInOrder
  <2>2. CASE v # w
    <3>1. /\ \A i \in DOMAIN pending[w] : pending[w][i].from = w
          /\ \A i \in DOMAIN pending[v] : pending[v][i].from = v
          /\ \A i \in DOMAIN raw[v] : raw[v][i].from = v
      BY DEF Owned
    <3> QED BY <1>2, <2>2, <3>1 DEF AllBefore
  <2> QED BY <2>1, <2>2
<1>8. ASSUME NEW n \in DOMAIN sent, NEW v \in Watcher
      PROVE  AllBefore(sent[n].events, pending'[v]) /\ AllBefore(sent[n].events, raw[v])
  BY <1>2, AllBeforeEmpty DEF LogBeforeQueues
<1>9. LogBeforeQueues'
  BY <1>2, <1>3, <1>7, <1>8 DEF LogBeforeQueues
<1> QED BY <1>1, <1>3, <1>4, <1>5, <1>6, <1>9

\* The thread ends and forgets what is pending.
LEMMA EndOrder ==
    ASSUME OrderInv, NEW w \in Watcher, DebounceEnd(w)
    PROVE  OrderInv'
<1> USE DEF OrderInv
<1>1. WatcherTypeOK'
  BY EndTypeOK
<1>2. /\ UNCHANGED <<raw, sent, listening, reported>>
      /\ pending'[w] = <<>> /\ \A v \in Watcher \ {w} : pending'[v] = pending[v]
  BY DEF DebounceEnd, WatcherTypeOK
<1>3. Owned' /\ NotAhead'
  BY <1>2 DEF Owned, NotAhead
<1>4. QueuesInOrder'
  BY <1>2, AllBeforeEmpty DEF QueuesInOrder
<1>5. LogInOrder'
  BY <1>2 DEF LogInOrder
<1>6. LogBeforeQueues'
  BY <1>2, AllBeforeEmpty DEF LogBeforeQueues
<1> QED BY <1>1, <1>3, <1>4, <1>5, <1>6

LEMMA InitOrder == WatcherInit => OrderInv
<1> SUFFICES ASSUME WatcherInit PROVE OrderInv
  OBVIOUS
<1>1. WatcherTypeOK
  BY WatcherInitTypeOK
<1>2. /\ sent = <<>> /\ \A w \in Watcher : raw[w] = <<>> /\ pending[w] = <<>>
  BY DEF WatcherInit
<1>3. Owned /\ NotAhead
  BY <1>2 DEF Owned, NotAhead
<1>4. QueuesInOrder
  BY <1>2, AllBeforeEmpty DEF QueuesInOrder
<1>5. LogInOrder /\ LogBeforeQueues
  BY <1>2 DEF LogInOrder, LogBeforeQueues
<1> QED BY <1>1, <1>3, <1>4, <1>5 DEF OrderInv

LEMMA NextOrder == OrderInv /\ [WatcherNext]_watcherVars => OrderInv'
<1> SUFFICES ASSUME OrderInv, [WatcherNext]_watcherVars PROVE OrderInv'
  OBVIOUS
<1>1. ASSUME UNCHANGED <<raw, pending, sent, reported>> PROVE OrderInv'
  <2>1. WatcherTypeOK'
    BY WatcherNextTypeOK DEF OrderInv
  <2>2. Owned' /\ NotAhead'
    BY <1>1 DEF OrderInv, Owned, NotAhead
  <2>3. QueuesInOrder' /\ LogInOrder' /\ LogBeforeQueues'
    BY <1>1 DEF OrderInv, QueuesInOrder, LogInOrder, LogBeforeQueues
  <2> QED BY <2>1, <2>2, <2>3 DEF OrderInv
<1>2. CASE Subscribe
  BY <1>1, <1>2 DEF Subscribe
<1>3. ASSUME NEW w \in Watcher, StartWatcher(w) \/ DropWatcher(w) PROVE OrderInv'
  BY <1>1, <1>3 DEF StartWatcher, DropWatcher
<1>4. ASSUME NEW w \in Watcher, NEW k \in Key \cup Noise \cup Fault, Notify(w, k)
      PROVE  OrderInv'
  BY <1>4, NotifyOrder
<1>5. ASSUME NEW w \in Watcher, DebounceStep(w) PROVE OrderInv'
  BY <1>5, RecvOrder, FlushOrder, EndOrder DEF DebounceStep
<1>6. CASE UNCHANGED watcherVars
  BY <1>1, <1>6 DEF watcherVars
<1> QED BY <1>2, <1>3, <1>4, <1>5, <1>6 DEF WatcherNext

\* The events of one watcher are sent in the order in which notify reported
\* them, each at most once (debounce_loop), for any number of watchers.
THEOREM WatchersInOrder == WatcherSpec => []InOrder
<1>1. OrderInv => InOrder
  BY DEF OrderInv, QueuesInOrder, LogInOrder, LogBeforeQueues, InOrder
<1> QED BY <1>1, InitOrder, NextOrder, PTL DEF WatcherSpec

-----------------------------------------------------------------------------
(* Conservation.                                                           *)

Noticed == ToSet(reported)
Waiting == UNION {ToSet(raw[w]) \cup ToSet(pending[w]) : w \in Watcher}
Accepted == UNION {ToSet(sent[m].events) : m \in DOMAIN sent}
Forgotten == {l.id : l \in lost}

\* An item is known by its id, and whatever is anywhere was reported.
Numbered ==
    /\ \A i \in DOMAIN reported : reported[i].id = i
    /\ Waiting \subseteq Noticed /\ Accepted \subseteq Noticed
    /\ Forgotten \subseteq DOMAIN reported

\* Conserved, for the three places taken as sets.
OnePlace ==
    \A e \in Noticed : e.key \in Key =>
        \/ e \in Waiting /\ e \notin Accepted /\ e.id \notin Forgotten
        \/ e \in Accepted /\ e \notin Waiting /\ e.id \notin Forgotten
        \/ e.id \in Forgotten /\ e \notin Waiting /\ e \notin Accepted

NumberedInv == OrderInv /\ Numbered
ConservedInv == NumberedInv /\ OnePlace

\* What a step does to the places: an event leaves the queues to be accepted or
\* forgotten, never both, and only a new item joins them.
Moves ==
    /\ Noticed \subseteq Noticed'
    /\ \A e \in Noticed' \ Noticed : e \in Waiting' /\ e.id \notin DOMAIN reported
    /\ \A e \in Waiting' \ Waiting : e.id \notin DOMAIN reported
    /\ Accepted \subseteq Accepted' /\ Forgotten \subseteq Forgotten'
    /\ \A e \in Accepted' \ Accepted : e \in Waiting /\ e \notin Waiting'
    /\ \A x \in Forgotten' \ Forgotten :
         /\ Accepted' = Accepted
         /\ \E e \in Waiting : e.id = x /\ e \notin Waiting'
    /\ \A e \in Waiting \ Waiting' :
         e.key \in Key => e \in Accepted' \/ e.id \in Forgotten'

LEMMA KnownById ==
    ASSUME Numbered
    PROVE  \A e, f \in Noticed : e.id = f.id => e = f
BY DEF Numbered, Noticed, ToSet

LEMMA WaitingFact ==
    \A e : e \in Waiting <=> \E w \in Watcher : e \in ToSet(raw[w]) \/ e \in ToSet(pending[w])
BY DEF Waiting

\* What waits at a watcher is its own.
LEMMA WaitsAtItsOwn ==
    ASSUME Owned, NEW w \in Watcher, NEW e
    PROVE  e \in ToSet(raw[w]) \cup ToSet(pending[w]) => e.from = w
BY DEF Owned, ToSet

LEMMA AppendedSet ==
    ASSUME NEW S, NEW s \in Seq(S), NEW e \in S
    PROVE  ToSet(Append(s, e)) = ToSet(s) \cup {e}
<1>1. /\ DOMAIN Append(s, e) = DOMAIN s \cup {Len(s) + 1}
      /\ \A i \in DOMAIN s : Append(s, e)[i] = s[i]
      /\ Append(s, e)[Len(s) + 1] = e
  OBVIOUS
<1> QED BY <1>1 DEF ToSet

LEMMA HeadAndRestSet ==
    ASSUME NEW S, NEW s \in Seq(S), s # <<>>
    PROVE  ToSet(s) = {Head(s)} \cup ToSet(Tail(s))
<1>1. Head(s) = s[1] /\ 1 \in DOMAIN s
  OBVIOUS
<1>2. \A j \in DOMAIN Tail(s) : j + 1 \in DOMAIN s /\ Tail(s)[j] = s[j + 1]
  OBVIOUS
<1>3. \A i \in DOMAIN s : i = 1 \/ (i - 1 \in DOMAIN Tail(s) /\ s[i] = Tail(s)[i - 1])
  OBVIOUS
<1>4. ASSUME NEW x \in ToSet(s) PROVE x \in {Head(s)} \cup ToSet(Tail(s))
  <2>1. PICK i \in DOMAIN s : x = s[i]
    BY DEF ToSet
  <2> DEFINE j == i - 1
  <2>2. i = 1 \/ (j \in DOMAIN Tail(s) /\ x = Tail(s)[j])
    BY <1>3, <2>1
  <2> HIDE DEF j
  <2> QED BY <1>1, <2>1, <2>2 DEF ToSet
<1>5. ASSUME NEW x \in ToSet(Tail(s)) PROVE x \in ToSet(s)
  <2>1. PICK j \in DOMAIN Tail(s) : x = Tail(s)[j]
    BY DEF ToSet
  <2> DEFINE i == j + 1
  <2>2. i \in DOMAIN s /\ x = s[i]
    BY <1>2, <2>1
  <2> HIDE DEF i
  <2> QED BY <2>2 DEF ToSet
<1>6. Head(s) \in ToSet(s)
  BY <1>1 DEF ToSet
<1> QED BY <1>4, <1>5, <1>6

LEMMA LossesForgotten ==
    ASSUME NEW s, NEW why, lost' = lost \cup Losses(s, why)
    PROVE  Forgotten' = Forgotten \cup {e.id : e \in ToSet(s)}
<1>1. \A l : l \in Losses(s, why) <=> \E e \in ToSet(s) : l = Loss(e, why)
  BY DEF Losses
<1>2. \A e : Loss(e, why).id = e.id
  BY DEF Loss
<1>3. \A x : x \in {l.id : l \in Losses(s, why)} <=> x \in {e.id : e \in ToSet(s)}
  BY <1>1, <1>2
<1> QED BY <1>3 DEF Forgotten

\* A message that is sent joins the log, or its events are lost.
LEMMA SendPlaces ==
    ASSUME WatcherTypeOK, NEW m \in Message, Send(m)
    PROVE  \/ /\ Accepted' = Accepted \cup ToSet(m.events) /\ Forgotten' = Forgotten
           \/ /\ Accepted' = Accepted
              /\ Forgotten' = Forgotten \cup {e.id : e \in ToSet(m.events)}
<1>1. CASE listening
  <2>1. sent' = Append(sent, m) /\ lost' = lost /\ sent \in Seq(Message)
    BY <1>1 DEF Send, WatcherTypeOK
  <2>2. /\ DOMAIN sent' = DOMAIN sent \cup {Len(sent) + 1}
        /\ \A i \in DOMAIN sent : sent'[i] = sent[i]
        /\ sent'[Len(sent) + 1] = m
    BY <2>1
  <2> QED BY <2>1, <2>2 DEF Accepted, Forgotten
<1>2. CASE ~listening
  <2>1. sent' = sent /\ lost' = lost \cup Losses(m.events, "unheard")
    BY <1>2 DEF Send
  <2> QED BY <2>1, LossesForgotten DEF Accepted
<1> QED BY <1>1, <1>2

LEMMA SamePlaces ==
    ASSUME NumberedInv, OrderInv', UNCHANGED <<raw, pending, sent, reported, lost>>
    PROVE  NumberedInv' /\ Moves
BY DEF NumberedInv, Numbered, Moves, Noticed, Waiting, Accepted, Forgotten

\* A new item waits.
LEMMA NotifyMoves ==
    ASSUME NumberedInv, NEW w \in Watcher, NEW k \in Key \cup Noise \cup Fault, Notify(w, k)
    PROVE  NumberedInv' /\ Moves
<1> DEFINE item == [id |-> Len(reported) + 1, key |-> k, from |-> w]
<1>1. OrderInv' /\ WatcherTypeOK /\ WatcherTypeOK'
  BY NotifyOrder DEF NumberedInv, OrderInv
<1>2. /\ reported' = Append(reported, item) /\ raw' = [raw EXCEPT ![w] = Append(@, item)]
      /\ UNCHANGED <<pending, sent, lost>>
      /\ reported \in Seq(Item) /\ raw \in [Watcher -> Seq(Item)] /\ item \in Item
  <2>1. Len(reported) + 1 \in 1..MaxRaised
    BY <1>1, MaxRaisedAssumption DEF Notify, WatcherTypeOK
  <2> QED BY <1>1, <2>1 DEF Notify, WatcherTypeOK, Item
<1>3. Noticed' = Noticed \cup {item}
  BY <1>2, AppendedSet DEF Noticed
<1>4. Waiting' = Waiting \cup {item}
  <2>1. ToSet(raw'[w]) = ToSet(raw[w]) \cup {item}
    BY <1>2, AppendedSet
  <2>2. \A v \in Watcher \ {w} : raw'[v] = raw[v]
    BY <1>2
  <2> HIDE DEF item
  <2>3. \A v \in Watcher : /\ ToSet(raw[v]) \subseteq ToSet(raw'[v])
                            /\ ToSet(raw'[v]) \subseteq ToSet(raw[v]) \cup {item}
    BY <2>1, <2>2
  <2>4. Waiting \subseteq Waiting' /\ Waiting' \subseteq Waiting \cup {item}
    BY <1>2, <2>3 DEF Waiting
  <2>5. item \in Waiting'
    BY <2>1 DEF Waiting
  <2> QED BY <2>4, <2>5
<1>5. Accepted' = Accepted /\ Forgotten' = Forgotten
  BY <1>2 DEF Accepted, Forgotten
<1>6. DOMAIN reported' = DOMAIN reported \cup {item.id} /\ item.id \notin DOMAIN reported
      /\ reported'[item.id] = item /\ \A i \in DOMAIN reported : reported'[i] = reported[i]
  BY <1>2
<1>7. \A e \in Noticed : e.id \in DOMAIN reported
  BY DEF NumberedInv, Numbered, Noticed, ToSet
<1> HIDE DEF item
<1>8. Numbered'
  BY <1>3, <1>4, <1>5, <1>6 DEF NumberedInv, Numbered
<1>9. Moves
  BY <1>3, <1>4, <1>5, <1>6 DEF NumberedInv, Numbered, Moves
<1> QED BY <1>1, <1>8, <1>9 DEF NumberedInv

\* An item goes on to what is pending, or is no event.
LEMMA RecvMoves ==
    ASSUME NumberedInv, NEW w \in Watcher, DebounceRecv(w)
    PROVE  NumberedInv' /\ Moves
<1> DEFINE item == Head(raw[w])
<1>1. OrderInv' /\ WatcherTypeOK /\ WatcherTypeOK'
  BY RecvOrder DEF NumberedInv, OrderInv
<1>2. /\ raw[w] \in Seq(Item) /\ raw[w] # <<>> /\ raw'[w] = Tail(raw[w]) /\ reported' = reported
      /\ \A v \in Watcher \ {w} : raw'[v] = raw[v]
  BY <1>1 DEF DebounceRecv, WatcherTypeOK
<1>3. ToSet(raw[w]) = {item} \cup ToSet(raw'[w]) /\ item \in Item
  BY <1>2, HeadAndRestSet
<1>4. Noticed' = Noticed /\ DOMAIN reported' = DOMAIN reported
  BY <1>2 DEF Noticed
<1>5. CASE /\ item.key \in Key /\ pending' = [pending EXCEPT ![w] = Append(@, item)]
           /\ UNCHANGED <<sent, lost>>
  <2>1. item \in Event /\ pending \in [Watcher -> Seq(Event)]
    BY <1>1, <1>3, <1>5, ItemIsEvent DEF WatcherTypeOK
  <2>2. ToSet(pending'[w]) = ToSet(pending[w]) \cup {item}
        /\ \A v \in Watcher \ {w} : pending'[v] = pending[v]
    BY <1>5, <2>1, AppendedSet
  <2>3. Waiting' = Waiting
    BY <1>2, <1>3, <2>2 DEF Waiting
  <2>4. Accepted' = Accepted /\ Forgotten' = Forgotten
    BY <1>5 DEF Accepted, Forgotten
  <2> QED BY <1>1, <1>2, <1>4, <2>3, <2>4 DEF NumberedInv, Numbered, Moves
<1>6. CASE /\ item.key \notin Key /\ pending' = pending
           /\ Accepted' = Accepted /\ Forgotten' = Forgotten
  <2>1. Waiting = Waiting' \cup {item}
    BY <1>2, <1>3, <1>6 DEF Waiting
  <2> QED BY <1>1, <1>2, <1>4, <1>6, <2>1 DEF NumberedInv, Numbered, Moves
<1>7. CASE item.key \in Fault /\ Send(ErrorMessage) /\ UNCHANGED pending
  <2>1. ErrorMessage \in Message /\ ToSet(ErrorMessage.events) = {}
    BY DEF ErrorMessage, Message, ToSet
  <2>2. Accepted' = Accepted /\ Forgotten' = Forgotten
    BY <1>1, <1>7, <2>1, SendPlaces
  <2> QED BY <1>6, <1>7, <2>2, ItemAssumption
<1>8. CASE item.key \in Noise /\ UNCHANGED <<pending, sent, lost>>
  <2>1. Accepted' = Accepted /\ Forgotten' = Forgotten
    BY <1>8 DEF Accepted, Forgotten
  <2> QED BY <1>6, <1>8, <2>1, ItemAssumption
<1> QED BY <1>5, <1>7, <1>8 DEF DebounceRecv

\* What is pending is sent or lost, all of it, and nothing else.
LEMMA PendingLeaves ==
    ASSUME NumberedInv, OrderInv', NEW w \in Watcher, raw[w] = <<>>,
           pending' = [pending EXCEPT ![w] = <<>>], UNCHANGED <<raw, reported>>,
           \/ Accepted' = Accepted \cup ToSet(pending[w]) /\ Forgotten' = Forgotten
           \/ /\ Accepted' = Accepted
              /\ Forgotten' = Forgotten \cup {e.id : e \in ToSet(pending[w])}
    PROVE  NumberedInv' /\ Moves
<1> DEFINE P == ToSet(pending[w])
<1>1. Noticed' = Noticed /\ DOMAIN reported' = DOMAIN reported
  BY DEF Noticed
<1>2. /\ pending'[w] = <<>> /\ \A v \in Watcher \ {w} : pending'[v] = pending[v]
      /\ ToSet(<<>>) = {}
  BY DEF NumberedInv, OrderInv, WatcherTypeOK, ToSet
<1>3. Waiting' = Waiting \ P
  <2>1. \A v \in Watcher : \A e \in ToSet(raw[v]) \cup ToSet(pending[v]) : e.from = v
    BY WaitsAtItsOwn DEF NumberedInv, OrderInv
  <2>2. \A v \in Watcher \ {w} : (ToSet(raw[v]) \cup ToSet(pending[v])) \cap P = {}
    BY <2>1
  <2> QED BY <1>2, <2>2 DEF Waiting
<1>4. P \subseteq Waiting /\ Waiting \subseteq Noticed /\ P \subseteq Noticed
  BY DEF Waiting, NumberedInv, Numbered
<1>5. \A e \in P : e.id \in DOMAIN reported
  BY <1>4 DEF NumberedInv, Numbered, Noticed, ToSet
<1> HIDE DEF P
<1>6. Numbered'
  BY <1>1, <1>3, <1>4, <1>5 DEF NumberedInv, Numbered, P
<1>7. Moves
  BY <1>1, <1>3, <1>4 DEF Moves, P
<1> QED BY <1>6, <1>7 DEF NumberedInv

LEMMA NextMoves == NumberedInv /\ [WatcherNext]_watcherVars => NumberedInv' /\ Moves
<1> SUFFICES ASSUME NumberedInv, [WatcherNext]_watcherVars PROVE NumberedInv' /\ Moves
  OBVIOUS
<1>1. OrderInv' /\ WatcherTypeOK
  BY NextOrder DEF NumberedInv, OrderInv
<1>2. CASE Subscribe \/ UNCHANGED watcherVars
  BY <1>1, <1>2, SamePlaces DEF Subscribe, watcherVars
<1>3. ASSUME NEW w \in Watcher, StartWatcher(w) \/ DropWatcher(w) PROVE NumberedInv' /\ Moves
  BY <1>1, <1>3, SamePlaces DEF StartWatcher, DropWatcher
<1>4. ASSUME NEW w \in Watcher, DebounceFlush(w) PROVE NumberedInv' /\ Moves
  <2> DEFINE m == Batch(pending[w])
  <2>1. m \in Message /\ m.events = pending[w] /\ Send(m)
    BY <1>1, <1>4 DEF DebounceFlush, Batch, Message, WatcherTypeOK
  <2> HIDE DEF m
  <2>2. \/ Accepted' = Accepted \cup ToSet(pending[w]) /\ Forgotten' = Forgotten
        \/ /\ Accepted' = Accepted
           /\ Forgotten' = Forgotten \cup {e.id : e \in ToSet(pending[w])}
    BY <1>1, <2>1, SendPlaces
  <2>3. raw[w] = <<>> /\ pending' = [pending EXCEPT ![w] = <<>>] /\ UNCHANGED <<raw, reported>>
    BY <1>4 DEF DebounceFlush
  <2> QED BY <1>1, <2>2, <2>3, PendingLeaves
<1>5. ASSUME NEW w \in Watcher, DebounceEnd(w) PROVE NumberedInv' /\ Moves
  <2>1. /\ raw[w] = <<>> /\ pending' = [pending EXCEPT ![w] = <<>>]
        /\ UNCHANGED <<raw, sent, reported>> /\ lost' = lost \cup Losses(pending[w], "closed")
    BY <1>5 DEF DebounceEnd
  <2>2. Accepted' = Accepted /\ Forgotten' = Forgotten \cup {e.id : e \in ToSet(pending[w])}
    BY <2>1, LossesForgotten DEF Accepted
  <2> QED BY <1>1, <2>1, <2>2, PendingLeaves
<1> QED BY <1>2, <1>3, <1>4, <1>5, NotifyMoves, RecvMoves DEF WatcherNext, DebounceStep

LEMMA NextPlaces == ConservedInv /\ [WatcherNext]_watcherVars => ConservedInv'
<1> SUFFICES ASSUME ConservedInv, [WatcherNext]_watcherVars PROVE ConservedInv'
  OBVIOUS
<1>1. NumberedInv /\ NumberedInv' /\ Moves
  BY NextMoves DEF ConservedInv
<1>2. /\ \A e, f \in Noticed' : e.id = f.id => e = f
      /\ Waiting' \subseteq Noticed' /\ Accepted' \subseteq Noticed'
  BY <1>1 DEF NumberedInv, Numbered, Noticed, ToSet
<1>3. /\ \A e, f \in Noticed : e.id = f.id => e = f
      /\ Waiting \subseteq Noticed /\ Accepted \subseteq Noticed
      /\ Forgotten \subseteq DOMAIN reported
      /\ \A e \in Noticed : e.id \in DOMAIN reported
  BY <1>1, KnownById DEF NumberedInv, Numbered, Noticed, ToSet
<1>4. OnePlace'
  <2> SUFFICES ASSUME NEW e \in Noticed', e.key \in Key
               PROVE  \/ e \in Waiting' /\ e \notin Accepted' /\ e.id \notin Forgotten'
                      \/ e \in Accepted' /\ e \notin Waiting' /\ e.id \notin Forgotten'
                      \/ e.id \in Forgotten' /\ e \notin Waiting' /\ e \notin Accepted'
    BY DEF OnePlace
  <2>1. CASE e \notin Noticed
    BY <1>1, <1>3, <2>1 DEF Moves
  <2>2. CASE e \in Noticed
    <3>1. \/ e \in Waiting /\ e \notin Accepted /\ e.id \notin Forgotten
          \/ e \in Accepted /\ e \notin Waiting /\ e.id \notin Forgotten
          \/ e.id \in Forgotten /\ e \notin Waiting /\ e \notin Accepted
      BY <2>2 DEF ConservedInv, OnePlace
    <3>2. e.id \in Forgotten' \ Forgotten =>
            e \in Waiting /\ e \notin Waiting' /\ Accepted' = Accepted
      BY <1>1, <1>3, <2>2 DEF Moves
    <3>3. /\ e \in Waiting' => e \in Waiting
          /\ e \in Accepted' /\ e \notin Accepted => e \in Waiting /\ e \notin Waiting'
          /\ e \in Accepted => e \in Accepted'
          /\ e.id \in Forgotten => e.id \in Forgotten'
          /\ e \in Waiting /\ e \notin Waiting' => e \in Accepted' \/ e.id \in Forgotten'
      BY <1>1, <1>3, <2>2 DEF Moves
    <3> QED BY <3>1, <3>2, <3>3
  <2> QED BY <2>1, <2>2
<1> QED BY <1>1, <1>4 DEF ConservedInv

LEMMA InitPlaces == WatcherInit => ConservedInv
<1> SUFFICES ASSUME WatcherInit PROVE ConservedInv
  OBVIOUS
<1>1. OrderInv
  BY InitOrder
<1>2. Noticed = {} /\ Waiting = {} /\ Accepted = {} /\ Forgotten = {} /\ DOMAIN reported = {}
  BY DEF WatcherInit, Noticed, Waiting, Accepted, Forgotten, ToSet
<1> QED BY <1>1, <1>2 DEF ConservedInv, NumberedInv, Numbered, OnePlace

\* No event vanishes on its way and none is in two places: it waits, was sent, or
\* was lost to a channel without a receiver or to a thread that ended with events
\* pending (debounce_loop), for any number of watchers and events.
THEOREM WatchersConserve == WatcherSpec => []Conserved
<1>1. ConservedInv => Conserved
  <2> SUFFICES ASSUME ConservedInv, NEW i \in DOMAIN reported, reported[i].key \in Key
               PROVE  LET e == reported[i] IN
                      \/ IsWaiting(e) /\ ~IsSent(e) /\ ~IsLost(e)
                      \/ IsSent(e) /\ ~IsWaiting(e) /\ ~IsLost(e)
                      \/ IsLost(e) /\ ~IsWaiting(e) /\ ~IsSent(e)
    BY DEF Conserved
  <2> DEFINE e == reported[i]
  <2>1. e \in Noticed /\ e.from \in Watcher
    <3>1. reported \in Seq(Item)
      BY DEF ConservedInv, NumberedInv, OrderInv, WatcherTypeOK
    <3>2. e \in Item
      BY <3>1
    <3> QED BY <3>2 DEF Noticed, ToSet, Item
  <2> HIDE DEF e
  <2>2. IsWaiting(e) <=> e \in Waiting
    BY <2>1, WaitingFact, WaitsAtItsOwn DEF IsWaiting, ConservedInv, NumberedInv, OrderInv
  <2>3. IsSent(e) <=> e \in Accepted
    BY DEF IsSent, Accepted
  <2>4. IsLost(e) <=> e.id \in Forgotten
    BY DEF IsLost, Forgotten
  <2>5. e.key \in Key
    BY DEF e
  <2>6. \/ IsWaiting(e) /\ ~IsSent(e) /\ ~IsLost(e)
        \/ IsSent(e) /\ ~IsWaiting(e) /\ ~IsLost(e)
        \/ IsLost(e) /\ ~IsWaiting(e) /\ ~IsSent(e)
    BY <2>1, <2>2, <2>3, <2>4, <2>5 DEF ConservedInv, OnePlace
  <2> QED BY <2>6 DEF e
<1> QED BY <1>1, InitPlaces, NextPlaces, PTL DEF WatcherSpec
=============================================================================
