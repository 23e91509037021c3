------------------------ MODULE EmailNotifierProofs -------------------------
(***************************************************************************)
(* The email notifier for any number of events, whatever their recipients: *)
(* types, no event dropped or taken twice, no empty email, full batches    *)
(* leave, and the limit that holds for tasks that do not overlap.          *)
(***************************************************************************)
EXTENDS EmailNotifier, FiniteSetTheorems, TLAPS

Waiting == {"new", "flushing", "queued", "nothing"}

\* A task has events in hand exactly from its drain on.
HandFilled == \A e \in Event : hand[e] = <<>> <=> task[e] \in Waiting

Holders(e) == {t \in Event : e \in ToSet(hand[t])}

\* HeldOnce without counting.
HeldByOne ==
    /\ IsInjective(pending)
    /\ \A e \in Event :
         /\ task[e] = "new" => Holders(e) = {} /\ e \notin ToSet(pending)
         /\ e \in ToSet(pending) => Holders(e) = {}
         /\ task[e] # "new" /\ e \notin ToSet(pending) => \E t \in Event : Holders(e) = {t}

EmailInv == TypeOK /\ HandFilled /\ HeldByOne /\ NoEmptyMail /\ FullBatchesLeave

-----------------------------------------------------------------------------
LEMMA AppendedSet ==
    ASSUME NEW s \in Seq(Event), NEW e \in Event
    PROVE  ToSet(Append(s, e)) = ToSet(s) \cup {e}
<1>1. DOMAIN Append(s, e) = DOMAIN s \cup {Len(s) + 1}
  OBVIOUS
<1>2. \A i \in DOMAIN s : Append(s, e)[i] = s[i]
  OBVIOUS
<1>3. Append(s, e)[Len(s) + 1] = e
  OBVIOUS
<1> QED BY <1>1, <1>2, <1>3 DEF ToSet

LEMMA AppendedInjective ==
    ASSUME NEW s \in Seq(Event), NEW e \in Event, IsInjective(s), e \notin ToSet(s)
    PROVE  IsInjective(Append(s, e))
<1>1. DOMAIN Append(s, e) = DOMAIN s \cup {Len(s) + 1}
  OBVIOUS
<1>2. \A i \in DOMAIN s : Append(s, e)[i] = s[i] /\ s[i] # e
  BY DEF ToSet
<1>3. Append(s, e)[Len(s) + 1] = e
  OBVIOUS
<1> QED BY <1>1, <1>2, <1>3 DEF IsInjective

LEMMA EmptySet == ToSet(<<>>) = {} /\ IsInjective(<<>>)
BY DEF ToSet, IsInjective

LEMMA FilledSet ==
    ASSUME NEW s \in Seq(Event), s # <<>>
    PROVE  ToSet(s) # {}
<1>1. 1 \in DOMAIN s
  OBVIOUS
<1> QED BY <1>1 DEF ToSet

\* An email is recorded with the times of its sending.
LEMMA MailTimes ==
    ASSUME TypeOK
    PROVE  /\ \A i \in DOMAIN mails : mails[i] \in MailRecord
           /\ \A i \in DOMAIN mails : mails[i].window \in Int /\ mails[i].at \in Int
           /\ now \in Int /\ lastSend \in Int /\ 0 <= lastSend /\ lastSend <= now
<1>1. \A i \in DOMAIN mails : mails[i] \in MailRecord
  BY DEF TypeOK
<1>2. \A m \in MailRecord : m.window \in Int /\ m.at \in Int
  BY DEF MailRecord
<1> QED BY <1>1, <1>2, EmailAssumption DEF TypeOK

LEMMA EmailInitInv == Init => EmailInv
<1> SUFFICES ASSUME Init PROVE EmailInv
  OBVIOUS
<1> USE DEF Init
<1>1. TypeOK
  <2>1. 0 \in 0..MaxTime /\ 0 \in 0..0
    BY EmailAssumption
  <2>2. mails \in Seq(MailRecord) /\ mails = <<>>
    OBVIOUS
  <2>3. hand \in [Event -> Seq(Event)] /\ pending \in Seq(Event)
    OBVIOUS
  <2>4. \A i \in DOMAIN mails : FALSE
    BY <2>2
  <2>5. task \in [Event -> TaskState] /\ next \in [Event -> Nat \ {0}]
    BY DEF TaskState
  <2> QED BY <2>1, <2>2, <2>3, <2>4, <2>5 DEF TypeOK
<1>2. HandFilled
  BY DEF HandFilled, Waiting
<1>3. HeldByOne
  BY EmptySet DEF HeldByOne, Holders
<1>4. NoEmptyMail /\ FullBatchesLeave
  BY DEF NoEmptyMail, FullBatchesLeave
<1> QED BY <1>1, <1>2, <1>3, <1>4 DEF EmailInv

-----------------------------------------------------------------------------
(* One lemma per action. *)

LEMMA NotifySingleInv ==
    ASSUME EmailInv, NEW e \in Event, NotifySingle(e)
    PROVE  EmailInv'
<1> USE DEF EmailInv
<1>1. /\ task[e] = "new" /\ task' = [task EXCEPT ![e] = "checking"]
      /\ hand' = [hand EXCEPT ![e] = <<e>>]
      /\ UNCHANGED <<batchSize, next, pending, limiter, now, mails, overlapped>>
  BY DEF NotifySingle
<1>2. TypeOK'
  BY <1>1 DEF TypeOK, TaskState, limiter
<1>3. HandFilled'
  BY <1>1 DEF HandFilled, Waiting, TypeOK
<1>4. HeldByOne'
  <2>1. ToSet(<<e>>) = {e}
    BY DEF ToSet
  <2>2. hand[e] = <<>>
    BY <1>1 DEF HandFilled, Waiting
  <2>3. \A d \in Event : Holders(d)' = IF d = e THEN {e} ELSE Holders(d)
    <3>1. Holders(e) = {}
      BY <1>1 DEF HeldByOne
    <3>2. \A t \in Event : ToSet(hand'[t]) = IF t = e THEN {e} ELSE ToSet(hand[t])
      BY <1>1, <2>1 DEF TypeOK
    <3> QED BY <2>2, <3>1, <3>2, EmptySet DEF Holders
  <2>4. e \notin ToSet(pending)
    BY <1>1 DEF HeldByOne
  <2> QED BY <1>1, <2>3, <2>4 DEF HeldByOne, TypeOK
<1>5. NoEmptyMail'
  BY <1>1 DEF NoEmptyMail
<1>6. FullBatchesLeave'
  BY <1>1 DEF FullBatchesLeave, TypeOK
<1> QED BY <1>2, <1>3, <1>4, <1>5, <1>6

LEMMA NotifyBatchInv ==
    ASSUME EmailInv, NEW e \in Event, NotifyBatch(e)
    PROVE  EmailInv'
<1> USE DEF EmailInv
<1>1. /\ task[e] = "new" /\ batchSize > 0
      /\ pending' = Append(pending, e)
      /\ task' = [task EXCEPT ![e] = IF Len(pending') >= batchSize THEN "flushing" ELSE "queued"]
      /\ UNCHANGED <<batchSize, hand, next, limiter, now, mails, overlapped>>
  BY DEF NotifyBatch
<1>2. TypeOK'
  BY <1>1 DEF TypeOK, TaskState, limiter
<1>3. HandFilled'
  BY <1>1 DEF HandFilled, Waiting, TypeOK
<1>4. HeldByOne'
  <2>1. Holders(e) = {} /\ e \notin ToSet(pending)
    BY <1>1 DEF HeldByOne
  <2>2. ToSet(pending') = ToSet(pending) \cup {e} /\ IsInjective(pending')
    BY <1>1, <2>1, AppendedSet, AppendedInjective DEF TypeOK, HeldByOne
  <2>3. \A d \in Event : Holders(d)' = Holders(d)
    BY <1>1 DEF Holders
  <2>4. task'[e] # "new" /\ \A d \in Event \ {e} : task'[d] = task[d]
    BY <1>1 DEF TypeOK
  <2> QED BY <2>1, <2>2, <2>3, <2>4 DEF HeldByOne
<1>5. NoEmptyMail'
  BY <1>1 DEF NoEmptyMail
<1>6. FullBatchesLeave'
  <2>1. CASE Len(pending') >= batchSize
    BY <1>1, <2>1 DEF FullBatchesLeave, TypeOK
  <2>2. CASE ~(Len(pending') >= batchSize)
    <3>1. Len(pending') \in Nat /\ batchSize \in Nat
      BY <1>1, EmailAssumption DEF TypeOK
    <3> QED BY <1>1, <2>2, <3>1 DEF FullBatchesLeave
  <2> QED BY <2>1, <2>2
<1> QED BY <1>2, <1>3, <1>4, <1>5, <1>6

LEMMA FlushInv ==
    ASSUME EmailInv, NEW e \in Event, Flush(e)
    PROVE  EmailInv'
<1> USE DEF EmailInv
<1>1. /\ task[e] = "flushing" /\ pending' = <<>>
      /\ hand' = [hand EXCEPT ![e] = pending]
      /\ task' = [task EXCEPT ![e] = IF pending = <<>> THEN "nothing" ELSE "checking"]
      /\ UNCHANGED <<batchSize, next, limiter, now, mails, overlapped>>
  BY DEF Flush
<1>2. TypeOK'
  BY <1>1 DEF TypeOK, TaskState, limiter
<1>3. HandFilled'
  BY <1>1 DEF HandFilled, Waiting, TypeOK
<1>4. HeldByOne'
  <2>1. hand[e] = <<>>
    BY <1>1 DEF HandFilled, Waiting
  <2>2. \A t \in Event : ToSet(hand'[t]) = IF t = e THEN ToSet(pending) ELSE ToSet(hand[t])
    BY <1>1 DEF TypeOK
  <2>3. \A d \in Event : Holders(d)' = IF d \in ToSet(pending) THEN {e} ELSE Holders(d)
    <3>1. \A d \in Event : d \in ToSet(pending) => Holders(d) = {}
      BY DEF HeldByOne
    <3> QED BY <2>1, <2>2, <3>1, EmptySet DEF Holders
  <2>4. \A d \in Event : task'[d] = "new" <=> task[d] = "new"
    BY <1>1 DEF TypeOK
  <2> QED BY <1>1, <2>3, <2>4, EmptySet DEF HeldByOne
<1>5. NoEmptyMail'
  BY <1>1 DEF NoEmptyMail
<1>6. FullBatchesLeave'
  BY <1>1 DEF FullBatchesLeave
<1> QED BY <1>2, <1>3, <1>4, <1>5, <1>6

\* What the steps after the drain have in common.
LEMMA HeldStays ==
    ASSUME EmailInv, NEW e \in Event, NEW st \in TaskState \ Waiting,
           task[e] \in {"checking", "sending"},
           task' = task \/ task' = [task EXCEPT ![e] = st],
           UNCHANGED <<batchSize, hand, pending>>
    PROVE  (HandFilled /\ HeldByOne /\ FullBatchesLeave)'
<1> USE DEF EmailInv
<1>1. \A d \in Event : /\ task'[d] \in Waiting <=> task[d] \in Waiting
                       /\ task'[d] = "new" <=> task[d] = "new"
                       /\ task'[d] = "flushing" <=> task[d] = "flushing"
  BY DEF Waiting, TypeOK
<1>2. HandFilled'
  BY <1>1 DEF HandFilled
<1>3. \A d \in Event : Holders(d)' = Holders(d)
  BY DEF Holders
<1>4. HeldByOne'
  BY <1>1, <1>3 DEF HeldByOne
<1>5. FullBatchesLeave'
  BY <1>1 DEF FullBatchesLeave
<1> QED BY <1>2, <1>4, <1>5

LEMMA CheckRateLimitInv ==
    ASSUME EmailInv, NEW e \in Event, CheckRateLimit(e)
    PROVE  EmailInv'
<1> USE DEF EmailInv
<1>1. /\ task[e] = "checking"
      /\ \/ lastSend' = lastSend /\ sentThisMinute' = sentThisMinute
         \/ lastSend' = now /\ sentThisMinute' = 0
      /\ \/ task' = [task EXCEPT ![e] = "limited"]
         \/ task' = [task EXCEPT ![e] = "sending"]
      /\ overlapped' = (overlapped \/ (task'[e] = "sending" /\ Sending # {}))
      /\ UNCHANGED <<batchSize, hand, next, pending, now, mails>>
  BY DEF CheckRateLimit
<1>2. TypeOK'
  <2>1. lastSend' \in 0..now /\ lastSend <= lastSend' /\ sentThisMinute' \in Nat
    BY <1>1, EmailAssumption DEF TypeOK
  <2>2. task' \in [Event -> TaskState] /\ overlapped' \in BOOLEAN
    BY <1>1 DEF TypeOK, TaskState
  <2>3. \A i \in DOMAIN mails : mails[i].window \in Int /\ mails[i].window <= lastSend
    BY MailTimes DEF TypeOK
  <2>4. lastSend' \in Int /\ lastSend \in Int
    BY <1>1, MailTimes
  <2>5. \A i \in DOMAIN mails : mails[i].window <= lastSend'
    BY <2>1, <2>3, <2>4
  <2> QED BY <1>1, <2>1, <2>2, <2>5 DEF TypeOK
<1>3. (HandFilled /\ HeldByOne /\ FullBatchesLeave)'
  BY <1>1, HeldStays DEF TaskState, Waiting
<1>4. NoEmptyMail'
  BY <1>1 DEF NoEmptyMail
<1> QED BY <1>2, <1>3, <1>4

LEMMA SendToInv ==
    ASSUME EmailInv, NEW e \in Event, SendTo(e)
    PROVE  EmailInv'
<1> USE DEF EmailInv
<1>1. /\ task[e] = "sending"
      /\ next' = [next EXCEPT ![e] = @ + 1]
      /\ \/ mails' = Append(mails, Mail(e))
         \/ UNCHANGED mails
      /\ UNCHANGED <<batchSize, task, hand, pending, limiter, now, overlapped>>
  BY DEF SendTo, ToSend
<1>2. /\ Mail(e).events = hand[e] /\ Mail(e).at = now /\ Mail(e).window = lastSend
      /\ hand[e] # <<>>
  BY <1>1 DEF Mail, HandFilled, Waiting
<1>3. \A i \in DOMAIN mails' : mails'[i] = Mail(e) \/ (i \in DOMAIN mails /\ mails'[i] = mails[i])
  <2>1. mails \in Seq(MailRecord)
    BY DEF TypeOK
  <2> QED BY <1>1, <2>1
<1>4. TypeOK'
  <2>1. Recipients[e][next[e]] \in Address
    BY DEF SendTo, ToSend, Address, ToSet
  <2>2. Mail(e) \in MailRecord
    <3>1. now \in 0..MaxTime /\ lastSend \in 0..MaxTime /\ hand[e] \in Seq(Event)
      BY MailTimes, EmailAssumption DEF TypeOK
    <3> QED BY <2>1, <3>1 DEF Mail, MailRecord
  <2>3. mails' \in Seq(MailRecord)
    <3>1. mails \in Seq(MailRecord)
      BY DEF TypeOK
    <3> QED BY <1>1, <2>2, <3>1
  <2>4. \A i \in DOMAIN mails' : /\ mails'[i].window <= mails'[i].at /\ mails'[i].at <= now
                                 /\ mails'[i].window <= lastSend
    <3>1. lastSend <= now /\ now <= now /\ lastSend <= lastSend
      BY MailTimes
    <3> QED BY <1>2, <1>3, <3>1 DEF TypeOK
  <2>5. next' \in [Event -> Nat \ {0}]
    BY <1>1 DEF TypeOK
  <2> QED BY <1>1, <2>3, <2>4, <2>5 DEF TypeOK, limiter
<1>5. NoEmptyMail'
  BY <1>2, <1>3 DEF NoEmptyMail
<1>6. (HandFilled /\ HeldByOne /\ FullBatchesLeave)'
  BY <1>1, HeldStays DEF TaskState, Waiting
<1> QED BY <1>4, <1>5, <1>6

\* A task that only ends.
LEMMA EndsInv ==
    ASSUME EmailInv, NEW e \in Event, NEW st \in {"failed", "sent"},
           task[e] = "sending", task' = [task EXCEPT ![e] = st],
           sentThisMinute' \in Nat,
           UNCHANGED <<batchSize, hand, next, pending, lastSend, now, mails, overlapped>>
    PROVE  EmailInv'
<1> USE DEF EmailInv
<1>1. TypeOK'
  <2>1. task' \in [Event -> TaskState]
    BY DEF TypeOK, TaskState
  <2> QED BY <2>1 DEF TypeOK
<1>2. (HandFilled /\ HeldByOne /\ FullBatchesLeave)'
  <2>1. st \in TaskState \ Waiting
    BY DEF TaskState, Waiting
  <2> QED BY <2>1, HeldStays
<1>3. NoEmptyMail'
  BY DEF NoEmptyMail
<1> QED BY <1>1, <1>2, <1>3

LEMMA TickInv ==
    ASSUME EmailInv, Tick
    PROVE  EmailInv'
<1> USE DEF EmailInv
<1>1. /\ now < MaxTime /\ now' = now + 1
      /\ UNCHANGED <<batchSize, task, hand, next, pending, limiter, mails, overlapped>>
  BY DEF Tick
<1>2. TypeOK'
  <2>1. now' \in 0..MaxTime /\ lastSend' \in 0..now'
    BY <1>1, MailTimes, EmailAssumption DEF TypeOK, limiter
  <2>2. \A i \in DOMAIN mails : mails[i].at <= now'
    BY <1>1, MailTimes DEF TypeOK
  <2> QED BY <1>1, <2>1, <2>2 DEF TypeOK, limiter
<1>3. HandFilled' /\ HeldByOne' /\ NoEmptyMail' /\ FullBatchesLeave'
  BY <1>1 DEF HandFilled, HeldByOne, Holders, NoEmptyMail, FullBatchesLeave
<1> QED BY <1>2, <1>3

LEMMA EmailNextInv == EmailInv /\ [Next]_vars => EmailInv'
<1> SUFFICES ASSUME EmailInv, [Next]_vars PROVE EmailInv'
  OBVIOUS
<1>1. ASSUME NEW e \in Event, TaskStep(e) PROVE EmailInv'
  <2>1. CASE NotifySingle(e)
    BY <2>1, NotifySingleInv
  <2>2. CASE NotifyBatch(e)
    BY <2>2, NotifyBatchInv
  <2>3. CASE Flush(e)
    BY <2>3, FlushInv
  <2>4. CASE CheckRateLimit(e)
    BY <2>4, CheckRateLimitInv
  <2>5. CASE SendTo(e)
    BY <2>5, SendToInv
  <2>6. CASE SendFails(e)
    <3>1. sentThisMinute' \in Nat
      BY <2>6 DEF SendFails, limiter, EmailInv, TypeOK
    <3> QED BY <2>6, <3>1, EndsInv DEF SendFails, ToSend, limiter
  <2>7. CASE CountSent(e)
    <3>1. sentThisMinute' \in Nat
      BY <2>7 DEF CountSent, EmailInv, TypeOK
    <3> QED BY <2>7, <3>1, EndsInv DEF CountSent
  <2> QED BY <1>1, <2>1, <2>2, <2>3, <2>4, <2>5, <2>6, <2>7 DEF TaskStep
<1>2. CASE Tick
  BY <1>2, TickInv
<1>3. CASE UNCHANGED vars
  BY <1>3 DEF vars, limiter, EmailInv, TypeOK, HandFilled, HeldByOne, Holders,
              NoEmptyMail, FullBatchesLeave
<1> QED BY <1>1, <1>2, <1>3 DEF Next

LEMMA EmailInvariant == Spec => []EmailInv
BY EmailInitInv, EmailNextInv, PTL DEF Spec

-----------------------------------------------------------------------------
\* The variables of the notifier keep their types, and the windows of the
\* limiter lie before the emails sent in them (email.rs:163-178).
THEOREM EmailTypeOK == Spec => []TypeOK
<1>1. EmailInv => TypeOK
  BY DEF EmailInv
<1> QED BY <1>1, EmailInvariant, PTL

LEMMA HeldByOneCounts == HeldByOne => HeldOnce
<1> SUFFICES ASSUME HeldByOne PROVE HeldOnce
  OBVIOUS
<1>1. ASSUME NEW e \in Event
      PROVE  IF task[e] = "new" THEN Holders(e) = {} /\ e \notin ToSet(pending)
             ELSE IF e \in ToSet(pending) THEN Holders(e) = {}
             ELSE Cardinality(Holders(e)) = 1
  <2>1. task[e] # "new" /\ e \notin ToSet(pending) => Cardinality(Holders(e)) = 1
    BY FS_Singleton DEF HeldByOne
  <2> QED BY <2>1 DEF HeldByOne
<1> QED BY <1>1 DEF HeldOnce, HeldByOne, Holders

\* However the tasks interleave between push and drain, no event is dropped and
\* none is taken by two of them (email.rs:49-66).
THEOREM EmailHeldOnce == Spec => []HeldOnce
<1>1. EmailInv => HeldOnce
  BY HeldByOneCounts DEF EmailInv
<1> QED BY <1>1, EmailInvariant, PTL

\* A task whose batch another one drained sends nothing (email.rs:67).
THEOREM EmailNoEmptyMail == Spec => []NoEmptyMail
<1>1. EmailInv => NoEmptyMail
  BY DEF EmailInv
<1> QED BY <1>1, EmailInvariant, PTL

\* A full batch has a task on its way to drain it (email.rs:53-56).
THEOREM EmailFullBatchesLeave == Spec => []FullBatchesLeave
<1>1. EmailInv => FullBatchesLeave
  BY DEF EmailInv
<1> QED BY <1>1, EmailInvariant, PTL

-----------------------------------------------------------------------------
(* The limit, for senders that do not overlap. *)

Quiet == ~overlapped /\ \A e \in Event : task[e] # "failed"

\* r has had its turn in the loop of a task that has not counted yet
HadTurn(r) == \E e \in Sending : \E j \in DOMAIN Recipients[e] :
                j < next[e] /\ Recipients[e][j] = r

Uncounted(r) == IF HadTurn(r) THEN 1 ELSE 0

\* A lone sender passed the limit, and what it sends is one more at most than
\* what has been counted.
Throttled ==
    Quiet =>
      /\ \A t, u \in Sending : t = u
      /\ Sending # {} => sentThisMinute < MaxPerMinute
      /\ sentThisMinute <= MaxPerMinute
      /\ \A r \in Address :
           Once(r) => Cardinality(MailsTo(r)) <= sentThisMinute + Uncounted(r)

LEMMA MailsToFinite ==
    ASSUME TypeOK, NEW r
    PROVE  IsFiniteSet(MailsTo(r)) /\ Cardinality(MailsTo(r)) \in Nat
<1>1. DOMAIN mails = 1..Len(mails) /\ Len(mails) \in Nat
  BY DEF TypeOK
<1>2. MailsTo(r) \subseteq 1..Len(mails)
  BY <1>1 DEF MailsTo, InWindow
<1>3. IsFiniteSet(1..Len(mails))
  BY <1>1, FS_Interval
<1>4. IsFiniteSet(MailsTo(r))
  BY <1>2, <1>3, FS_Subset
<1> QED BY <1>4, FS_CardinalityType

\* Steps of other tasks, which touch neither the limiter nor the emails.
LEMMA SendersStay ==
    ASSUME Throttled, Quiet' => Quiet, Sending' = Sending,
           UNCHANGED <<limiter, mails>>, \A e \in Sending : next'[e] = next[e]
    PROVE  Throttled'
<1>1. \A r : Uncounted(r)' = Uncounted(r)
  BY DEF Uncounted, HadTurn
<1>2. \A r : MailsTo(r)' = MailsTo(r)
  BY DEF MailsTo, InWindow, limiter
<1> QED BY <1>1, <1>2 DEF Throttled, limiter

LEMMA CheckThrottled ==
    ASSUME TypeOK, Throttled, NEW e \in Event, CheckRateLimit(e)
    PROVE  Throttled'
<1> SUFFICES ASSUME Quiet'
             PROVE  /\ \A t, u \in Sending' : t = u
                    /\ Sending' # {} => sentThisMinute' < MaxPerMinute
                    /\ sentThisMinute' <= MaxPerMinute
                    /\ \A r \in Address : Once(r) =>
                         Cardinality(MailsTo(r)') <= sentThisMinute' + Uncounted(r)'
  BY DEF Throttled
<1>1. /\ task[e] = "checking"
      /\ task' = [task EXCEPT ![e] = IF sentThisMinute' >= MaxPerMinute THEN "limited" ELSE "sending"]
      /\ overlapped' = (overlapped \/ (task'[e] = "sending" /\ Sending # {}))
      /\ UNCHANGED <<next, now, mails>>
  BY DEF CheckRateLimit
<1>2. \/ lastSend' = lastSend /\ sentThisMinute' = sentThisMinute
      \/ lastSend' = now /\ sentThisMinute' = 0 /\ now - lastSend >= Minute
  BY DEF CheckRateLimit
<1>3. sentThisMinute \in Nat /\ sentThisMinute' \in Nat /\ MaxPerMinute \in Nat
  BY <1>2, EmailAssumption DEF TypeOK
<1>4. Quiet
  BY <1>1 DEF Quiet, TypeOK
<1>5. Sending' = IF task'[e] = "sending" THEN Sending \cup {e} ELSE Sending
  BY <1>1 DEF Sending, TypeOK
<1>6. task'[e] = "sending" => Sending = {} /\ sentThisMinute' < MaxPerMinute
  <2>1. task'[e] = "sending" => Sending = {}
    BY <1>1, Zenon DEF Quiet
  <2>2. task'[e] = "sending" => sentThisMinute' < MaxPerMinute
    BY <1>1, <1>3 DEF TypeOK
  <2> QED BY <2>1, <2>2
<1>7. task'[e] # "sending" => sentThisMinute' >= MaxPerMinute
  BY <1>1 DEF TypeOK
<1>8. Sending # {} => lastSend' = lastSend /\ sentThisMinute' = sentThisMinute
  BY <1>2, <1>3, <1>4, <1>6, <1>7 DEF Throttled
<1>9. ASSUME NEW r \in Address, Once(r)
      PROVE  Cardinality(MailsTo(r)') <= sentThisMinute' + Uncounted(r)'
  <2>1. Uncounted(r)' \in {0, 1} /\ Uncounted(r) \in {0, 1}
    BY DEF Uncounted
  <2>2. CASE lastSend' = lastSend /\ sentThisMinute' = sentThisMinute
    <3>1. MailsTo(r)' = MailsTo(r)
      BY <1>1, <2>2 DEF MailsTo, InWindow
    <3>2. HadTurn(r) => HadTurn(r)'
      BY <1>1, <1>5 DEF HadTurn
    <3>3. Uncounted(r) <= Uncounted(r)'
      BY <3>2 DEF Uncounted
    <3>4. Cardinality(MailsTo(r)) <= sentThisMinute + Uncounted(r)
      BY <1>4, <1>9 DEF Throttled
    <3> QED BY <1>3, <2>1, <2>2, <3>1, <3>3, <3>4, MailsToFinite
  <2>3. CASE lastSend' = now /\ sentThisMinute' = 0 /\ now - lastSend >= Minute
    <3>1. \A i \in DOMAIN mails : mails[i].window < now
      BY <2>3, MailTimes, EmailAssumption DEF TypeOK
    <3>2. MailsTo(r)' = {}
      BY <1>1, <2>3, <3>1, MailTimes DEF MailsTo, InWindow
    <3> QED BY <2>1, <2>3, <3>2, FS_EmptySet
  <2> QED BY <1>2, <2>2, <2>3
<1>10. \A t, u \in Sending' : t = u
  BY <1>4, <1>5, <1>6 DEF Throttled
<1>11. Sending' # {} => sentThisMinute' < MaxPerMinute
  BY <1>4, <1>5, <1>6, <1>8 DEF Throttled
<1>12. sentThisMinute' <= MaxPerMinute
  BY <1>2, <1>3, <1>4 DEF Throttled
<1> QED BY <1>9, <1>10, <1>11, <1>12

LEMMA SendThrottled ==
    ASSUME TypeOK, Throttled, NEW e \in Event, SendTo(e)
    PROVE  Throttled'
<1> SUFFICES ASSUME Quiet'
             PROVE  /\ \A t, u \in Sending' : t = u
                    /\ Sending' # {} => sentThisMinute' < MaxPerMinute
                    /\ sentThisMinute' <= MaxPerMinute
                    /\ \A r \in Address : Once(r) =>
                         Cardinality(MailsTo(r)') <= sentThisMinute' + Uncounted(r)'
  BY DEF Throttled
<1> DEFINE q == Recipients[e][next[e]]
<1>1. /\ e \in Sending /\ next[e] \in DOMAIN Recipients[e]
      /\ next' = [next EXCEPT ![e] = @ + 1]
      /\ mails' = Append(mails, Mail(e)) \/ mails' = mails
      /\ task' = task /\ lastSend' = lastSend /\ sentThisMinute' = sentThisMinute
      /\ overlapped' = overlapped
  BY DEF SendTo, ToSend, Sending, limiter
<1>2. Quiet /\ Sending' = Sending
  BY <1>1 DEF Quiet, Sending
<1>3. ASSUME NEW r \in Address, Once(r)
      PROVE  Cardinality(MailsTo(r)') <= sentThisMinute' + Uncounted(r)'
  <2>1. Cardinality(MailsTo(r)) <= sentThisMinute + Uncounted(r)
    BY <1>2, <1>3 DEF Throttled
  <2>2. sentThisMinute \in Nat /\ next[e] \in Nat /\ next'[e] = next[e] + 1
        /\ \A d \in Event \ {e} : next'[d] = next[d]
    BY <1>1 DEF TypeOK
  <2>3. HadTurn(r) => HadTurn(r)'
    <3>1. \A d \in Sending : \A j \in DOMAIN Recipients[d] : j < next[d] => j < next'[d]
      <4>1. \A d \in Event : next[d] \in Nat /\ next'[d] \in Nat /\ next[d] <= next'[d]
        BY <2>2, SMTT(30) DEF TypeOK
      <4>2. \A d \in Event : DOMAIN Recipients[d] \subseteq Nat
        BY RecipientsAssumption
      <4> QED BY <4>1, <4>2 DEF Sending
    <3> QED BY <1>2, <3>1 DEF HadTurn
  <2>4. CASE MailsTo(r)' = MailsTo(r)
    <3>1. Uncounted(r) <= Uncounted(r)' /\ Uncounted(r) \in Nat /\ Uncounted(r)' \in Nat
      BY <2>3 DEF Uncounted
    <3> QED BY <1>1, <2>1, <2>2, <2>4, <3>1, MailsToFinite
  <2>5. CASE mails' = Append(mails, Mail(e)) /\ q = r
    <3>1. MailsTo(r)' = MailsTo(r) \cup {Len(mails) + 1}
      <4>1. mails \in Seq(MailRecord)
        BY DEF TypeOK
      <4>2. /\ DOMAIN mails' = DOMAIN mails \cup {Len(mails) + 1}
            /\ \A i \in DOMAIN mails : mails'[i] = mails[i]
            /\ mails'[Len(mails) + 1] = Mail(e)
        BY <2>5, <4>1
      <4>3. Mail(e).to = r /\ Mail(e).window = lastSend
        BY <2>5 DEF Mail
      <4>4. /\ MailsTo(r) = {i \in DOMAIN mails : mails[i].window = lastSend /\ mails[i].to = r}
            /\ MailsTo(r)' = {i \in DOMAIN mails' : mails'[i].window = lastSend /\ mails'[i].to = r}
        BY <1>1 DEF MailsTo, InWindow
      <4> HIDE DEF q
      <4> QED BY <4>2, <4>3, <4>4
    <3>2. /\ Cardinality(MailsTo(r)) \in Nat /\ Cardinality(MailsTo(r)') \in Nat
          /\ Cardinality(MailsTo(r)') <= Cardinality(MailsTo(r)) + 1
      <4>1. IsFiniteSet(MailsTo(r)) /\ Cardinality(MailsTo(r)) \in Nat
        BY MailsToFinite
      <4> DEFINE S == MailsTo(r)
                 n == Len(mails) + 1
      <4>2. /\ IsFiniteSet(S \cup {n})
            /\ Cardinality(S \cup {n}) = IF n \in S THEN Cardinality(S) ELSE Cardinality(S) + 1
        <5> HIDE DEF n
        <5> QED BY <4>1, FS_AddElement
      <4>3. Cardinality(S \cup {n}) \in {Cardinality(S), Cardinality(S) + 1}
        <5> HIDE DEF S, n
        <5> QED BY <4>2
      <4> QED BY <3>1, <4>1, <4>3
    <3>3. Uncounted(r)' = 1
      BY <1>1, <1>2, <2>2, <2>5 DEF Uncounted, HadTurn
    <3>4. ~HadTurn(r)
      <4>1. \A d \in Sending : d = e
        BY <1>1, <1>2 DEF Throttled
      <4>2. \A j \in DOMAIN Recipients[e] : Recipients[e][j] = r => j = next[e]
        BY <1>1, <1>3, <2>5 DEF Once
      <4>3. ~(next[e] < next[e])
        BY <2>2
      <4> QED BY <4>1, <4>2, <4>3 DEF HadTurn
    <3>5. Uncounted(r) = 0
      BY <3>4 DEF Uncounted
    <3> QED BY <1>1, <2>1, <2>2, <3>2, <3>3, <3>5
  <2>6. mails' = Append(mails, Mail(e)) /\ q # r => MailsTo(r)' = MailsTo(r)
    <3> SUFFICES ASSUME mails' = Append(mails, Mail(e)), q # r
                 PROVE  MailsTo(r)' = MailsTo(r)
      OBVIOUS
    <3>1. mails \in Seq(MailRecord)
      BY DEF TypeOK
    <3>2. /\ DOMAIN mails' = DOMAIN mails \cup {Len(mails) + 1}
          /\ \A i \in DOMAIN mails : mails'[i] = mails[i]
          /\ mails'[Len(mails) + 1] = Mail(e)
      BY <3>1
    <3>3. Mail(e).to # r
      BY DEF Mail
    <3> QED BY <1>1, <3>2, <3>3 DEF MailsTo, InWindow
  <2>7. mails' = mails => MailsTo(r)' = MailsTo(r)
    BY <1>1 DEF MailsTo, InWindow
  <2> QED BY <1>1, <2>4, <2>5, <2>6, <2>7
<1> QED BY <1>1, <1>2, <1>3 DEF Throttled

LEMMA CountThrottled ==
    ASSUME TypeOK, Throttled, NEW e \in Event, CountSent(e)
    PROVE  Throttled'
<1> SUFFICES ASSUME Quiet'
             PROVE  /\ \A t, u \in Sending' : t = u
                    /\ Sending' # {} => sentThisMinute' < MaxPerMinute
                    /\ sentThisMinute' <= MaxPerMinute
                    /\ \A r \in Address : Once(r) =>
                         Cardinality(MailsTo(r)') <= sentThisMinute' + Uncounted(r)'
  BY DEF Throttled
<1>1. /\ e \in Sending /\ task' = [task EXCEPT ![e] = "sent"]
      /\ sentThisMinute' = sentThisMinute + 1
      /\ UNCHANGED <<next, lastSend, mails, overlapped>>
  BY DEF CountSent, Sending
<1>2. Quiet
  BY <1>1 DEF Quiet, TypeOK, Sending
<1>3. Sending' = {}
  BY <1>1, <1>2 DEF Throttled, Sending, TypeOK
<1>4. sentThisMinute \in Nat /\ MaxPerMinute \in Nat /\ sentThisMinute < MaxPerMinute
  BY <1>1, <1>2, EmailAssumption DEF Throttled, TypeOK
<1>5. ASSUME NEW r \in Address, Once(r)
      PROVE  Cardinality(MailsTo(r)') <= sentThisMinute' + Uncounted(r)'
  <2>1. MailsTo(r)' = MailsTo(r)
    BY <1>1 DEF MailsTo, InWindow
  <2>2. Cardinality(MailsTo(r)) <= sentThisMinute + Uncounted(r)
    BY <1>2, <1>5 DEF Throttled
  <2>3. Uncounted(r) \in {0, 1} /\ Uncounted(r)' \in {0, 1}
    BY DEF Uncounted
  <2> QED BY <1>1, <1>4, <2>1, <2>2, <2>3, MailsToFinite
<1> QED BY <1>1, <1>3, <1>4, <1>5

LEMMA ThrottledStep == TypeOK /\ Throttled /\ [Next]_vars => Throttled'
<1> SUFFICES ASSUME TypeOK, Throttled, [Next]_vars PROVE Throttled'
  OBVIOUS
<1>1. ASSUME NEW e \in Event, TaskStep(e) PROVE Throttled'
  <2>1. CASE CheckRateLimit(e)
    BY <2>1, CheckThrottled
  <2>2. CASE SendTo(e)
    BY <2>2, SendThrottled
  <2>3. CASE CountSent(e)
    BY <2>3, CountThrottled
  <2>4. CASE SendFails(e)
    <3>1. task'[e] = "failed"
      BY <2>4 DEF SendFails, TypeOK
    <3> QED BY <3>1 DEF Throttled, Quiet
  <2>5. CASE NotifySingle(e) \/ NotifyBatch(e) \/ Flush(e)
    <3>1. /\ task[e] \in {"new", "flushing"}
          /\ \E st \in {"checking", "flushing", "queued", "nothing"} :
               task' = [task EXCEPT ![e] = st]
          /\ UNCHANGED <<next, limiter, mails, overlapped>>
      BY <2>5 DEF NotifySingle, NotifyBatch, Flush
    <3>2. Sending' = Sending
      BY <3>1 DEF Sending, TypeOK
    <3>3. Quiet' => Quiet
      BY <3>1 DEF Quiet, TypeOK
    <3> QED BY <3>1, <3>2, <3>3, SendersStay
  <2> QED BY <1>1, <2>1, <2>2, <2>3, <2>4, <2>5 DEF TaskStep
<1>2. CASE Tick \/ UNCHANGED vars
  <2>1. UNCHANGED <<task, next, limiter, mails, overlapped>>
    BY <1>2 DEF Tick, vars, limiter
  <2>2. Sending' = Sending /\ (Quiet' => Quiet)
    BY <2>1 DEF Sending, Quiet
  <2> QED BY <2>1, <2>2, SendersStay
<1> QED BY <1>1, <1>2 DEF Next

LEMMA ThrottledInit == Init => Throttled
<1> SUFFICES ASSUME Init PROVE Throttled
  OBVIOUS
<1>1. Sending = {} /\ sentThisMinute = 0
  BY DEF Init, Sending
<1>2. \A r : MailsTo(r) = {}
  BY DEF Init, MailsTo, InWindow
<1>3. \A r : Uncounted(r) = 0
  BY <1>1 DEF Uncounted, HadTurn
<1> QED BY <1>1, <1>2, <1>3, FS_EmptySet, EmailAssumption DEF Throttled

LEMMA ThrottledLimits == TypeOK /\ Throttled => LoneSendersThrottled
<1> SUFFICES ASSUME TypeOK, Throttled, Quiet, NEW r \in Address, Once(r)
             PROVE  Cardinality(MailsTo(r)) <= MaxPerMinute
  BY DEF LoneSendersThrottled, Quiet
<1>1. /\ Cardinality(MailsTo(r)) <= sentThisMinute + Uncounted(r)
      /\ sentThisMinute <= MaxPerMinute
      /\ Sending # {} => sentThisMinute < MaxPerMinute
  BY DEF Throttled
<1>2. Uncounted(r) \in {0, 1} /\ (Uncounted(r) = 1 => Sending # {})
  BY DEF Uncounted, HadTurn
<1>3. sentThisMinute \in Nat /\ MaxPerMinute \in Nat
  BY EmailAssumption DEF TypeOK
<1> QED BY <1>1, <1>2, <1>3, MailsToFinite

\* As long as the tasks send one after another and no address is invalid, the
\* limit holds for each recipient a task mails once, in every window of the
\* limiter (email.rs:158-178).
THEOREM EmailLoneSendersThrottled == Spec => []LoneSendersThrottled
<1>1. EmailInv => TypeOK
  BY DEF EmailInv
<1>2. Spec => []Throttled
  BY <1>1, EmailInvariant, ThrottledInit, ThrottledStep, PTL DEF Spec
<1> QED BY <1>1, <1>2, EmailInvariant, ThrottledLimits, PTL
=============================================================================
