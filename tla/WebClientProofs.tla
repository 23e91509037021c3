--------------------------- MODULE WebClientProofs ---------------------------
(***************************************************************************)
(* One tab of the dashboard, for any page size, channel, number of logins, *)
(* loads and troubles, any rows and filters: types, a line to the          *)
(* server that is never given up, live events in order, and the view that  *)
(* shows the newest rows without a gap.                                    *)
(***************************************************************************)
EXTENDS WebClient, FiniteSetTheorems, SequenceTheorems, TLAPS

-----------------------------------------------------------------------------
(* The helpers *)

\* A set of natural numbers that is not empty has a least element: of the sets
\* of the numbers below one of them, a smallest is empty.
LEMMA LeastNumber ==
    ASSUME NEW T \in SUBSET Nat, T # {}
    PROVE  Min(T) \in T /\ \A k \in T : Min(T) <= k
<1> DEFINE Below(j) == {k \in T : k < j}
           Heads == {Below(j) : j \in T}
<1>1. Heads \subseteq FiniteSubsetsOf(Nat)
  <2> SUFFICES ASSUME NEW j \in T PROVE Below(j) \in FiniteSubsetsOf(Nat)
    OBVIOUS
  <2>1. IsFiniteSet(0..j)
    BY FS_Interval
  <2>2. Below(j) \in SUBSET (0..j) /\ Below(j) \in SUBSET Nat
    <3>1. \A x \in T : x < j => x \in 0..j
      OBVIOUS
    <3> QED BY <3>1
  <2>3. IsFiniteSet(Below(j))
    BY <2>1, <2>2, FS_Subset
  <2> QED BY <2>2, <2>3 DEF FiniteSubsetsOf
<1>2. Heads # {}
  OBVIOUS
<1>3. PICK U \in Heads : \A V \in Heads : ~ (<<V, U>> \in StrictSubsetOrdering(Nat))
  <2> HIDE DEF Heads
  <2> QED BY <1>1, <1>2, FS_StrictSubsetOrderingWellFounded, WFMin
<1>4. PICK j \in T : U = Below(j)
  OBVIOUS
<1>5. \A k \in T : j <= k
  <2> SUFFICES ASSUME NEW k \in T, k < j PROVE FALSE
    OBVIOUS
  <2>1. Below(k) \in SUBSET Nat /\ Below(j) \in SUBSET Nat
    OBVIOUS
  <2>2. Below(k) \subseteq Below(j)
    <3>1. \A x \in T : x < k => x < j
      OBVIOUS
    <3> QED BY <3>1
  <2>3. k \in Below(j) /\ k \notin Below(k)
    OBVIOUS
  <2>4. <<Below(k), Below(j)>> \in StrictSubsetOrdering(Nat)
    BY <2>1, <2>2, <2>3 DEF StrictSubsetOrdering
  <2> QED BY <2>4, <1>3, <1>4
<1> QED BY <1>5 DEF Min

\* As long as not all slots are taken, Free finds one that is not.
LEMMA FreeSlot ==
    ASSUME NEW used \in SUBSET Slot, Cardinality(used) <= MaxShows
    PROVE  Free(used) \in Slot \ used
<1>1. MaxShows \in Nat /\ MaxShows + 1 \in Int
  BY WebAssumption
<1>2. Cardinality(Slot) = MaxShows + 1
  BY <1>1, FS_Interval DEF Slot
<1>3. Slot \ used # {}
  <2>1. used # Slot
    BY <1>1, <1>2
  <2> QED BY <2>1
<1>4. Slot \ used \in SUBSET Nat
  BY DEF Slot
<1> QED BY <1>3, <1>4, LeastNumber DEF Free

\* Sets of slots are finite.
LEMMA SlotsFinite ==
    ASSUME NEW used \in SUBSET Slot
    PROVE  IsFiniteSet(used) /\ Cardinality(used) \in Nat
<1>1. IsFiniteSet(Slot)
  BY WebAssumption, FS_Interval DEF Slot
<1> QED BY <1>1, FS_Subset, FS_CardinalityType

\* The greater and the smaller of two numbers.
LEMMA MaxOfTwo ==
    ASSUME NEW a \in Int, NEW b \in Int
    PROVE  Max({a, b}) = IF a >= b THEN a ELSE b
BY DEF Max

LEMMA MinOfTwo ==
    ASSUME NEW a \in Int, NEW b \in Int
    PROVE  Min({a, b}) = IF a <= b THEN a ELSE b
BY DEF Min

\* Down counts from n to m.
LEMMA DownFact ==
    ASSUME NEW n \in Nat, NEW m \in Nat, m <= n + 1
    PROVE  /\ Down(n, m) \in Seq(Nat) /\ Len(Down(n, m)) = n - m + 1
           /\ \A k \in 1..(n - m + 1) : Down(n, m)[k] = n - k + 1
<1>1. n - m + 1 \in Nat
  OBVIOUS
<1>2. Down(n, m) \in [1..(n - m + 1) -> Nat]
  BY DEF Down
<1>3. Down(n, m) \in Seq(Nat)
  BY <1>1, <1>2, SeqDef
<1>4. Len(Down(n, m)) = n - m + 1
  BY <1>1, <1>2, <1>3, LenProperties
<1> QED BY <1>3, <1>4 DEF Down

\* The rows found are finitely many, and have timestamps that differ.
LEMMA FoundFact ==
    ASSUME NEW n \in Nat
    PROVE  /\ Found(n) \subseteq Nat /\ IsFiniteSet(Found(n)) /\ Cardinality(Found(n)) \in Nat
           /\ \A r \in Found(n) : Stamp[r] \in Nat
           /\ \A r, s \in Found(n) : Stamp[r] = Stamp[s] => r = s
<1>1. Found(n) \subseteq 1..n /\ Found(n) \subseteq 1..MaxRows /\ 1..n \subseteq Nat
  BY WebAssumption DEF Found
<1>2. IsFiniteSet(1..n)
  BY FS_Interval
<1>3. IsFiniteSet(Found(n)) /\ Cardinality(Found(n)) \in Nat
  BY <1>1, <1>2, FS_Subset, FS_CardinalityType
<1> QED BY <1>1, <1>3, WebAssumption

\* A page has rows, and there is a page at least.
LEMMA PageOfFact ==
    ASSUME NEW n \in Nat, NEW p \in Nat \ {0}
    PROVE  PageOf(n, p) \in SUBSET Nat /\ TotalPages(n) \in Nat \ {0}
<1> DEFINE pages == (Cardinality(Found(n)) + PerPage - 1) \div PerPage
<1>1. pages \in Int
  BY FoundFact, WebAssumption
<1> HIDE DEF pages
<1>2. Max({1, pages}) = IF 1 >= pages THEN 1 ELSE pages
  BY <1>1, MaxOfTwo
<1>3. Max({1, pages}) \in Nat \ {0}
  BY <1>1, <1>2
<1>4. TotalPages(n) \in Nat \ {0}
  BY <1>3 DEF TotalPages, pages
<1>5. PageOf(n, p) \in SUBSET Nat
  BY FoundFact DEF PageOf
<1> QED BY <1>4, <1>5

\* Among the rows found each has a place of its own, and each place up to their
\* number is taken: a newer row has a lower place.
LEMMA PlaceFact ==
    ASSUME NEW n \in Nat, NEW r \in Found(n)
    PROVE  /\ Place(r, n) \in 1..Cardinality(Found(n))
           /\ \A s \in Found(n) : Stamp[s] <= Stamp[r] => Place(r, n) <= Place(s, n)
           /\ \A s \in Found(n) : Stamp[s] < Stamp[r] => Place(r, n) # Place(s, n)
<1> DEFINE Above(s) == {q \in Found(n) : Stamp[q] >= Stamp[s]}
<1>1. /\ IsFiniteSet(Found(n)) /\ Cardinality(Found(n)) \in Nat
      /\ \A s \in Found(n) : Stamp[s] \in Nat
  BY FoundFact
<1>2. ASSUME NEW s \in Found(n)
      PROVE  /\ IsFiniteSet(Above(s)) /\ Cardinality(Above(s)) \in Nat
             /\ Cardinality(Above(s)) <= Cardinality(Found(n)) /\ s \in Above(s)
  <2>1. Above(s) \subseteq Found(n) /\ s \in Above(s)
    BY <1>1
  <2> QED BY <1>1, <2>1, FS_Subset, FS_CardinalityType
<1>3. \A s \in Found(n) : Place(s, n) = Cardinality(Above(s))
  BY DEF Place
<1>4. Cardinality(Above(r)) # 0
  <2>1. IsFiniteSet(Above(r)) /\ Above(r) # {}
    BY <1>2
  <2> HIDE DEF Above
  <2> QED BY <2>1, FS_EmptySet
<1>5. ASSUME NEW s \in Found(n), Stamp[s] <= Stamp[r]
      PROVE  Cardinality(Above(r)) <= Cardinality(Above(s))
  <2>1. Above(r) \subseteq Above(s)
    BY <1>1, <1>5
  <2> QED BY <1>2, <2>1, FS_Subset
<1>6. ASSUME NEW s \in Found(n), Stamp[s] < Stamp[r]
      PROVE  Cardinality(Above(r)) # Cardinality(Above(s))
  <2>1. Above(r) \subseteq Above(s)
    BY <1>1, <1>6
  <2>2. s \in Above(s) /\ s \notin Above(r)
    BY <1>1, <1>6
  <2>3. IsFiniteSet(Above(s))
    BY <1>2
  <2> HIDE DEF Above
  <2> QED BY <2>1, <2>2, <2>3, FS_Subset
<1> HIDE DEF Above
<1>7. Cardinality(Above(r)) \in 1..Cardinality(Found(n))
  BY <1>1, <1>2, <1>4
<1> QED BY <1>3, <1>5, <1>6, <1>7

LEMMA PlaceReached ==
    ASSUME NEW n \in Nat, NEW k \in 1..Cardinality(Found(n))
    PROVE  \E r \in Found(n) : Place(r, n) = k
<1> DEFINE F == Found(n)
           T == 1..Cardinality(Found(n))
           place == [r \in F |-> Place(r, n)]
<1>1. IsFiniteSet(T) /\ Cardinality(T) = Cardinality(F)
  BY FoundFact, FS_Interval
<1>2. place \in [F -> T]
  BY PlaceFact
<1>3. \A q, r \in F : place[q] = place[r] => q = r
  <2> SUFFICES ASSUME NEW q \in F, NEW r \in F, Place(q, n) = Place(r, n), q # r PROVE FALSE
    OBVIOUS
  <2>1. Stamp[q] \in Nat /\ Stamp[r] \in Nat /\ Stamp[q] # Stamp[r]
    BY FoundFact
  <2>2. CASE Stamp[q] < Stamp[r]
    BY <2>2, PlaceFact
  <2>3. CASE Stamp[r] < Stamp[q]
    BY <2>3, PlaceFact
  <2> QED BY <2>1, <2>2, <2>3
<1> HIDE DEF F, T, place
<1>4. place \in Injection(F, T)
  BY <1>2, <1>3 DEF Injection, IsInjective
<1>5. IsFiniteSet(F)
  BY FoundFact DEF F
<1>6. place \in Surjection(F, T)
  BY <1>1, <1>4, <1>5, FS_Injection
<1>7. PICK r \in F : place[r] = k
  BY <1>6 DEF Surjection, T
<1> QED BY <1>7 DEF place, F

\* The first page: a row found that is not on it is older than all that are,
\* and then the page is full.
LEMMA FirstPage ==
    ASSUME NEW n \in Nat, NEW r \in Found(n) \ PageOf(n, 1)
    PROVE  /\ Cardinality(PageOf(n, 1)) = PerPage
           /\ \A s \in PageOf(n, 1) : Stamp[s] > Stamp[r]
<1> DEFINE P == PageOf(n, 1)
<1>1. PerPage \in Nat \ {0} /\ Cardinality(Found(n)) \in Nat
  BY WebAssumption, FoundFact
<1>2. (1 - 1) * PerPage + 1 = 1 /\ 1 * PerPage = PerPage
  BY <1>1
<1>3. P = {s \in Found(n) : Place(s, n) \in 1..PerPage}
  BY <1>2 DEF PageOf
<1> HIDE DEF P
<1>4. Place(r, n) > PerPage /\ Place(r, n) <= Cardinality(Found(n))
  BY <1>1, <1>3, PlaceFact DEF P
<1>5. ASSUME NEW s \in P PROVE Stamp[s] > Stamp[r]
  <2>1. s \in Found(n) /\ Place(s, n) \in 1..PerPage
    BY <1>3
  <2>2. Stamp[s] \in Nat /\ Stamp[r] \in Nat
    BY <2>1, FoundFact
  <2>3. Stamp[s] <= Stamp[r] => Place(r, n) <= Place(s, n)
    BY <2>1, PlaceFact
  <2>4. Place(r, n) \in Nat
    BY PlaceFact
  <2> QED BY <1>1, <1>4, <2>1, <2>2, <2>3, <2>4
<1>6. Cardinality(P) = PerPage
  <2> DEFINE place == [s \in P |-> Place(s, n)]
             T == 1..PerPage
  <2>1. IsFiniteSet(P)
    <3>1. P \subseteq Found(n)
      BY <1>3
    <3> QED BY <3>1, FoundFact, FS_Subset
  <2>2. place \in [P -> T]
    BY <1>3
  <2>3. \A q, s \in P : place[q] = place[s] => q = s
    <3> SUFFICES ASSUME NEW q \in P, NEW s \in P, Place(q, n) = Place(s, n), q # s PROVE FALSE
      OBVIOUS
    <3>1. q \in Found(n) /\ s \in Found(n)
      BY <1>3
    <3>2. Stamp[q] \in Nat /\ Stamp[s] \in Nat /\ Stamp[q] # Stamp[s]
      BY <3>1, FoundFact
    <3>3. CASE Stamp[q] < Stamp[s]
      BY <3>1, <3>3, PlaceFact
    <3>4. CASE Stamp[s] < Stamp[q]
      BY <3>1, <3>4, PlaceFact
    <3> QED BY <3>2, <3>3, <3>4
  <2>4. \A k \in T : \E s \in P : place[s] = k
    <3> SUFFICES ASSUME NEW k \in T PROVE \E s \in P : Place(s, n) = k
      OBVIOUS
    <3>1. k \in 1..Cardinality(Found(n))
      <4>1. Place(r, n) \in Nat
        BY PlaceFact
      <4> QED BY <1>1, <1>4, <4>1
    <3>2. PICK s \in Found(n) : Place(s, n) = k
      BY <3>1, PlaceReached
    <3> QED BY <1>3, <3>2
  <2> HIDE DEF place, T
  <2>5. ExistsBijection(P, T)
    <3>1. place \in Bijection(P, T)
      BY <2>2, <2>3, <2>4 DEF Bijection, Injection, Surjection, IsInjective
    <3> QED BY <3>1 DEF ExistsBijection
  <2>6. Cardinality(P) = Cardinality(T)
    BY <2>1, <2>5, FS_Bijection
  <2>7. Cardinality(T) = PerPage
    BY <1>1, FS_Interval DEF T
  <2> QED BY <2>6, <2>7
<1> QED BY <1>5, <1>6 DEF P

\* What is kept of a queue that got one more row: as many as the channel holds,
\* all of them as long as it does, and the last ones of the queue.
LEMMA KeptFact ==
    ASSUME NEW queue \in Seq(Nat), NEW x \in Nat
    PROVE  LET all == Append(queue, x)
               kept == Kept(all)
               cut == IF Len(queue) >= Capacity THEN Len(queue) + 1 - Capacity ELSE 0
           IN  /\ kept \in Seq(Nat) /\ Len(kept) = Len(queue) + 1 - cut
               /\ Len(kept) <= Capacity
               /\ \A k \in 1..Len(kept) : kept[k] = all[k + cut]
<1> DEFINE all == Append(queue, x)
           cut == IF Len(queue) >= Capacity THEN Len(queue) + 1 - Capacity ELSE 0
<1>1. /\ Len(queue) \in Nat /\ all \in Seq(Nat) /\ Len(all) = Len(queue) + 1
      /\ Capacity \in Nat \ {0}
  BY WebAssumption, LenProperties, AppendProperties
<1>2. Max({1, Len(all) - Capacity + 1}) = cut + 1 /\ cut \in Nat /\ cut <= Len(queue)
  BY <1>1, MaxOfTwo
<1>3. Kept(all) = SubSeq(all, cut + 1, Len(all))
  BY <1>2 DEF Kept
<1>4. \A k \in (cut + 1)..Len(all) : all[k] \in Nat
  <2> HIDE DEF all
  <2> QED BY <1>1, <1>2, ElementOfSeq
<1>5. cut + 1 \in Int /\ Len(all) \in Int /\ cut + 1 <= Len(all)
  BY <1>1, <1>2
<1> HIDE DEF all, cut
<1>6. /\ Kept(all) \in Seq(Nat) /\ Len(Kept(all)) = Len(all) - (cut + 1) + 1
      /\ \A k \in 1..(Len(all) - (cut + 1) + 1) : Kept(all)[k] = all[cut + 1 + k - 1]
  BY <1>3, <1>4, <1>5, SubSeqProperties
<1>7. /\ Len(Kept(all)) = Len(queue) + 1 - cut
      /\ \A k \in 1..Len(Kept(all)) : Kept(all)[k] = all[k + cut]
  BY <1>1, <1>2, <1>6
<1>8. Len(queue) + 1 - cut <= Capacity
  BY <1>1 DEF cut
<1> QED BY <1>6, <1>7, <1>8 DEF all, cut

\* A row put in front of the live events, and the oldest beyond a page dropped.
LEMMA ShownFact ==
    ASSUME NEW live \in Seq(Nat), NEW x \in Nat
    PROVE  LET all == <<x>> \o live
               kept == SubSeq(all, 1, Min({Len(all), PerPage}))
           IN  /\ kept \in Seq(Nat)
               /\ Len(kept) = IF Len(live) + 1 <= PerPage THEN Len(live) + 1 ELSE PerPage
               /\ kept[1] = x
               /\ \A k \in 2..Len(kept) : kept[k] = live[k - 1]
<1> DEFINE all == <<x>> \o live
           n == IF Len(live) + 1 <= PerPage THEN Len(live) + 1 ELSE PerPage
<1>1. /\ Len(live) \in Nat /\ PerPage \in Nat \ {0} /\ all \in Seq(Nat)
      /\ Len(all) = Len(live) + 1 /\ all[1] = x
      /\ \A k \in 2..Len(all) : all[k] = live[k - 1]
  BY WebAssumption, LenProperties
<1>2. Min({Len(all), PerPage}) = n /\ n \in Nat /\ 1 <= n /\ n <= Len(all)
  BY <1>1, MinOfTwo
<1> HIDE DEF all, n
<1>3. \A k \in 1..n : all[k] \in Nat
  BY <1>1, <1>2, ElementOfSeq
<1>4. /\ SubSeq(all, 1, n) \in Seq(Nat) /\ Len(SubSeq(all, 1, n)) = n - 1 + 1
      /\ \A k \in 1..(n - 1 + 1) : SubSeq(all, 1, n)[k] = all[1 + k - 1]
  BY <1>2, <1>3, SubSeqProperties
<1>5. /\ Len(SubSeq(all, 1, n)) = n /\ SubSeq(all, 1, n)[1] = x
      /\ \A k \in 2..n : SubSeq(all, 1, n)[k] = live[k - 1]
  BY <1>1, <1>2, <1>4
<1> QED BY <1>2, <1>4, <1>5 DEF all, n

-----------------------------------------------------------------------------
(* The line to the server *)

\* The names of the sockets there are.
Lines == DOMAIN socks

\* A socket or a timer for each time the main page was shown, at most, and one
\* of them at least once it was.
LineInv ==
  /\ Lines \subseteq Slot /\ timers \subseteq Slot
  /\ shows \in 0..MaxShows
  /\ Cardinality(Lines) + Cardinality(timers) <= shows
  /\ shows > 0 => Cardinality(Lines) + Cardinality(timers) >= 1

\* What a step does to the sockets' names and the timers: a timer is cleared by
\* a socket that opens, a socket that closed sets a timer, a timer makes a
\* socket, and so does the main page.
LineStep ==
  \/ Lines' = Lines /\ UNCHANGED <<timers, shows>>
  \/ /\ Lines # {} /\ Lines' = Lines
     /\ timers' = timers \ {timer} /\ UNCHANGED shows
  \/ \E i \in Lines : /\ Lines' = Lines \ {i}
                      /\ timers' = timers \cup {Free(timers)} /\ UNCHANGED shows
  \/ \E t \in timers : /\ Lines' = Lines \cup {Free(Lines)}
                       /\ timers' = timers \ {t} /\ UNCHANGED shows
  \/ /\ Lines' = Lines \cup {Free(Lines)} /\ shows < MaxShows
     /\ shows' = shows + 1 /\ UNCHANGED timers

\* Each action is one of these.
LEMMA LineSteps == [Next]_vars => LineStep
<1> SUFFICES ASSUME [Next]_vars PROVE LineStep
  OBVIOUS
<1> USE DEF Lines, LineStep
<1>1. CASE Store
  BY <1>1 DEF Store, lines, bounds
<1>2. CASE Publish
  BY <1>2 DEF Publish, bounds
<1>3. ASSUME NEW t \in Token, Expire(t) PROVE LineStep
  BY <1>3 DEF Expire, lines
<1>4. CASE Cleanup
  BY <1>4 DEF Cleanup, lines, bounds
<1>5. CASE Die
  BY <1>5 DEF Die
<1>6. CASE Start
  BY <1>6 DEF Start, lines, bounds
<1>6a. CASE Reconfigure
  BY <1>6a DEF Reconfigure, lines
<1>7. ASSUME NEW i \in Slot, i \in DOMAIN socks, Upgrade(i) \/ Subscribe(i) PROVE LineStep
  BY <1>7 DEF Upgrade, Subscribe, bounds
<1>8. ASSUME NEW i \in Slot, i \in DOMAIN socks, OnOpen(i) PROVE LineStep
  BY <1>8 DEF OnOpen, bounds
<1>9. ASSUME NEW i \in Slot, i \in DOMAIN socks, OnError(i) PROVE LineStep
  BY <1>9 DEF OnError, Closing
<1>10. ASSUME NEW i \in Slot, i \in DOMAIN socks, OnClose(i) PROVE LineStep
  BY <1>10 DEF OnClose, bounds
<1>11. ASSUME NEW i \in Slot, i \in DOMAIN socks, OnMessage(i) PROVE LineStep
  BY <1>11 DEF OnMessage, bounds
<1>12. ASSUME NEW i \in Slot, TimerFires(i) PROVE LineStep
  BY <1>12 DEF TimerFires, Connected, bounds
<1>13. ASSUME NEW p \in 1..(MaxRows + 1), LoadHistory(p) PROVE LineStep
  BY <1>13 DEF LoadHistory, lines, bounds
<1>14. ASSUME NEW l \in loads, Answer(l) \/ Shown(l) \/ Ignored(l) PROVE LineStep
  BY <1>14 DEF Answer, Shown, Ignored, lines, bounds
<1>15. ASSUME NEW t, ShowMain(t) PROVE LineStep
  BY <1>15 DEF ShowMain, Connected
<1>16. CASE AuthStatus
  BY <1>16, <1>15 DEF AuthStatus, ShowLogin, lines, bounds
<1>17. CASE Verify
  BY <1>17, <1>15 DEF Verify, ShowLogin, lines, bounds
<1>18. CASE Login
  BY <1>18, <1>15 DEF Login
<1>19. CASE RefreshRefused
  BY <1>19 DEF RefreshRefused, ShowLogin, lines, bounds
<1>20. CASE Logout
  BY <1>20 DEF Logout, Closing
<1>21. CASE UNCHANGED vars
  BY <1>21 DEF vars, lines, bounds
<1> QED
  BY <1>1, <1>2, <1>3, <1>4, <1>5, <1>6, <1>6a, <1>7, <1>8, <1>9, <1>10, <1>11, <1>12,
     <1>13, <1>14, <1>16, <1>17, <1>18, <1>19, <1>20, <1>21
     DEF Next, Socket, Settles, Refused, Breaks

\* The invariant is kept: a clearing onopen has its own socket, and what takes
\* one from the sockets or the timers adds one to the others.
LEMMA LineKeptByStep == LineInv /\ LineStep => LineInv'
<1> SUFFICES ASSUME LineInv, LineStep PROVE LineInv'
  OBVIOUS
<1> DEFINE n == Cardinality(Lines)
           m == Cardinality(timers)
<1>1. /\ IsFiniteSet(Lines) /\ IsFiniteSet(timers) /\ n \in Nat /\ m \in Nat
      /\ shows \in Nat /\ MaxShows \in Nat /\ n <= MaxShows /\ m <= MaxShows
      /\ n + m <= shows /\ shows <= MaxShows /\ (shows > 0 => n + m >= 1)
  BY SlotsFinite, WebAssumption DEF LineInv
<1>2. Free(Lines) \in Slot \ Lines /\ Free(timers) \in Slot \ timers
  BY <1>1, FreeSlot DEF LineInv
<1>3. ASSUME NEW S, IsFiniteSet(S)
      PROVE  /\ \A x : IsFiniteSet(S \cup {x}) /\ IsFiniteSet(S \ {x})
             /\ \A x : x \notin S => Cardinality(S \cup {x}) = Cardinality(S) + 1
             /\ \A x \in S : Cardinality(S \ {x}) = Cardinality(S) - 1
             /\ \A x : x \notin S => Cardinality(S \ {x}) = Cardinality(S)
  BY <1>3, FS_AddElement, FS_RemoveElement
<1>4. CASE Lines' = Lines /\ UNCHANGED <<timers, shows>>
  BY <1>4 DEF LineInv
<1>5. CASE /\ Lines # {} /\ Lines' = Lines
           /\ timers' = timers \ {timer} /\ UNCHANGED shows
  <2>1. n >= 1
    BY <1>1, <1>5, FS_EmptySet
  <2>2. timers' \subseteq timers /\ IsFiniteSet(timers')
    BY <1>1, <1>3, <1>5
  <2>3. Cardinality(timers') \in Nat /\ Cardinality(timers') <= m
    BY <1>1, <2>2, FS_Subset, FS_CardinalityType
  <2> QED BY <1>1, <1>5, <2>1, <2>2, <2>3 DEF LineInv
<1>6. CASE \E i \in Lines : /\ Lines' = Lines \ {i}
                            /\ timers' = timers \cup {Free(timers)} /\ UNCHANGED shows
  <2>1. PICK i \in Lines : Lines' = Lines \ {i} /\ timers' = timers \cup {Free(timers)} /\ shows' = shows
    BY <1>6
  <2>2. Cardinality(Lines') = n - 1 /\ Cardinality(timers') = m + 1
    BY <1>1, <1>2, <1>3, <2>1
  <2> QED BY <1>1, <1>2, <2>1, <2>2 DEF LineInv
<1>7. CASE \E t \in timers : /\ Lines' = Lines \cup {Free(Lines)}
                             /\ timers' = timers \ {t} /\ UNCHANGED shows
  <2>1. PICK t \in timers : Lines' = Lines \cup {Free(Lines)} /\ timers' = timers \ {t} /\ shows' = shows
    BY <1>7
  <2>2. Cardinality(Lines') = n + 1 /\ Cardinality(timers') = m - 1
    BY <1>1, <1>2, <1>3, <2>1
  <2> QED BY <1>1, <1>2, <2>1, <2>2 DEF LineInv
<1>8. CASE /\ Lines' = Lines \cup {Free(Lines)} /\ shows < MaxShows
           /\ shows' = shows + 1 /\ UNCHANGED timers
  <2>1. Cardinality(Lines') = n + 1
    BY <1>1, <1>2, <1>3, <1>8
  <2> QED BY <1>1, <1>2, <1>8, <2>1 DEF LineInv
<1> QED BY <1>4, <1>5, <1>6, <1>7, <1>8 DEF LineStep

LEMMA LineInvAlways == Spec => []LineInv
<1>1. Init => LineInv
  <2> SUFFICES ASSUME Init PROVE LineInv
    OBVIOUS
  <2>1. Lines = {} /\ timers = {} /\ shows = 0
    BY DEF Init, Lines
  <2> QED BY <2>1, FS_EmptySet, WebAssumption DEF LineInv
<1> QED BY <1>1, LineSteps, LineKeptByStep, PTL DEF Spec

\* Once the main page was shown the tab never gives up: there is a socket or a
\* timer that will make one, and no more of them than the page was shown times
\* (connect and onclose, events.js:226).
THEOREM ClientLineKept == Spec => []LineKept
<1>1. LineInv => LineKept
  <2> SUFFICES ASSUME LineInv, shows > 0
               PROVE  Cardinality(DOMAIN socks) + Cardinality(timers) \in 1..shows
    BY DEF LineKept
  <2>1. /\ Cardinality(Lines) \in Nat /\ Cardinality(timers) \in Nat /\ shows \in Nat
        /\ Cardinality(Lines) + Cardinality(timers) <= shows
        /\ Cardinality(Lines) + Cardinality(timers) >= 1
    BY SlotsFinite DEF LineInv
  <2> QED BY <2>1 DEF Lines
<1> QED BY <1>1, LineInvAlways, PTL
-----------------------------------------------------------------------------
(* Types *)

TokenOrNone == {0} \cup Token
SockRecord == [state : {"connecting", "accepted", "open", "closing"}, subscribed : BOOLEAN,
               queue : Seq(Nat), token : TokenOrNone]
Load == [id : 1..MaxLoads, page : Nat \ {0}, token : TokenOrNone,
         step : {"asked", "answered", "refused"}, upto : Nat, alone : BOOLEAN]

ServerOK ==
  /\ up \in BOOLEAN /\ password \in BOOLEAN
  /\ stored \in Nat /\ sent \in Nat /\ sent <= stored
  /\ DOMAIN tokens \subseteq Token
  /\ \A t \in DOMAIN tokens : tokens[t] \in {"fresh", "expired"}

\* Only sockets that are let in are subscribed, and only those have something to
\* receive, no more than the channel holds.
SocksOK ==
  /\ socks \in [Lines -> SockRecord]
  /\ \A i \in Lines : /\ Len(socks[i].queue) <= Capacity
                      /\ socks[i].state \in {"connecting", "closing"} => ~socks[i].subscribed
                      /\ ~socks[i].subscribed => socks[i].queue = <<>>

LoadsOK ==
  /\ loads \subseteq Load
  /\ IsFiniteSet(loads) /\ Cardinality(loads) <= MaxLoads

TabOK ==
  /\ page \in {"start", "verify", "login", "main"}
  /\ token \in TokenOrNone /\ authRequired \in BOOLEAN
  /\ ws \in {0} \cup Slot /\ timer \in {0} \cup Slot
  /\ view \in [events : SUBSET Nat, live : Seq(Nat), page : Nat \ {0}, pages : Nat \ {0}]
  /\ troubles \in 0..MaxTroubles /\ issued \in 0..(shows + 1)
  /\ exact \in [on : BOOLEAN, upto : Nat]

\* Slots, timers and shows are typed by LineInv.
TypeOK == LineInv /\ ServerOK /\ SocksOK /\ LoadsOK /\ TabOK

\* What LineInv says of the slots that are named next.
LEMMA FreeFact ==
    ASSUME LineInv
    PROVE  Free(Lines) \in Slot \ Lines /\ Free(timers) \in Slot \ timers
<1>1. Lines \in SUBSET Slot /\ timers \in SUBSET Slot /\ shows <= MaxShows /\ shows \in Nat
      /\ MaxShows \in Nat /\ Cardinality(Lines) + Cardinality(timers) <= shows
  BY WebAssumption DEF LineInv
<1>2. Cardinality(Lines) \in Nat /\ Cardinality(timers) \in Nat
  BY <1>1, SlotsFinite
<1>3. Cardinality(Lines) <= MaxShows /\ Cardinality(timers) <= MaxShows
  BY <1>1, <1>2
<1> QED BY <1>1, <1>3, FreeSlot

\* Disturbing the loads keeps their number.
LEMMA DisturbedFact ==
    ASSUME LoadsOK
    PROVE  /\ Disturbed \subseteq Load /\ IsFiniteSet(Disturbed)
           /\ Cardinality(Disturbed) <= Cardinality(loads)
           /\ \A l \in Disturbed : l.alone = FALSE
<1> DEFINE f == [l \in loads |-> [l EXCEPT !.alone = FALSE]]
<1>1. f \in Surjection(loads, Disturbed)
  BY DEF Surjection, Disturbed
<1>2. \A l \in Disturbed : l \in Load /\ l.alone = FALSE
  BY DEF LoadsOK, Disturbed, Load
<1> HIDE DEF f
<1> QED BY <1>1, <1>2, FS_Surjection DEF LoadsOK

\* A request takes a name that no other load has.
LEMMA RequestedFact ==
    ASSUME LoadsOK, Cardinality(loads) < MaxLoads,
           NEW p \in Nat \ {0}, NEW t \in TokenOrNone, Requested(p, t)
    PROVE  LoadsOK'
<1> DEFINE ids == {l.id : l \in loads}
           f == [l \in loads |-> l.id]
           l1 == [id |-> Min((1..MaxLoads) \ ids), page |-> p, token |-> t,
                  step |-> "asked", upto |-> 0,
                  alone |-> /\ loads = {} /\ sent = stored
                            /\ \A i \in DOMAIN socks : socks[i].queue = <<>>]
<1>1. MaxLoads \in Nat /\ IsFiniteSet(loads) /\ Cardinality(loads) \in Nat
  BY WebAssumption, FS_CardinalityType DEF LoadsOK
<1>2. f \in Surjection(loads, ids)
  BY DEF Surjection
<1>3. IsFiniteSet(ids) /\ Cardinality(ids) <= Cardinality(loads) /\ Cardinality(ids) \in Nat
  <2> HIDE DEF f, ids
  <2> QED BY <1>1, <1>2, FS_Surjection, FS_CardinalityType
<1>4. (1..MaxLoads) \ ids # {}
  <2>1. Cardinality(1..MaxLoads) = MaxLoads
    BY <1>1, FS_Interval
  <2>2. SUFFICES ASSUME 1..MaxLoads \subseteq ids PROVE FALSE
    OBVIOUS
  <2> HIDE DEF ids
  <2>3. Cardinality(1..MaxLoads) <= Cardinality(ids)
    BY <1>3, <2>2, FS_Subset
  <2> QED BY <1>1, <1>3, <2>1, <2>3
<1>5. Min((1..MaxLoads) \ ids) \in 1..MaxLoads
  <2> HIDE DEF ids
  <2>1. (1..MaxLoads) \ ids \in SUBSET Nat
    BY <1>1
  <2> QED BY <1>4, <2>1, LeastNumber
<1>6. l1 \in Load
  <2> HIDE DEF ids
  <2> QED BY <1>5 DEF Load
<1>7. loads' = Disturbed \cup {l1}
  BY DEF Requested
<1> HIDE DEF l1
<1>8. /\ Disturbed \subseteq Load /\ IsFiniteSet(Disturbed)
      /\ Cardinality(Disturbed) \in Nat /\ Cardinality(Disturbed) <= Cardinality(loads)
  BY DisturbedFact, FS_CardinalityType
<1>9. /\ IsFiniteSet(Disturbed \cup {l1})
      /\ Cardinality(Disturbed \cup {l1}) \in Nat
      /\ Cardinality(Disturbed \cup {l1}) <= Cardinality(Disturbed) + 1
  <2>1. /\ IsFiniteSet(Disturbed \cup {l1})
        /\ Cardinality(Disturbed \cup {l1}) = IF l1 \in Disturbed THEN Cardinality(Disturbed)
                                              ELSE Cardinality(Disturbed) + 1
    BY <1>8, FS_AddElement
  <2> QED BY <1>8, <2>1, FS_CardinalityType
<1> QED BY <1>1, <1>6, <1>7, <1>8, <1>9 DEF LoadsOK

\* One load less, or another in its place.
LEMMA LoadGone ==
    ASSUME LoadsOK, NEW l \in loads
    PROVE  /\ loads' = loads \ {l} => LoadsOK'
           /\ \A k \in Load : loads' = (loads \ {l}) \cup {k} => LoadsOK'
<1>1. /\ MaxLoads \in Nat /\ IsFiniteSet(loads) /\ Cardinality(loads) \in Nat
      /\ Cardinality(loads) <= MaxLoads /\ loads \subseteq Load
  BY WebAssumption, FS_CardinalityType DEF LoadsOK
<1> DEFINE rest == loads \ {l}
<1>2. IsFiniteSet(rest) /\ Cardinality(rest) = Cardinality(loads) - 1
  BY <1>1, FS_RemoveElement
<1>3. ASSUME NEW k \in Load
      PROVE  IsFiniteSet(rest \cup {k}) /\ Cardinality(rest \cup {k}) <= Cardinality(loads)
  <2> HIDE DEF rest
  <2>1. /\ IsFiniteSet(rest \cup {k})
        /\ Cardinality(rest \cup {k}) = IF k \in rest THEN Cardinality(rest) ELSE Cardinality(rest) + 1
    BY <1>2, FS_AddElement
  <2> QED BY <1>1, <1>2, <2>1
<1>4. Cardinality(rest) <= MaxLoads
  BY <1>1, <1>2
<1>5. ASSUME NEW k \in Load
      PROVE  Cardinality(rest \cup {k}) <= MaxLoads
  <2>1. Cardinality(rest \cup {k}) \in Nat
    BY <1>3, FS_CardinalityType
  <2> QED BY <1>1, <1>3, <2>1
<1> QED BY <1>1, <1>2, <1>3, <1>4, <1>5 DEF LoadsOK

\* A socket that is not subscribed has nothing to receive.
LEMMA SockFact ==
    ASSUME NEW state \in {"connecting", "accepted", "open", "closing"}, NEW t \in TokenOrNone
    PROVE  /\ Sock(state, t) \in SockRecord /\ Sock(state, t).state = state
           /\ Sock(state, t).queue = <<>> /\ ~Sock(state, t).subscribed
BY DEF Sock, SockRecord

\* The server's step keeps what the types say, and so on for each action.
LEMMA TypesKept == TypeOK /\ LineInv' /\ [Next]_vars => TypeOK'
<1> SUFFICES ASSUME TypeOK, LineInv', [Next]_vars
             PROVE  ServerOK' /\ SocksOK' /\ LoadsOK' /\ TabOK'
  BY DEF TypeOK
<1>0. /\ LineInv /\ ServerOK /\ SocksOK /\ LoadsOK /\ TabOK
      /\ Free(Lines) \in Slot \ Lines /\ Free(timers) \in Slot \ timers
      /\ Disturbed \subseteq Load /\ IsFiniteSet(Disturbed)
      /\ Cardinality(Disturbed) <= Cardinality(loads)
      /\ PerPage \in Nat \ {0} /\ Capacity \in Nat \ {0} /\ MaxShows \in Nat
      /\ MaxTroubles \in Nat /\ MaxLoads \in Nat
  BY FreeFact, DisturbedFact, WebAssumption DEF TypeOK
<1>1. ASSUME UNCHANGED loads PROVE LoadsOK'
  BY <1>0, <1>1 DEF LoadsOK
<1>2. ASSUME loads' = Disturbed PROVE LoadsOK'
  <2>1. Cardinality(Disturbed) \in Nat /\ Cardinality(loads) \in Nat
    BY <1>0, FS_CardinalityType DEF LoadsOK
  <2> QED BY <1>0, <1>2, <2>1 DEF LoadsOK
<1>3. ASSUME UNCHANGED socks PROVE SocksOK'
  BY <1>0, <1>3 DEF SocksOK, Lines
<1>4. ASSUME UNCHANGED server, password' = password PROVE ServerOK'
  BY <1>0, <1>4 DEF ServerOK, server
<1>5. ASSUME NEW t \in TokenOrNone, Connected(t) PROVE SocksOK' /\ ws' \in {0} \cup Slot
  <2> DEFINE i == Free(Lines)
             new == Sock("connecting", t)
  <2>1. socks' = [j \in Lines \cup {i} |-> IF j = i THEN new ELSE socks[j]]
    BY <1>5 DEF Connected, Lines
  <2>2. /\ new \in SockRecord /\ new.queue = <<>> /\ ~new.subscribed
        /\ new.state = "connecting" /\ Len(<<>>) = 0
    BY SockFact
  <2>3. Lines' = Lines \cup {i}
    BY <2>1 DEF Lines
  <2> HIDE DEF i, new
  <2>4. SocksOK'
    BY <1>0, <2>1, <2>2, <2>3 DEF SocksOK
  <2>5. ws' = i
    BY <1>5 DEF Connected, i, Lines
  <2> QED BY <1>0, <2>4, <2>5 DEF i
<1>6. ASSUME NEW closed, socks' = Closing(closed) PROVE SocksOK'
  <2> DEFINE new == Sock("closing", 0)
  <2>1. socks' = [j \in Lines |-> IF j \in closed THEN new ELSE socks[j]]
    BY <1>6 DEF Closing, Lines
  <2>2. new \in SockRecord /\ new.queue = <<>> /\ ~new.subscribed /\ Len(<<>>) = 0
    BY SockFact DEF TokenOrNone
  <2>3. Lines' = Lines
    BY <2>1 DEF Lines
  <2> HIDE DEF new
  <2> QED BY <1>0, <2>1, <2>2, <2>3 DEF SocksOK
<1>7. ASSUME NEW t \in TokenOrNone, ShowMain(t), issued' \in 0..(shows + 2),
             authRequired' \in BOOLEAN
      PROVE  SocksOK' /\ LoadsOK' /\ TabOK'
  <2>1. view.page \in Nat \ {0} /\ Requested(view.page, t) /\ Cardinality(loads) < MaxLoads
    BY <1>0, <1>7 DEF ShowMain, TabOK
  <2>2. LoadsOK'
    BY <1>0, <2>1, RequestedFact
  <2>3. SocksOK' /\ ws' \in {0} \cup Slot
    BY <1>5, <1>7 DEF ShowMain
  <2>4. shows' = shows + 1 /\ shows \in Nat
    BY <1>0, <1>7 DEF ShowMain, LineInv
  <2>5. issued' \in 0..(shows' + 1)
    BY <1>7, <2>4
  <2> QED BY <1>0, <1>7, <2>2, <2>3, <2>5 DEF ShowMain, TabOK
<1>11. CASE Store
  BY <1>0, <1>2, <1>3, <1>11 DEF Store, ServerOK, TabOK, tab, lines, bounds
<1>12. CASE Publish
  <2>1. sent \in Nat /\ stored \in Nat /\ sent + 1 <= stored /\ ServerOK'
    BY <1>0, <1>12 DEF Publish, ServerOK
  <2>2. LoadsOK'
    BY <1>2, <1>12 DEF Publish
  <2>3. TabOK'
    <3>1. exact' \in {exact, Unknown} /\ Unknown \in [on : BOOLEAN, upto : Nat]
      BY <1>12 DEF Publish, Unknown
    <3> QED BY <1>0, <1>12, <3>1 DEF Publish, TabOK, tab, bounds
  <2>4. SocksOK'
    <3>1. /\ Lines' = Lines
          /\ socks' = [i \in Lines |->
                 IF socks[i].subscribed
                 THEN [socks[i] EXCEPT !.queue = Kept(Append(socks[i].queue, sent + 1))]
                 ELSE socks[i]]
      BY <1>12 DEF Publish, Lines
    <3>2. ASSUME NEW i \in Lines
          PROVE  /\ Kept(Append(socks[i].queue, sent + 1)) \in Seq(Nat)
                 /\ Len(Kept(Append(socks[i].queue, sent + 1))) <= Capacity
      <4>1. socks[i].queue \in Seq(Nat) /\ sent + 1 \in Nat
        BY <1>0, <2>1 DEF SocksOK, SockRecord
      <4> QED BY <4>1, KeptFact
    <3>3. ASSUME NEW i \in Lines
          PROVE  /\ socks'[i] \in SockRecord /\ Len(socks'[i].queue) <= Capacity
                 /\ socks'[i].state \in {"connecting", "closing"} => ~socks'[i].subscribed
                 /\ ~socks'[i].subscribed => socks'[i].queue = <<>>
      <4>1. CASE socks[i].subscribed
        <5>1. socks'[i] = [socks[i] EXCEPT !.queue = Kept(Append(socks[i].queue, sent + 1))]
          BY <3>1, <4>1
        <5>2. socks[i] \in SockRecord /\ socks[i].state \notin {"connecting", "closing"}
          BY <1>0, <4>1 DEF SocksOK
        <5> QED BY <3>2, <4>1, <5>1, <5>2 DEF SockRecord
      <4>2. CASE ~socks[i].subscribed
        BY <1>0, <3>1, <4>2 DEF SocksOK
      <4> QED BY <4>1, <4>2
    <3>4. DOMAIN socks' = Lines /\ socks' = [i \in Lines |-> socks'[i]]
      BY <3>1
    <3> QED BY <3>1, <3>3, <3>4 DEF SocksOK
  <2> QED BY <2>1, <2>2, <2>3, <2>4
<1>13. ASSUME NEW t \in Token, Expire(t) PROVE ServerOK' /\ SocksOK' /\ LoadsOK' /\ TabOK'
  BY <1>0, <1>1, <1>3, <1>13 DEF Expire, Trouble, ServerOK, TabOK, tab, lines
<1>14. CASE Cleanup
  BY <1>0, <1>1, <1>3, <1>14 DEF Cleanup, ServerOK, TabOK, tab, lines, bounds
<1>15. CASE Die
  <2>1. ServerOK'
    <3>1. DOMAIN tokens' = {}
      BY <1>15 DEF Die
    <3>2. up' = FALSE /\ sent' = stored /\ stored' = stored /\ password' = password
      BY <1>15 DEF Die
    <3>3. stored \in Nat /\ password \in BOOLEAN
      BY <1>0 DEF ServerOK
    <3>4. up' \in BOOLEAN /\ password' \in BOOLEAN
      BY <3>2, <3>3, Zenon
    <3>5. sent' <= stored' /\ sent' \in Nat /\ stored' \in Nat
      BY <3>2, <3>3
    <3>6. DOMAIN tokens' \subseteq Token /\ \A t \in DOMAIN tokens' : tokens'[t] \in {"fresh", "expired"}
      BY <3>1
    <3> QED BY <3>4, <3>5, <3>6 DEF ServerOK
  <2>2. LoadsOK' /\ TabOK'
    <3>1. Unknown \in [on : BOOLEAN, upto : Nat]
      BY DEF Unknown
    <3> QED BY <1>0, <1>1, <1>15, <3>1 DEF Die, TabOK, tab, Trouble
  <2>3. SocksOK'
    <3>1. socks' = Closing({i \in DOMAIN socks : socks[i].state # "connecting"})
      BY <1>15 DEF Die, Closing
    <3> QED BY <1>6, <3>1
  <2> QED BY <2>1, <2>2, <2>3
<1>16. CASE Start
  BY <1>0, <1>1, <1>3, <1>16 DEF Start, ServerOK, TabOK, tab, lines, bounds
<1>16a. CASE Reconfigure
  <2>1. ServerOK'
    <3>1. password' \in BOOLEAN
      BY <1>16a, Zenon DEF Reconfigure
    <3> QED BY <1>0, <1>16a, <3>1 DEF Reconfigure, ServerOK, server
  <2> QED BY <1>0, <1>1, <1>3, <1>16a, <2>1 DEF Reconfigure, Trouble, TabOK, tab, lines
<1>17. ASSUME NEW i \in Slot, i \in DOMAIN socks, Upgrade(i)
       PROVE  ServerOK' /\ SocksOK' /\ LoadsOK' /\ TabOK'
  <2> DEFINE new == Sock("accepted", 0)
  <2>1. socks' = [socks EXCEPT ![i] = new] /\ Lines' = Lines /\ i \in Lines
    BY <1>17 DEF Upgrade, Lines
  <2>2. /\ new \in SockRecord /\ new.queue = <<>> /\ ~new.subscribed
        /\ new.state = "accepted" /\ Len(<<>>) = 0
    BY SockFact DEF TokenOrNone
  <2> HIDE DEF new
  <2>3. SocksOK'
    BY <1>0, <2>1, <2>2 DEF SocksOK
  <2>4. Unknown \in [on : BOOLEAN, upto : Nat]
    BY DEF Unknown
  <2> QED BY <1>0, <1>1, <1>4, <1>17, <2>3, <2>4 DEF Upgrade, TabOK, tab, bounds
<1>17a. ASSUME NEW i \in Slot, i \in DOMAIN socks, Subscribe(i)
        PROVE  ServerOK' /\ SocksOK' /\ LoadsOK' /\ TabOK'
  <2>1. socks' = [socks EXCEPT ![i].subscribed = TRUE] /\ Lines' = Lines /\ i \in Lines
        /\ socks[i].state \in {"accepted", "open"}
    BY <1>17a DEF Subscribe, Lines
  <2>2. SocksOK'
    <3>1. /\ socks'[i] \in SockRecord /\ socks'[i].queue = socks[i].queue
          /\ socks'[i].state = socks[i].state /\ socks'[i].subscribed = TRUE
          /\ \A j \in Lines : j # i => socks'[j] = socks[j]
          /\ socks' = [j \in Lines |-> socks'[j]]
      BY <1>0, <2>1 DEF SocksOK, SockRecord
    <3> QED BY <1>0, <2>1, <3>1 DEF SocksOK
  <2> QED BY <1>0, <1>1, <1>4, <1>17a, <2>2 DEF Subscribe, TabOK, tab, bounds
<1>18. ASSUME NEW i \in Slot, i \in DOMAIN socks, OnOpen(i)
       PROVE  ServerOK' /\ SocksOK' /\ LoadsOK' /\ TabOK'
  <2>1. socks' = [socks EXCEPT ![i].state = "open"] /\ Lines' = Lines /\ i \in Lines
    BY <1>18 DEF OnOpen, Lines
  <2>2. SocksOK'
    <3>1. /\ socks'[i] \in SockRecord /\ socks'[i].queue = socks[i].queue
          /\ socks'[i].state = "open" /\ socks'[i].subscribed = socks[i].subscribed
          /\ \A j \in Lines : j # i => socks'[j] = socks[j]
          /\ socks' = [j \in Lines |-> socks'[j]]
      BY <1>0, <2>1 DEF SocksOK, SockRecord
    <3> QED BY <1>0, <2>1, <3>1 DEF SocksOK
  <2> QED BY <1>0, <1>1, <1>4, <1>18, <2>2 DEF OnOpen, TabOK, tab, bounds
<1>19. ASSUME NEW i \in Slot, i \in DOMAIN socks, Refused(i) \/ Breaks(i)
       PROVE  ServerOK' /\ SocksOK' /\ LoadsOK' /\ TabOK'
  <2>1. SocksOK'
    BY <1>6, <1>19 DEF Refused, Breaks, OnError
  <2>2. Unknown \in [on : BOOLEAN, upto : Nat]
    BY DEF Unknown
  <2> QED BY <1>0, <1>1, <1>4, <1>19, <2>1, <2>2 DEF Refused, Breaks, OnError, Trouble, TabOK, tab
<1>20. ASSUME NEW i \in Slot, i \in DOMAIN socks, OnClose(i)
       PROVE  ServerOK' /\ SocksOK' /\ LoadsOK' /\ TabOK'
  <2>1. socks' = [j \in Lines \ {i} |-> socks[j]] /\ Lines' = Lines \ {i}
    BY <1>20 DEF OnClose, Lines
  <2>2. SocksOK'
    BY <1>0, <2>1 DEF SocksOK
  <2>3. timer' \in {0} \cup Slot
    BY <1>0, <1>20 DEF OnClose
  <2> QED BY <1>0, <1>1, <1>4, <1>20, <2>2, <2>3 DEF OnClose, TabOK, tab, bounds
<1>21. ASSUME NEW i \in Slot, i \in DOMAIN socks, OnMessage(i)
       PROVE  ServerOK' /\ SocksOK' /\ LoadsOK' /\ TabOK'
  <2>1. /\ socks' = [socks EXCEPT ![i].queue = Tail(socks[i].queue)]
        /\ Lines' = Lines /\ i \in Lines
    BY <1>21 DEF OnMessage, Lines
  <2>2. /\ Tail(socks[i].queue) \in Seq(Nat) /\ Head(socks[i].queue) \in Nat
        /\ Len(Tail(socks[i].queue)) <= Capacity
    <3>1. socks[i].queue \in Seq(Nat) /\ socks[i].queue # <<>> /\ Len(socks[i].queue) <= Capacity
      BY <1>0, <1>21 DEF OnMessage, SocksOK, SockRecord, Lines
    <3>2. Len(socks[i].queue) \in Nat
      BY <3>1, LenProperties
    <3> QED BY <1>0, <3>1, <3>2, HeadTailProperties
  <2>3. SocksOK'
    <3>1. /\ socks'[i] \in SockRecord /\ socks'[i].queue = Tail(socks[i].queue)
          /\ socks'[i].state = socks[i].state /\ socks'[i].subscribed = socks[i].subscribed
          /\ \A j \in Lines : j # i => socks'[j] = socks[j]
          /\ socks' = [j \in Lines |-> socks'[j]]
      BY <1>0, <2>1, <2>2 DEF SocksOK, SockRecord
    <3>2. socks[i].subscribed
      BY <1>0, <1>21, <2>1 DEF OnMessage, SocksOK
    <3> QED BY <1>0, <2>1, <2>2, <3>1, <3>2, <1>21 DEF OnMessage, SocksOK
  <2>4. view' \in [events : SUBSET Nat, live : Seq(Nat), page : Nat \ {0}, pages : Nat \ {0}]
    <3> DEFINE live == <<Head(socks[i].queue)>> \o view.live
               shown == SubSeq(live, 1, Min({Len(live), PerPage}))
    <3>1. view.live \in Seq(Nat)
      BY <1>0 DEF TabOK
    <3>2. shown \in Seq(Nat)
      BY <2>2, <3>1, ShownFact
    <3>3. view' = [view EXCEPT !.live = shown]
      BY <1>21 DEF OnMessage
    <3> HIDE DEF shown
    <3> QED BY <1>0, <3>2, <3>3 DEF TabOK
  <2> QED BY <1>0, <1>2, <1>4, <1>21, <2>3, <2>4 DEF OnMessage, TabOK, tab, bounds
<1>22. ASSUME NEW i \in Slot, TimerFires(i)
       PROVE  ServerOK' /\ SocksOK' /\ LoadsOK' /\ TabOK'
  <2>1. SocksOK' /\ ws' \in {0} \cup Slot
    BY <1>0, <1>5, <1>22 DEF TimerFires, TabOK, tab
  <2>2. timer' \in {0} \cup Slot
    BY <1>0, <1>22 DEF TimerFires, TabOK, tab
  <2> QED BY <1>0, <1>1, <1>4, <1>22, <2>1, <2>2 DEF TimerFires, TabOK, tab, bounds
<1>23. ASSUME NEW p \in 1..(MaxRows + 1), LoadHistory(p)
       PROVE  ServerOK' /\ SocksOK' /\ LoadsOK' /\ TabOK'
  <2>1. p \in Nat \ {0} /\ token \in TokenOrNone /\ Requested(p, token)
        /\ Cardinality(loads) < MaxLoads
    BY <1>0, <1>23, WebAssumption DEF LoadHistory, TabOK, tab
  <2>2. LoadsOK'
    BY <1>0, <2>1, RequestedFact
  <2> QED BY <1>0, <1>3, <1>4, <1>23, <2>2 DEF LoadHistory, TabOK, tab, lines, bounds
<1>24. ASSUME NEW l \in loads, Answer(l)
       PROVE  ServerOK' /\ SocksOK' /\ LoadsOK' /\ TabOK'
  <2>1. l \in Load /\ stored \in Nat
    BY <1>0 DEF LoadsOK, ServerOK
  <2>2. /\ [l EXCEPT !.step = "answered", !.upto = stored, !.token = 0] \in Load
        /\ [l EXCEPT !.step = "refused", !.token = 0, !.alone = FALSE] \in Load
    BY <2>1 DEF Load, TokenOrNone
  <2>3. LoadsOK'
    BY <1>0, <1>24, <2>2, LoadGone DEF Answer
  <2> QED BY <1>0, <1>3, <1>4, <1>24, <2>3 DEF Answer, TabOK, tab, lines, bounds
<1>25. ASSUME NEW l \in loads, Shown(l)
       PROVE  ServerOK' /\ SocksOK' /\ LoadsOK' /\ TabOK'
  <2>1. l \in Load
    BY <1>0 DEF LoadsOK
  <2>2. LoadsOK'
    BY <1>0, <1>25, LoadGone DEF Shown
  <2>3. /\ PageOf(l.upto, l.page) \in SUBSET Nat /\ TotalPages(l.upto) \in Nat \ {0}
        /\ <<>> \in Seq(Nat)
    BY <2>1, PageOfFact DEF Load
  <2>5. view' \in [events : SUBSET Nat, live : Seq(Nat), page : Nat \ {0}, pages : Nat \ {0}]
    BY <1>25, <2>1, <2>3 DEF Shown, Load
  <2>6. exact' \in [on : BOOLEAN, upto : Nat]
    BY <1>25, <2>1 DEF Shown, Load, Unknown
  <2> QED BY <1>0, <1>3, <1>4, <1>25, <2>2, <2>5, <2>6 DEF Shown, TabOK, tab, lines, bounds
<1>26. ASSUME NEW l \in loads, Ignored(l)
       PROVE  ServerOK' /\ SocksOK' /\ LoadsOK' /\ TabOK'
  <2>1. LoadsOK'
    BY <1>0, <1>26, LoadGone DEF Ignored
  <2> QED BY <1>0, <1>3, <1>4, <1>26, <2>1 DEF Ignored, Trouble, TabOK, tab, lines
<1>27. ASSUME ShowLogin, token' \in TokenOrNone, authRequired' \in BOOLEAN,
              UNCHANGED <<server, password>>
       PROVE  ServerOK' /\ SocksOK' /\ LoadsOK' /\ TabOK'
  BY <1>0, <1>1, <1>3, <1>4, <1>27 DEF ShowLogin, TabOK, lines, bounds
<1>28. issued \in 0..(shows + 2) /\ token \in TokenOrNone /\ 0 \in TokenOrNone
       /\ shows \in Nat /\ issued \in Nat /\ authRequired \in BOOLEAN
  BY <1>0 DEF TabOK, LineInv, TokenOrNone
<1>29. CASE AuthStatus
  <2>0. authRequired' \in BOOLEAN
    BY <1>29, Zenon DEF AuthStatus
  <2>1. CASE ShowMain(0) /\ UNCHANGED issued
    BY <1>4, <1>7, <1>28, <1>29, <2>0, <2>1 DEF AuthStatus
  <2>2. CASE ShowLogin /\ UNCHANGED token
    BY <1>27, <1>28, <1>29, <2>0, <2>2 DEF AuthStatus
  <2>3. CASE page' = "verify" /\ UNCHANGED <<token, lines, loads, view, bounds, exact>>
    BY <1>0, <1>1, <1>3, <1>4, <1>29, <2>0, <2>3 DEF AuthStatus, TabOK, lines, bounds
  <2> QED BY <1>29, <2>1, <2>2, <2>3 DEF AuthStatus
<1>30. CASE Verify
  <2>1. CASE ShowMain(token) /\ UNCHANGED issued
    BY <1>4, <1>7, <1>28, <1>30, <2>1 DEF Verify
  <2>2. CASE ShowLogin /\ (token' = 0 \/ UNCHANGED token)
    BY <1>27, <1>28, <1>30, <2>2 DEF Verify
  <2> QED BY <1>30, <2>1, <2>2 DEF Verify
<1>31. CASE Login
  <2>1. CASE password
    <3>1. issued' = issued + 1 /\ ShowMain(issued + 1) /\ shows < MaxShows
      BY <1>31, <2>1 DEF Login, ShowMain
    <3>2. issued + 1 \in Token /\ issued' \in 0..(shows + 2)
      BY <1>0, <1>28, <3>1 DEF TabOK, Token
    <3>3. SocksOK' /\ LoadsOK' /\ TabOK'
      <4>1. authRequired' \in BOOLEAN /\ issued + 1 \in TokenOrNone
        BY <1>28, <1>31, <3>2 DEF Login, TokenOrNone
      <4> QED BY <1>7, <3>1, <3>2, <4>1
    <3>4. ServerOK'
      BY <1>0, <1>31, <2>1, <3>2 DEF Login, ServerOK
    <3> QED BY <3>3, <3>4
  <2>2. CASE ~password
    BY <1>4, <1>7, <1>28, <1>31, <2>2 DEF Login, server
  <2> QED BY <2>1, <2>2
<1>32. CASE RefreshRefused
  BY <1>27, <1>28, <1>32 DEF RefreshRefused
<1>33. CASE Logout
  <2>1. SocksOK'
    BY <1>6, <1>33 DEF Logout
  <2>2. Unknown \in [on : BOOLEAN, upto : Nat]
    BY DEF Unknown
  <2> QED BY <1>0, <1>1, <1>4, <1>28, <1>33, <2>1, <2>2 DEF Logout, Trouble, TabOK
<1>34. CASE UNCHANGED vars
  BY <1>0, <1>1, <1>3, <1>4, <1>34 DEF vars, TabOK, tab, lines, bounds
<1> QED
  BY <1>11, <1>12, <1>13, <1>14, <1>15, <1>16, <1>16a, <1>17, <1>17a, <1>18, <1>19, <1>20, <1>21, <1>22,
     <1>23, <1>24, <1>25, <1>26, <1>29, <1>30, <1>31, <1>32, <1>33, <1>34
     DEF Next, Socket, Settles

\* Every variable has its type.
THEOREM ClientTypeOK == Spec => []TypeOK
<1>1. Init => TypeOK
  <2> SUFFICES ASSUME Init PROVE LineInv /\ ServerOK /\ SocksOK /\ LoadsOK /\ TabOK
    BY DEF TypeOK
  <2>1. Lines = {} /\ timers = {} /\ shows = 0 /\ MaxShows \in Nat /\ MaxTroubles \in Nat
        /\ MaxLoads \in Nat
    BY WebAssumption DEF Init, Lines
  <2>2. LineInv
    BY <2>1, FS_EmptySet DEF LineInv
  <2>3. token \in TokenOrNone /\ issued \in 0..(shows + 1)
    BY <2>1 DEF Init, TokenOrNone, Token
  <2>4. ServerOK
    <3>1. FirstRows \in Nat
      BY WebAssumption
    <3> QED BY <2>1, <3>1 DEF Init, ServerOK, Token
  <2>5. SocksOK
    BY <2>1 DEF Init, SocksOK, Lines
  <2>6. LoadsOK
    BY <2>1, FS_EmptySet DEF Init, LoadsOK
  <2>7. TabOK
    <3>1. view \in [events : SUBSET Nat, live : Seq(Nat), page : Nat \ {0}, pages : Nat \ {0}]
      <4>1. {} \in SUBSET Nat /\ <<>> \in Seq(Nat) /\ 1 \in Nat \ {0}
        OBVIOUS
      <4> QED BY <4>1 DEF Init, NewView
    <3>2. exact \in [on : BOOLEAN, upto : Nat]
      BY DEF Init, Unknown
    <3>3. authRequired \in BOOLEAN
      BY DEF Init
    <3> QED BY <2>1, <2>3, <3>1, <3>2, <3>3 DEF Init, TabOK
  <2> QED BY <2>2, <2>4, <2>5, <2>6, <2>7
<1> QED BY <1>1, TypesKept, LineInvAlways, PTL DEF Spec

-----------------------------------------------------------------------------
(* What a step does to the rows on their way to the tab *)

\* Queues stay or are dropped, live events stay or make way.
QuietRows ==
  /\ stored' = stored /\ sent' >= sent /\ (sent = stored => sent' = stored)
  /\ \A i \in Lines' : \/ socks'[i].queue = <<>>
                       \/ i \in Lines /\ socks'[i].queue = socks[i].queue
  /\ view'.live \in {view.live, <<>>}
  /\ shows' >= shows

\* A load that is alone was so before, or was answered in this step, or is asked
\* when no row is on its way.
QuietLoads ==
  \A l \in loads' : l.alone =>
     \/ l \in loads
     \/ l.upto = stored /\ \E k \in loads : k.alone
     \/ /\ l.step = "asked" /\ sent = stored
        /\ \A i \in Lines : socks[i].queue = <<>>

\* As long as the view is followed, the sockets that connect or are open and
\* subscribed stay as they are, and new ones connect.
Steady(sock) == sock.state = "connecting" \/ (sock.state = "open" /\ sock.subscribed)
QuietView ==
  exact'.on =>
    /\ exact' = exact /\ view' = view /\ sent' = sent
    /\ \A i \in Lines : Steady(socks[i]) =>
                          i \in Lines' /\ socks'[i] = socks[i]
    /\ \A i \in Lines' \ Lines : socks'[i].state = "connecting"

Quiet == QuietRows /\ QuietLoads /\ (QuietView \/ \E l \in loads : Shown(l))

\* Only Store, Publish and OnMessage move rows; the others leave them alone.
LEMMA RowSteps ==
    TypeOK /\ [Next]_vars =>
       Store \/ Publish \/ (\E i \in Lines : OnMessage(i)) \/ Quiet
<1> SUFFICES ASSUME TypeOK, [Next]_vars, ~Store, ~Publish, ~ \E i \in Lines : OnMessage(i)
             PROVE  Quiet
  OBVIOUS
<1> USE DEF Lines
<1>0. /\ LineInv /\ ServerOK /\ SocksOK /\ LoadsOK /\ TabOK
      /\ Free(DOMAIN socks) \in Slot \ DOMAIN socks
      /\ sent \in Nat /\ stored \in Nat /\ shows \in Nat
      /\ \A i \in DOMAIN socks : ~socks[i].subscribed => socks[i].queue = <<>>
      /\ \A i \in DOMAIN socks : socks[i] \in SockRecord
  BY FreeFact DEF TypeOK, LineInv, ServerOK, SocksOK
<1>1. ASSUME UNCHANGED <<stored, sent, view, shows, exact>>, UNCHANGED socks, QuietLoads
      PROVE  Quiet
  BY <1>0, <1>1 DEF Quiet, QuietRows, QuietView, Steady
<1>2. ASSUME loads' \subseteq loads PROVE QuietLoads
  BY <1>2 DEF QuietLoads
<1>3. ASSUME NEW t, Connected(t), UNCHANGED <<stored, sent, view, exact>>, shows' >= shows, QuietLoads
      PROVE  Quiet
  <2> DEFINE i == Free(DOMAIN socks)
             new == Sock("connecting", t)
  <2>1. socks' = [j \in DOMAIN socks \cup {i} |-> IF j = i THEN new ELSE socks[j]]
    BY <1>3 DEF Connected
  <2>2. i \notin DOMAIN socks /\ new.queue = <<>> /\ new.state = "connecting"
    BY <1>0 DEF Sock
  <2> HIDE DEF i, new
  <2>3. /\ DOMAIN socks' = DOMAIN socks \cup {i} /\ socks'[i] = new
        /\ \A j \in DOMAIN socks : socks'[j] = socks[j]
    BY <2>1, <2>2
  <2>4. QuietRows
    BY <1>0, <1>3, <2>2, <2>3 DEF QuietRows
  <2>5. QuietView
    BY <1>3, <2>2, <2>3 DEF QuietView
  <2> QED BY <1>3, <2>4, <2>5 DEF Quiet
<1>4. ASSUME NEW p, NEW t, Requested(p, t) PROVE QuietLoads
  <2> SUFFICES ASSUME NEW l \in loads', l.alone
               PROVE  /\ l.step = "asked" /\ sent = stored
                      /\ \A i \in DOMAIN socks : socks[i].queue = <<>>
    BY DEF QuietLoads
  <2>1. \A k \in Disturbed : k.alone = FALSE
    BY <1>0, DisturbedFact
  <2>2. l \notin Disturbed
    BY <2>1
  <2> QED BY <1>4, <2>2 DEF Requested
<1>5. ASSUME NEW t, ShowMain(t), UNCHANGED <<stored, sent>> PROVE Quiet
  <2>1. shows' >= shows
    BY <1>0, <1>5 DEF ShowMain
  <2> QED BY <1>3, <1>4, <1>5, <2>1 DEF ShowMain
<1>6. ASSUME NEW closed, socks' = Closing(closed), exact' = Unknown, loads' = loads,
             stored' = stored, sent' >= sent, sent = stored => sent' = stored,
             view' = view, shows' = shows
      PROVE  Quiet
  <2>1. /\ DOMAIN socks' = DOMAIN socks
        /\ \A i \in DOMAIN socks : socks'[i].queue \in {<<>>, socks[i].queue}
    BY <1>6 DEF Closing, Sock
  <2>2. ~ exact'.on
    BY <1>6 DEF Unknown
  <2> QED BY <1>0, <1>2, <1>6, <2>1, <2>2 DEF Quiet, QuietRows, QuietView
<1>7. ASSUME NEW t \in Token, Expire(t) PROVE Quiet
  BY <1>1, <1>2, <1>7 DEF Expire, lines
<1>8. CASE Cleanup
  BY <1>1, <1>2, <1>8 DEF Cleanup, lines, bounds
<1>9. CASE Die
  <2>1. socks' = Closing({i \in DOMAIN socks : socks[i].state # "connecting"})
    BY <1>9 DEF Die, Closing
  <2>2. sent' >= sent /\ sent' = stored
    BY <1>0, <1>9 DEF Die, ServerOK
  <2> QED BY <1>6, <1>9, <2>1, <2>2 DEF Die
<1>10. CASE Start
  BY <1>1, <1>2, <1>10 DEF Start, lines, bounds
<1>10a. CASE Reconfigure
  BY <1>1, <1>2, <1>10a DEF Reconfigure, server, lines
<1>11. ASSUME NEW i \in DOMAIN socks, Upgrade(i) PROVE Quiet
  <2>1. /\ DOMAIN socks' = DOMAIN socks /\ socks'[i].queue = <<>>
        /\ \A j \in DOMAIN socks : j # i => socks'[j] = socks[j]
    BY <1>11 DEF Upgrade, Sock
  <2>2. ~ exact'.on
    BY <1>11 DEF Upgrade, Unknown
  <2> QED BY <1>0, <1>2, <1>11, <2>1, <2>2
          DEF Upgrade, Quiet, QuietRows, QuietView, server, bounds
<1>11a. ASSUME NEW i \in DOMAIN socks, Subscribe(i) PROVE Quiet
  <2>1. /\ DOMAIN socks' = DOMAIN socks /\ socks'[i].queue = socks[i].queue
        /\ \A j \in DOMAIN socks : j # i => socks'[j] = socks[j]
        /\ ~Steady(socks[i])
    BY <1>0, <1>11a DEF Subscribe, SockRecord, Steady
  <2> QED BY <1>0, <1>2, <1>11a, <2>1 DEF Subscribe, Quiet, QuietRows, QuietView, server, bounds
<1>12. ASSUME NEW i \in DOMAIN socks, OnOpen(i) PROVE Quiet
  <2>1. /\ DOMAIN socks' = DOMAIN socks /\ socks'[i].queue = socks[i].queue
        /\ \A j \in DOMAIN socks : j # i => socks'[j] = socks[j]
        /\ ~Steady(socks[i])
    BY <1>0, <1>12 DEF OnOpen, SockRecord, Steady
  <2> QED BY <1>0, <1>2, <1>12, <2>1 DEF OnOpen, Quiet, QuietRows, QuietView, server, bounds
<1>13. ASSUME NEW i \in DOMAIN socks, Refused(i) \/ Breaks(i) PROVE Quiet
  BY <1>0, <1>6, <1>13 DEF Refused, Breaks, OnError, server
<1>14. ASSUME NEW i \in DOMAIN socks, OnClose(i) PROVE Quiet
  <2>1. /\ DOMAIN socks' = DOMAIN socks \ {i}
        /\ \A j \in DOMAIN socks' : socks'[j] = socks[j]
        /\ ~Steady(socks[i])
    BY <1>14 DEF OnClose, Steady
  <2> QED BY <1>0, <1>2, <1>14, <2>1 DEF OnClose, Quiet, QuietRows, QuietView, server, bounds
<1>15. ASSUME NEW i \in Slot, TimerFires(i) PROVE Quiet
  BY <1>0, <1>2, <1>3, <1>15 DEF TimerFires, server, bounds
<1>16. ASSUME NEW p \in 1..(MaxRows + 1), LoadHistory(p) PROVE Quiet
  BY <1>1, <1>4, <1>16 DEF LoadHistory, server, lines, bounds
<1>17. ASSUME NEW l \in loads, Answer(l) PROVE Quiet
  <2>1. QuietLoads
    <3> SUFFICES ASSUME NEW k \in loads', k.alone, k \notin loads
                 PROVE  k.upto = stored /\ l.alone
      BY DEF QuietLoads
    <3>1. l \in Load
      BY <1>0 DEF LoadsOK
    <3>2. \/ k = [l EXCEPT !.step = "answered", !.upto = stored, !.token = 0]
          \/ k = [l EXCEPT !.step = "refused", !.token = 0, !.alone = FALSE]
      BY <1>17 DEF Answer
    <3> QED BY <3>1, <3>2 DEF Load
  <2> QED BY <1>1, <1>17, <2>1 DEF Answer, server, lines, bounds
<1>18. ASSUME NEW l \in loads, Shown(l) PROVE Quiet
  <2>1. view'.live = <<>>
    BY <1>18 DEF Shown
  <2>2. QuietRows /\ QuietLoads
    BY <1>0, <1>2, <1>18, <2>1 DEF Shown, QuietRows, server, lines, bounds
  <2> QED BY <1>18, <2>2 DEF Quiet
<1>19. ASSUME NEW l \in loads, Ignored(l) PROVE Quiet
  BY <1>1, <1>2, <1>19 DEF Ignored, server, lines
<1>20. CASE AuthStatus
  <2>1. CASE ShowMain(0)
    BY <1>5, <1>20, <2>1 DEF AuthStatus, server
  <2>2. CASE ~ShowMain(0)
    BY <1>1, <1>2, <1>20, <2>2 DEF AuthStatus, ShowLogin, server, lines, bounds
  <2> QED BY <2>1, <2>2
<1>21. CASE Verify
  <2>1. CASE ShowMain(token)
    BY <1>5, <1>21, <2>1 DEF Verify, server
  <2>2. CASE ~ShowMain(token)
    BY <1>1, <1>2, <1>21, <2>2 DEF Verify, ShowLogin, server, lines, bounds
  <2> QED BY <2>1, <2>2
<1>22. CASE Login
  BY <1>5, <1>22 DEF Login
<1>23. CASE RefreshRefused
  BY <1>1, <1>2, <1>23 DEF RefreshRefused, ShowLogin, server, lines, bounds
<1>24. CASE Logout
  BY <1>0, <1>6, <1>24 DEF Logout, server
<1>25. CASE UNCHANGED vars
  BY <1>1, <1>2, <1>25 DEF vars, server, lines, bounds
<1> QED
  BY <1>7, <1>8, <1>9, <1>10, <1>10a, <1>11, <1>11a, <1>12, <1>13, <1>14, <1>15, <1>16,
     <1>17, <1>18, <1>19, <1>20, <1>21, <1>22, <1>23, <1>24, <1>25 DEF Next, Socket, Settles

\* A message moves the row at the head of a socket's queue to the live events.
LEMMA MessageFact ==
    ASSUME TypeOK, NEW i \in Lines, OnMessage(i)
    PROVE  /\ Lines' = Lines /\ socks[i].queue \in Seq(Nat) /\ socks[i].queue # <<>>
           /\ socks[i].state = "open" /\ socks'[i].state = "open"
           /\ socks'[i].subscribed = socks[i].subscribed
           /\ socks'[i].queue \in Seq(Nat)
           /\ Len(socks'[i].queue) = Len(socks[i].queue) - 1
           /\ \A k \in 1..Len(socks'[i].queue) : socks'[i].queue[k] = socks[i].queue[k + 1]
           /\ \A j \in Lines : j # i => socks'[j] = socks[j]
           /\ view'.live \in Seq(Nat)
           /\ Len(view'.live) = IF Len(view.live) + 1 <= PerPage THEN Len(view.live) + 1 ELSE PerPage
           /\ view'.live[1] = socks[i].queue[1]
           /\ \A k \in 2..Len(view'.live) : view'.live[k] = view.live[k - 1]
           /\ view'.events = view.events /\ view'.page = view.page
<1>1. /\ socks[i].queue \in Seq(Nat) /\ socks[i].queue # <<>> /\ socks[i] \in SockRecord
      /\ socks[i].state = "open" /\ socks \in [Lines -> SockRecord]
      /\ view.live \in Seq(Nat)
      /\ view \in [events : SUBSET Nat, live : Seq(Nat), page : Nat \ {0}, pages : Nat \ {0}]
  BY DEF OnMessage, TypeOK, SocksOK, SockRecord, TabOK
<1>2. socks' = [socks EXCEPT ![i].queue = Tail(socks[i].queue)]
  BY DEF OnMessage
<1>3. /\ Lines' = Lines /\ socks'[i].queue = Tail(socks[i].queue) /\ socks'[i].state = "open"
      /\ socks'[i].subscribed = socks[i].subscribed
      /\ \A j \in Lines : j # i => socks'[j] = socks[j]
  BY <1>1, <1>2 DEF Lines, SockRecord
<1>4. /\ Tail(socks[i].queue) \in Seq(Nat) /\ Len(Tail(socks[i].queue)) = Len(socks[i].queue) - 1
      /\ \A k \in 1..Len(Tail(socks[i].queue)) : Tail(socks[i].queue)[k] = socks[i].queue[k + 1]
      /\ Head(socks[i].queue) \in Nat
  BY <1>1, HeadTailProperties
<1>5. Head(socks[i].queue) = socks[i].queue[1]
  BY <1>1
<1> DEFINE all == <<Head(socks[i].queue)>> \o view.live
           shown == SubSeq(all, 1, Min({Len(all), PerPage}))
<1>6. /\ shown \in Seq(Nat)
      /\ Len(shown) = IF Len(view.live) + 1 <= PerPage THEN Len(view.live) + 1 ELSE PerPage
      /\ shown[1] = Head(socks[i].queue)
      /\ \A k \in 2..Len(shown) : shown[k] = view.live[k - 1]
  BY <1>1, <1>4, ShownFact
<1>7. view' = [view EXCEPT !.live = shown]
  BY DEF OnMessage
<1> HIDE DEF shown
<1>8. view'.live = shown /\ view'.events = view.events /\ view'.page = view.page
  BY <1>1, <1>7
<1> QED BY <1>1, <1>3, <1>4, <1>5, <1>6, <1>8

\* Publish adds the row that was just stored to the queue of each socket that
\* is subscribed, and drops the first ones if the channel is full.
LEMMA PublishFact ==
    ASSUME TypeOK, Publish, NEW i \in Lines
    PROVE  /\ Lines' = Lines /\ sent' = sent + 1
           /\ socks[i].queue \in Seq(Nat) /\ Len(socks[i].queue) <= Capacity
           /\ socks'[i].state = socks[i].state /\ socks'[i].subscribed = socks[i].subscribed
           /\ \/ socks'[i] = socks[i] /\ ~socks[i].subscribed
              \/ LET all == Append(socks[i].queue, sent + 1)
                     cut == IF Len(socks[i].queue) >= Capacity
                            THEN Len(socks[i].queue) + 1 - Capacity ELSE 0
                 IN  /\ all \in Seq(Nat) /\ Len(all) = Len(socks[i].queue) + 1
                     /\ \A k \in 1..Len(socks[i].queue) : all[k] = socks[i].queue[k]
                     /\ all[Len(all)] = sent + 1
                     /\ socks'[i].queue \in Seq(Nat)
                     /\ Len(socks'[i].queue) = Len(all) - cut
                     /\ \A k \in 1..Len(socks'[i].queue) : socks'[i].queue[k] = all[k + cut]
<1>1. /\ socks[i].queue \in Seq(Nat) /\ Len(socks[i].queue) <= Capacity /\ socks[i] \in SockRecord
      /\ sent \in Nat /\ sent + 1 \in Nat /\ Len(socks[i].queue) \in Nat
  BY LenProperties DEF TypeOK, SocksOK, SockRecord, ServerOK
<1>2. /\ Lines' = Lines /\ sent' = sent + 1
      /\ socks'[i] = IF socks[i].subscribed
                     THEN [socks[i] EXCEPT !.queue = Kept(Append(socks[i].queue, sent + 1))]
                     ELSE socks[i]
  BY DEF Publish, Lines
<1>3. CASE ~socks[i].subscribed
  BY <1>1, <1>2, <1>3
<1>4. CASE socks[i].subscribed
  <2> DEFINE queue == socks[i].queue
             all == Append(queue, sent + 1)
             cut == IF Len(queue) >= Capacity THEN Len(queue) + 1 - Capacity ELSE 0
  <2>1. /\ socks'[i].queue = Kept(all) /\ socks'[i].state = socks[i].state
        /\ socks'[i].subscribed = socks[i].subscribed
    BY <1>1, <1>2, <1>4 DEF SockRecord
  <2>2. /\ all \in Seq(Nat) /\ Len(all) = Len(queue) + 1
        /\ \A k \in 1..Len(queue) : all[k] = queue[k]
        /\ all[Len(queue) + 1] = sent + 1
    BY <1>1, AppendProperties
  <2>3. /\ Kept(all) \in Seq(Nat) /\ Len(Kept(all)) = Len(queue) + 1 - cut
        /\ \A k \in 1..Len(Kept(all)) : Kept(all)[k] = all[k + cut]
    BY <1>1, KeptFact
  <2> HIDE DEF all, cut
  <2>4. all[Len(all)] = sent + 1
    BY <2>2
  <2>5. /\ socks'[i].queue \in Seq(Nat)
        /\ Len(socks'[i].queue) = Len(all) - cut
        /\ \A k \in 1..Len(socks'[i].queue) : socks'[i].queue[k] = all[k + cut]
    <3>1. cut \in Nat /\ Len(queue) \in Nat
      BY <1>1, WebAssumption DEF cut
    <3>2. Len(Kept(all)) = Len(all) - cut
      BY <2>2, <2>3, <3>1
    <3> QED BY <2>1, <2>3, <3>2
  <2> QED BY <1>1, <1>2, <2>1, <2>2, <2>4, <2>5 DEF all, cut
<1> QED BY <1>3, <1>4

-----------------------------------------------------------------------------
(* The live events are in order *)

\* Until the page is shown a second time: what is shown was sent, what is on its
\* way is ascending, was sent and comes after what is shown.
OrderInv ==
  shows <= 1 =>
    /\ Descending(view.live)
    /\ \A k \in DOMAIN view.live : view.live[k] <= sent
    /\ \A i \in Lines : \A j \in DOMAIN socks[i].queue :
          /\ socks[i].queue[j] <= sent
          /\ \A k \in DOMAIN socks[i].queue : j < k => socks[i].queue[j] < socks[i].queue[k]
          /\ \A k \in DOMAIN view.live : view.live[k] < socks[i].queue[j]

LEMMA OrderKept == TypeOK /\ TypeOK' /\ OrderInv /\ [Next]_vars => OrderInv'
<1> SUFFICES ASSUME TypeOK, TypeOK', OrderInv, [Next]_vars, shows' <= 1
             PROVE  /\ Descending(view'.live)
                    /\ \A k \in DOMAIN view'.live : view'.live[k] <= sent'
                    /\ \A i \in Lines' : \A j \in DOMAIN socks'[i].queue :
                          /\ socks'[i].queue[j] <= sent'
                          /\ \A k \in DOMAIN socks'[i].queue :
                                j < k => socks'[i].queue[j] < socks'[i].queue[k]
                          /\ \A k \in DOMAIN view'.live : view'.live[k] < socks'[i].queue[j]
  BY DEF OrderInv, Descending
<1>0. /\ shows \in Nat /\ sent \in Nat /\ stored \in Nat /\ view.live \in Seq(Nat)
      /\ Len(view.live) \in Nat /\ DOMAIN view.live = 1..Len(view.live)
      /\ \A k \in DOMAIN view.live : view.live[k] \in Nat
  <2>1. view.live \in Seq(Nat)
    BY DEF TypeOK, TabOK
  <2> QED BY <2>1, LenProperties DEF TypeOK, LineInv, ServerOK
<1>1. ASSUME NEW i \in Lines
      PROVE  /\ socks[i].queue \in Seq(Nat) /\ Len(socks[i].queue) \in Nat
             /\ DOMAIN socks[i].queue = 1..Len(socks[i].queue)
             /\ \A k \in DOMAIN socks[i].queue : socks[i].queue[k] \in Nat
  <2>1. socks[i].queue \in Seq(Nat)
    BY DEF TypeOK, SocksOK, SockRecord
  <2> QED BY <2>1, LenProperties
<1>2. ASSUME shows <= 1
      PROVE  /\ Descending(view.live)
             /\ \A k \in DOMAIN view.live : view.live[k] <= sent
             /\ \A i \in Lines : \A j \in DOMAIN socks[i].queue :
                   /\ socks[i].queue[j] <= sent
                   /\ \A k \in DOMAIN socks[i].queue : j < k => socks[i].queue[j] < socks[i].queue[k]
                   /\ \A k \in DOMAIN view.live : view.live[k] < socks[i].queue[j]
  BY <1>2 DEF OrderInv
<1>3. CASE Store
  <2>1. sent' = sent /\ UNCHANGED <<socks, view, shows>> /\ Lines' = Lines
    BY <1>3 DEF Store, lines, bounds, Lines
  <2> QED BY <1>2, <2>1
<1>4. CASE Publish
  <2>1. sent' = sent + 1 /\ view' = view /\ shows' = shows /\ shows <= 1 /\ Lines' = Lines
    BY <1>4 DEF Publish, bounds, Lines
  <2>2. ASSUME NEW i \in Lines, NEW j \in DOMAIN socks'[i].queue
        PROVE  /\ socks'[i].queue[j] <= sent'
               /\ \A k \in DOMAIN socks'[i].queue :
                     j < k => socks'[i].queue[j] < socks'[i].queue[k]
               /\ \A k \in DOMAIN view.live : view.live[k] < socks'[i].queue[j]
    <3> DEFINE queue == socks[i].queue
               all == Append(queue, sent + 1)
               cut == IF Len(queue) >= Capacity THEN Len(queue) + 1 - Capacity ELSE 0
    <3>1. CASE socks'[i] = socks[i]
      BY <1>0, <1>1, <1>2, <2>1, <3>1
    <3>2. CASE socks'[i] # socks[i]
      <4>1. /\ all \in Seq(Nat) /\ Len(all) = Len(queue) + 1
            /\ \A k \in 1..Len(queue) : all[k] = queue[k]
            /\ all[Len(all)] = sent + 1
            /\ socks'[i].queue \in Seq(Nat)
            /\ Len(socks'[i].queue) = Len(all) - cut
            /\ \A k \in 1..Len(socks'[i].queue) : socks'[i].queue[k] = all[k + cut]
        BY <1>4, <3>2, PublishFact
      <4>2. cut \in Nat /\ sent + 1 \in Nat
        BY <1>0, <1>1, WebAssumption
      <4>3. /\ Len(queue) \in Nat
            /\ \A k \in 1..Len(queue) :
                  /\ queue[k] <= sent /\ queue[k] \in Nat
                  /\ \A m \in 1..Len(queue) : k < m => queue[k] < queue[m]
                  /\ \A m \in DOMAIN view.live : view.live[m] < queue[k]
            /\ \A m \in DOMAIN view.live : view.live[m] <= sent /\ view.live[m] \in Nat
        BY <1>0, <1>1, <1>2, <2>1
      <4> DEFINE queue2 == socks'[i].queue
      <4>4. DOMAIN queue2 = 1..Len(queue2) /\ Len(queue2) \in Nat
        BY <4>1, LenProperties
      <4> HIDE DEF all, cut, queue, queue2
      <4>5. ASSUME NEW k \in 1..Len(all)
            PROVE  /\ all[k] <= sent + 1 /\ all[k] \in Nat
                   /\ \A m \in 1..Len(all) : k < m => all[k] < all[m]
                   /\ \A m \in DOMAIN view.live : view.live[m] < all[k]
        <5>0. Len(all) = Len(queue) + 1 /\ Len(all) \in Nat /\ k \in Nat /\ k <= Len(all)
          BY <4>1, <4>3
        <5>1. CASE k = Len(all)
          <6>1. all[k] = sent + 1 /\ all[k] \in Nat
            BY <4>1, <4>2, <5>1
          <6>2. \A m \in 1..Len(all) : ~ (k < m)
            BY <5>0, <5>1
          <6>3. \A m \in DOMAIN view.live : view.live[m] < sent + 1
            BY <1>0, <4>3
          <6> QED BY <1>0, <4>2, <6>1, <6>2, <6>3
        <5>2. CASE k # Len(all)
          <6>1. k \in 1..Len(queue) /\ all[k] = queue[k]
            <7>1. k \in 1..Len(queue)
              BY <4>3, <5>0, <5>2
            <7> QED BY <4>1, <7>1
          <6>2. ASSUME NEW m \in 1..Len(all), k < m PROVE all[k] < all[m]
            <7>1. CASE m = Len(all)
              <8>1. queue[k] <= sent /\ queue[k] \in Nat /\ all[m] = sent + 1
                BY <4>1, <4>3, <6>1, <7>1
              <8> QED BY <1>0, <6>1, <8>1
            <7>2. CASE m # Len(all)
              <8>1. m \in 1..Len(queue)
                BY <4>3, <5>0, <7>2
              <8>2. all[m] = queue[m]
                BY <4>1, <8>1
              <8> QED BY <4>3, <6>1, <6>2, <8>1, <8>2
            <7> QED BY <7>1, <7>2
          <6> QED BY <1>0, <4>3, <6>1, <6>2
        <5> QED BY <5>1, <5>2
      <4>6. /\ Len(queue2) = Len(all) - cut /\ Len(all) \in Nat
            /\ \A k \in 1..Len(queue2) : queue2[k] = all[k + cut]
        BY <4>1, <4>3 DEF queue2
      <4>7. \A k \in 1..Len(queue2) : k + cut \in 1..Len(all) /\ k \in Nat
        BY <4>2, <4>4, <4>6
      <4>8. j \in 1..Len(queue2)
        BY <2>2, <4>4 DEF queue2
      <4>9. \A k \in 1..Len(queue2) : j < k => j + cut < k + cut
        BY <4>2, <4>7, <4>8
      <4>10. /\ queue2[j] <= sent'
             /\ \A k \in 1..Len(queue2) : j < k => queue2[j] < queue2[k]
             /\ \A k \in DOMAIN view.live : view.live[k] < queue2[j]
        BY <2>1, <4>5, <4>6, <4>7, <4>8, <4>9
      <4> QED BY <4>4, <4>10 DEF queue2
    <3> QED BY <3>1, <3>2
  <2>3. \A k \in DOMAIN view.live : view.live[k] <= sent'
    BY <1>0, <1>2, <2>1
  <2> QED BY <1>2, <2>1, <2>2, <2>3
<1>5. CASE \E i \in Lines : OnMessage(i)
  <2>1. PICK i \in Lines : OnMessage(i)
    BY <1>5
  <2>2. sent' = sent /\ shows' = shows /\ shows <= 1
    BY <2>1 DEF OnMessage, server, bounds
  \* the page was shown once at most: there is no other socket
  <2>3. Lines = {i}
    <3>1. IsFiniteSet(Lines) /\ Cardinality(Lines) \in Nat /\ Cardinality(timers) \in Nat
      BY SlotsFinite DEF TypeOK, LineInv
    <3>2. Cardinality(Lines) <= 1 /\ Cardinality(Lines) # 0
      BY <1>0, <2>2, <3>1, FS_EmptySet DEF TypeOK, LineInv
    <3>3. Cardinality(Lines) = 1
      BY <3>1, <3>2
    <3> QED BY <3>1, <3>3, FS_Singleton
  <2> DEFINE queue == socks[i].queue
             queue2 == socks'[i].queue
             live2 == view'.live
  <2>4. /\ Lines' = Lines /\ queue # <<>>
        /\ queue2 \in Seq(Nat) /\ Len(queue2) = Len(queue) - 1
        /\ \A k \in 1..Len(queue2) : queue2[k] = queue[k + 1]
        /\ live2 \in Seq(Nat)
        /\ Len(live2) = IF Len(view.live) + 1 <= PerPage THEN Len(view.live) + 1 ELSE PerPage
        /\ live2[1] = queue[1]
        /\ \A k \in 2..Len(live2) : live2[k] = view.live[k - 1]
    BY <2>1, MessageFact
  <2>5. /\ queue \in Seq(Nat) /\ Len(queue) \in Nat /\ DOMAIN queue = 1..Len(queue)
        /\ \A k \in DOMAIN queue : queue[k] \in Nat
    BY <1>1
  <2>6. Len(queue) >= 1
    BY <2>4, <2>5, EmptySeq
  <2>7. /\ DOMAIN queue2 = 1..Len(queue2) /\ DOMAIN live2 = 1..Len(live2)
        /\ Len(queue2) \in Nat /\ Len(live2) \in Nat
    BY <2>4, LenProperties
  <2>8. /\ \A j \in 1..Len(queue) :
              /\ queue[j] <= sent
              /\ \A k \in 1..Len(queue) : j < k => queue[j] < queue[k]
              /\ \A k \in 1..Len(view.live) : view.live[k] < queue[j]
        /\ \A j, k \in 1..Len(view.live) : j < k => view.live[j] > view.live[k]
        /\ \A k \in 1..Len(view.live) : view.live[k] <= sent /\ view.live[k] \in Nat
    BY <1>0, <1>2, <2>2, <2>5 DEF Descending
  <2>9. /\ \A k \in 2..Len(live2) : k - 1 \in 1..Len(view.live)
        /\ \A k \in 1..Len(queue2) : k + 1 \in 1..Len(queue)
    <3> HIDE DEF queue, queue2, live2
    <3>1. \A k \in 2..Len(live2) : k - 1 \in 1..Len(view.live)
      BY <1>0, <2>4, <2>7, WebAssumption
    <3>2. \A k \in 1..Len(queue2) : k + 1 \in 1..Len(queue)
      BY <2>4, <2>5, <2>7
    <3> QED BY <3>1, <3>2
  <2> HIDE DEF queue, queue2, live2
  <2>10. \A k \in 1..Len(live2) : live2[k] <= sent
    <3> SUFFICES ASSUME NEW k \in 1..Len(live2) PROVE live2[k] <= sent
      OBVIOUS
    <3>1. CASE k = 1
      BY <2>4, <2>5, <2>6, <2>8, <3>1
    <3>2. CASE k # 1
      <4>1. k \in 2..Len(live2)
        BY <2>7, <3>2
      <4> QED BY <2>4, <2>8, <2>9, <4>1
    <3> QED BY <3>1, <3>2
  <2>11. ASSUME NEW j \in 1..Len(live2), NEW k \in 1..Len(live2), j < k
         PROVE  live2[j] > live2[k]
    <3>1. k - 1 \in 1..Len(view.live) /\ live2[k] = view.live[k - 1] /\ view.live[k - 1] \in Nat
      BY <2>4, <2>7, <2>8, <2>9, <2>11, SMTT(30)
    <3>2. CASE j = 1
      <4>1. view.live[k - 1] < queue[1] /\ queue[1] \in Nat
        BY <2>5, <2>6, <2>8, <3>1
      <4> QED BY <2>4, <3>1, <3>2, <4>1
    <3>3. CASE j # 1
      <4>1. j - 1 \in 1..Len(view.live) /\ live2[j] = view.live[j - 1] /\ j - 1 < k - 1
        BY <2>4, <2>7, <2>9, <2>11, <3>3
      <4> QED BY <2>8, <3>1, <4>1
    <3> QED BY <3>2, <3>3
  <2>12. ASSUME NEW j \in 1..Len(queue2)
         PROVE  /\ queue2[j] <= sent
                /\ \A k \in 1..Len(queue2) : j < k => queue2[j] < queue2[k]
                /\ \A k \in 1..Len(live2) : live2[k] < queue2[j]
    <3>1. queue2[j] = queue[j + 1] /\ j + 1 \in 1..Len(queue)
      BY <2>4, <2>9
    <3>2. \A k \in 1..Len(queue2) : j < k => queue2[j] < queue2[k]
      <4>1. \A k \in 1..Len(queue2) : j < k => j + 1 < k + 1
        BY <2>7
      <4> QED BY <2>4, <2>8, <2>9, <3>1, <4>1
    <3>3. \A k \in 1..Len(live2) : live2[k] < queue2[j]
      <4>1. queue[1] < queue[j + 1]
        BY <2>5, <2>6, <2>7, <2>8, <3>1
      <4>2. \A k \in 2..Len(live2) : view.live[k - 1] < queue[j + 1]
        BY <2>8, <2>9, <3>1
      <4> QED BY <2>4, <2>7, <3>1, <4>1, <4>2, SMTT(30)
    <3> QED BY <2>8, <3>1, <3>2, <3>3
  <2>13. Descending(view'.live)
    BY <2>7, <2>11 DEF Descending, live2
  <2> QED BY <2>2, <2>3, <2>4, <2>7, <2>10, <2>12, <2>13 DEF queue2, live2
<1>6. CASE Quiet
  <2>1. /\ sent' >= sent /\ shows <= 1 /\ view'.live \in {view.live, <<>>}
        /\ \A i \in Lines' : \/ socks'[i].queue = <<>>
                             \/ i \in Lines /\ socks'[i].queue = socks[i].queue
    <3>1. shows' \in Nat
      BY DEF TypeOK, LineInv
    <3> QED BY <1>0, <1>6, <3>1 DEF Quiet, QuietRows
  <2>2. sent' \in Nat
    BY DEF TypeOK, ServerOK
  <2>3. Descending(view'.live) /\ \A k \in DOMAIN view'.live : view'.live[k] <= sent'
    <3>1. Descending(<<>>)
      BY DEF Descending
    <3> QED BY <1>0, <1>2, <2>1, <2>2, <3>1, SMTT(30)
  <2>4. ASSUME NEW i \in Lines', NEW j \in DOMAIN socks'[i].queue
        PROVE  /\ socks'[i].queue[j] <= sent'
               /\ \A k \in DOMAIN socks'[i].queue :
                     j < k => socks'[i].queue[j] < socks'[i].queue[k]
               /\ \A k \in DOMAIN view'.live : view'.live[k] < socks'[i].queue[j]
    <3>1. i \in Lines /\ socks'[i].queue = socks[i].queue
      BY <2>1, <2>4
    <3>2. j \in DOMAIN socks[i].queue /\ socks[i].queue[j] <= sent
      BY <1>2, <2>1, <2>4, <3>1
    <3>3. socks[i].queue[j] <= sent'
      BY <1>0, <1>1, <2>1, <2>2, <3>1, <3>2
    <3>4. \A k \in DOMAIN view'.live : view'.live = view.live
      BY <2>1
    <3> QED BY <1>2, <2>1, <3>1, <3>2, <3>3, <3>4
  <2> QED BY <2>3, <2>4
<1> QED BY <1>3, <1>4, <1>5, <1>6, RowSteps

\* The live events are newest first and none is repeated, as long as the page
\* was not shown a second time (addEvent, events.js:176).
THEOREM ClientLiveInOrder == Spec => []LiveInOrder
<1>1. Init => OrderInv
  BY DEF Init, OrderInv, Lines, NewView, Descending
<1>2. OrderInv /\ TypeOK => LiveInOrder
  BY DEF OrderInv, LiveInOrder
<1> QED BY <1>1, <1>2, OrderKept, ClientTypeOK, PTL DEF Spec

-----------------------------------------------------------------------------
(* The view without a gap *)

\* A load that is alone will show all there is: nothing is on its way, and its
\* answer had every row.
AloneInv ==
  \A l \in loads : l.alone =>
     /\ sent = stored
     /\ \A i \in Lines : socks[i].queue = <<>>
     /\ l.step = "answered" => l.upto = stored

LEMMA AloneKept == TypeOK /\ AloneInv /\ [Next]_vars => AloneInv'
<1> SUFFICES ASSUME TypeOK, AloneInv, [Next]_vars, NEW l \in loads', l.alone
             PROVE  /\ sent' = stored'
                    /\ \A i \in Lines' : socks'[i].queue = <<>>
                    /\ l.step = "answered" => l.upto = stored'
  BY DEF AloneInv
<1>1. CASE loads' = Disturbed
  BY <1>1, DisturbedFact DEF TypeOK
<1>2. CASE Quiet
  BY <1>2 DEF Quiet, QuietRows, QuietLoads, AloneInv
<1> QED BY <1>1, <1>2, RowSteps DEF Store, Publish, OnMessage

\* Socket i is the one that is open and subscribed, and what it has to receive follows what is
\* shown: the live events are the rows since the load, unless there are more
\* than a page holds.
Follows(i) ==
  LET queue == socks[i].queue
      newest == sent - Len(queue)
  IN  /\ socks[i].state = "open" /\ socks[i].subscribed
      /\ \A j \in Lines \ {i} : socks[j].state = "connecting"
      /\ exact.upto <= newest
      /\ \A k \in 1..Len(queue) : queue[k] = newest + k
      /\ newest - exact.upto <= PerPage => view.live = Down(newest, exact.upto + 1)
      /\ view.page = 1 => view.events = PageOf(exact.upto, 1)

ExactInv == exact.on => \E i \in Lines : Follows(i)

\* One more message on the socket that is followed.
LEMMA MessageFollows ==
    ASSUME TypeOK, NEW i \in Lines, Follows(i), OnMessage(i)
    PROVE  Follows(i)'
<1> DEFINE n == Len(socks[i].queue)
           n2 == Len(socks'[i].queue)
           newest == sent - n
           newest2 == sent' - n2
           upto == exact.upto
<1>1. /\ Lines' = Lines /\ socks[i].queue \in Seq(Nat) /\ socks[i].queue # <<>>
      /\ socks'[i].subscribed = socks[i].subscribed
      /\ socks'[i].state = "open" /\ socks'[i].queue \in Seq(Nat) /\ n2 = n - 1
      /\ \A k \in 1..n2 : socks'[i].queue[k] = socks[i].queue[k + 1]
      /\ \A j \in Lines : j # i => socks'[j] = socks[j]
      /\ view'.live \in Seq(Nat)
      /\ Len(view'.live) = IF Len(view.live) + 1 <= PerPage THEN Len(view.live) + 1 ELSE PerPage
      /\ view'.live[1] = socks[i].queue[1]
      /\ \A k \in 2..Len(view'.live) : view'.live[k] = view.live[k - 1]
      /\ view'.events = view.events /\ view'.page = view.page
  BY MessageFact
<1>2. n \in Nat /\ n >= 1 /\ n2 \in Nat
  BY <1>1, EmptySeq, LenProperties
<1>3. sent \in Nat /\ upto \in Nat /\ sent' = sent /\ exact' = exact /\ PerPage \in Nat \ {0}
  BY WebAssumption DEF OnMessage, server, TypeOK, ServerOK, TabOK
<1>4. newest2 = newest + 1 /\ newest \in Int
  BY <1>1, <1>2, <1>3
<1>5. /\ upto <= newest /\ socks[i].subscribed
      /\ \A k \in 1..n : socks[i].queue[k] = newest + k
      /\ newest - upto <= PerPage => view.live = Down(newest, upto + 1)
      /\ view.page = 1 => view.events = PageOf(upto, 1)
      /\ \A j \in Lines \ {i} : socks[j].state = "connecting"
  BY DEF Follows
<1> HIDE DEF n, n2, newest, newest2, upto
<1>6. upto <= newest2
  BY <1>3, <1>4, <1>5
<1>7. \A k \in 1..n2 : socks'[i].queue[k] = newest2 + k
  <2>1. \A k \in 1..n2 : k + 1 \in 1..n /\ newest + (k + 1) = newest2 + k
    BY <1>1, <1>2, <1>4
  <2> QED BY <1>1, <1>5, <2>1
<1>8. ASSUME newest2 - upto <= PerPage
      PROVE  view'.live = Down(newest2, upto + 1)
  <2>0. newest \in Nat /\ newest2 \in Nat /\ newest - upto <= PerPage /\ upto + 1 \in Nat
        /\ upto + 1 <= newest + 1 /\ upto + 1 <= newest2 + 1
    BY <1>3, <1>4, <1>5, <1>8
  <2>1. /\ Down(newest, upto + 1) \in Seq(Nat) /\ Len(Down(newest, upto + 1)) = newest - (upto + 1) + 1
        /\ \A k \in 1..(newest - (upto + 1) + 1) : Down(newest, upto + 1)[k] = newest - k + 1
    BY <2>0, DownFact
  <2>2. /\ Down(newest2, upto + 1) \in Seq(Nat) /\ Len(Down(newest2, upto + 1)) = newest2 - (upto + 1) + 1
        /\ \A k \in 1..(newest2 - (upto + 1) + 1) : Down(newest2, upto + 1)[k] = newest2 - k + 1
    BY <2>0, DownFact
  <2>3. Len(view.live) = newest - upto /\ \A k \in 1..(newest - upto) : view.live[k] = newest - k + 1
    <3>1. newest - (upto + 1) + 1 = newest - upto
      BY <1>3, <2>0
    <3>2. view.live = Down(newest, upto + 1)
      BY <1>5, <2>0
    <3> QED BY <2>1, <3>1, <3>2
  <2>4. Len(view'.live) = newest2 - upto
    BY <1>1, <1>3, <1>4, <1>8, <2>0, <2>3
  <2>5. Len(Down(newest2, upto + 1)) = newest2 - upto
    BY <1>3, <2>0, <2>2
  <2>6. ASSUME NEW k \in 1..(newest2 - upto)
        PROVE  view'.live[k] = Down(newest2, upto + 1)[k]
    <3>1. Down(newest2, upto + 1)[k] = newest2 - k + 1
      BY <1>3, <2>0, <2>2
    <3>2. CASE k = 1
      <4>1. socks[i].queue[1] = newest + 1
        BY <1>2, <1>5
      <4> QED BY <1>1, <1>4, <2>0, <3>1, <3>2, <4>1
    <3>3. CASE k # 1
      <4>1. k \in 2..Len(view'.live) /\ k - 1 \in 1..(newest - upto)
        BY <1>3, <1>4, <2>0, <2>4, <3>3
      <4>2. view'.live[k] = newest - (k - 1) + 1
        BY <1>1, <2>3, <4>1
      <4> QED BY <1>4, <2>0, <3>1, <4>1, <4>2
    <3> QED BY <3>2, <3>3
  <2>7. view'.live \in Seq(Nat)
    BY <1>1
  <2> QED BY <2>2, <2>4, <2>5, <2>6, <2>7, SeqEqual
<1>9. \A j \in Lines' \ {i} : socks'[j].state = "connecting"
  BY <1>1, <1>5
<1>10. upto = exact'.upto
  BY <1>3 DEF upto
<1>11. view'.page = 1 => view'.events = PageOf(upto, 1)
  BY <1>1, <1>5
<1> QED BY <1>1, <1>5, <1>6, <1>7, <1>8, <1>9, <1>10, <1>11 DEF Follows, n2, newest2

LEMMA ExactKept == TypeOK /\ AloneInv /\ ExactInv /\ [Next]_vars => ExactInv'
<1> SUFFICES ASSUME TypeOK, AloneInv, ExactInv, [Next]_vars, exact'.on
             PROVE  \E i \in Lines' : Follows(i)'
  BY DEF ExactInv
<1>1. CASE Store
  <2>1. UNCHANGED <<sent, socks, view, exact>> /\ Lines' = Lines
    BY <1>1 DEF Store, lines, Lines
  <2>2. PICK i \in Lines : Follows(i)
    BY <2>1 DEF ExactInv
  <2>3. Follows(i)'
    BY <2>1, <2>2 DEF Follows
  <2> QED BY <2>1, <2>3
<1>2. CASE Publish
  <2>1. /\ exact' = exact /\ \A i \in DOMAIN socks : Len(socks[i].queue) # Capacity
        /\ view' = view
    BY <1>2 DEF Publish, Unknown
  <2>2. PICK i \in Lines : Follows(i)
    BY <2>1 DEF ExactInv
  <2> DEFINE queue == socks[i].queue
             all == Append(queue, sent + 1)
             cut == IF Len(queue) >= Capacity THEN Len(queue) + 1 - Capacity ELSE 0
             queue2 == socks'[i].queue
  <2>3. /\ socks[i].state = "open" /\ socks'[i].state = "open" /\ Lines' = Lines /\ sent' = sent + 1
        /\ socks[i].subscribed /\ socks'[i].subscribed
        /\ queue \in Seq(Nat) /\ Len(queue) <= Capacity
        /\ all \in Seq(Nat) /\ Len(all) = Len(queue) + 1
        /\ \A k \in 1..Len(queue) : all[k] = queue[k]
        /\ all[Len(all)] = sent + 1
        /\ Len(queue2) = Len(all) - cut
        /\ \A k \in 1..Len(queue2) : queue2[k] = all[k + cut]
    BY <1>2, <2>2, PublishFact DEF Follows
  <2>4. Len(queue) # Capacity
    BY <2>1, <2>3 DEF Lines
  <2>5. Len(queue) \in Nat /\ sent \in Nat /\ exact.upto \in Nat
    BY <2>3, LenProperties DEF TypeOK, ServerOK, TabOK
  <2>6. cut = 0
    BY <2>3, <2>4, <2>5, WebAssumption
  <2>7. \A j \in Lines : socks'[j].state = socks[j].state
    BY <1>2, PublishFact
  <2>8. /\ \A j \in Lines \ {i} : socks[j].state = "connecting"
        /\ exact.upto <= sent - Len(queue)
        /\ \A k \in 1..Len(queue) : queue[k] = sent - Len(queue) + k
        /\ sent - Len(queue) - exact.upto <= PerPage =>
              view.live = Down(sent - Len(queue), exact.upto + 1)
        /\ view.page = 1 => view.events = PageOf(exact.upto, 1)
    BY <2>2 DEF Follows
  <2> HIDE DEF queue, all, cut, queue2
  <2>9. Len(queue2) = Len(queue) + 1 /\ sent' - Len(queue2) = sent - Len(queue)
    BY <2>3, <2>5, <2>6
  <2>10. \A k \in 1..Len(queue2) : queue2[k] = sent - Len(queue) + k
    <3> SUFFICES ASSUME NEW k \in 1..Len(queue2) PROVE queue2[k] = sent - Len(queue) + k
      OBVIOUS
    <3>1. queue2[k] = all[k]
      BY <2>3, <2>5, <2>6, <2>9
    <3>2. CASE k = Len(all)
      BY <2>3, <2>5, <3>1, <3>2
    <3>3. CASE k # Len(all)
      <4>1. k \in 1..Len(queue)
        BY <2>3, <2>5, <2>9, <3>3
      <4> QED BY <2>3, <2>8, <3>1, <4>1
    <3> QED BY <3>2, <3>3
  <2>11. Follows(i)'
    BY <2>1, <2>3, <2>7, <2>8, <2>9, <2>10 DEF Follows, queue2
  <2> QED BY <2>3, <2>11
<1>3. ASSUME NEW j \in Lines, OnMessage(j) PROVE \E i \in Lines' : Follows(i)'
  <2>1. exact' = exact /\ socks[j].state = "open" /\ Lines' = Lines
    BY <1>3, MessageFact DEF OnMessage
  <2>2. PICK i \in Lines : Follows(i)
    BY <2>1 DEF ExactInv
  <2>3. i = j
    BY <2>1, <2>2 DEF Follows
  <2> QED BY <1>3, <2>1, <2>2, <2>3, MessageFollows
<1>4. CASE Quiet /\ QuietView
  <2>1. /\ exact' = exact /\ view' = view /\ sent' = sent
        /\ \A i \in Lines : Steady(socks[i]) =>
                              i \in Lines' /\ socks'[i] = socks[i]
        /\ \A i \in Lines' \ Lines : socks'[i].state = "connecting"
    BY <1>4 DEF QuietView
  <2>2. PICK i \in Lines : Follows(i)
    BY <2>1 DEF ExactInv
  <2>3. i \in Lines' /\ socks'[i] = socks[i]
    BY <2>1, <2>2 DEF Follows, Steady
  <2>4. \A j \in Lines' \ {i} : socks'[j].state = "connecting"
    BY <2>1, <2>2 DEF Follows, Steady
  <2>5. Follows(i)'
    BY <2>1, <2>2, <2>3, <2>4 DEF Follows
  <2> QED BY <2>3, <2>5
<1>5. ASSUME NEW l \in loads, Shown(l) PROVE \E i \in Lines' : Follows(i)'
  <2>1. /\ l.alone /\ l.step = "answered" /\ Cardinality(Lines) = 1
        /\ \E i \in OpenSockets : socks[i].subscribed
        /\ exact' = [on |-> TRUE, upto |-> l.upto]
    BY <1>5 DEF Shown, Unknown, Lines
  <2>2. PICK i \in Lines : socks[i].state = "open" /\ socks[i].subscribed
    BY <2>1 DEF OpenSockets, Lines
  <2>3. Lines = {i}
    <3>1. IsFiniteSet(Lines)
      BY SlotsFinite DEF TypeOK, LineInv
    <3> QED BY <2>1, <2>2, <3>1, FS_Singleton
  <2>4. sent = stored /\ socks[i].queue = <<>> /\ l.upto = sent /\ sent \in Nat
    BY <2>1 DEF AloneInv, TypeOK, ServerOK
  <2>5. /\ socks' = socks /\ Lines' = Lines /\ sent' = sent
        /\ view'.events = PageOf(l.upto, l.page) /\ view'.live = <<>> /\ view'.page = l.page
    BY <1>5 DEF Shown, lines, server, Lines
  <2>6. Down(sent, sent + 1) = <<>>
    <3>1. Down(sent, sent + 1) \in Seq(Nat) /\ Len(Down(sent, sent + 1)) = sent - (sent + 1) + 1
      BY <2>4, DownFact
    <3>2. Len(Down(sent, sent + 1)) = 0
      BY <2>4, <3>1
    <3> QED BY <3>1, <3>2, EmptySeq
  <2>7. Len(<<>>) = 0 /\ sent - 0 = sent
    BY <2>4
  <2>8. exact'.upto = sent
    BY <2>1, <2>4
  <2>9. Follows(i)'
    <3>1. socks'[i].state = "open" /\ socks'[i].subscribed /\ \A j \in Lines' \ {i} : socks'[j].state = "connecting"
      BY <2>2, <2>3, <2>5
    <3>2. socks'[i].queue = <<>> /\ sent' - Len(<<>>) = sent /\ 1..Len(<<>>) = {}
      BY <2>4, <2>5, <2>7
    <3>3. exact'.upto <= sent
      BY <2>4, <2>8
    <3>4. view'.live = Down(sent, exact'.upto + 1)
      BY <2>5, <2>6, <2>8
    <3>5. view'.page = 1 => view'.events = PageOf(exact'.upto, 1)
      BY <2>4, <2>5, <2>8
    <3> QED BY <3>1, <3>2, <3>3, <3>4, <3>5 DEF Follows
  <2> QED BY <2>3, <2>5, <2>9
<1> QED BY <1>1, <1>2, <1>3, <1>4, <1>5, RowSteps DEF Quiet

\* After a load of the first page that overlapped no other and no event, with one
\* socket that is open and subscribed, the live events are the rows stored since
\* then without a gap, and the page below them the newest that match of those
\* before (renderEvents, events.js:152).
THEOREM ClientViewExact == Spec => []ViewExact
<1>1. Init => AloneInv /\ ExactInv
  BY DEF Init, AloneInv, ExactInv, Unknown
<1>2. TypeOK /\ ExactInv => ViewExact
  <2> SUFFICES ASSUME TypeOK, ExactInv, exact.on, view.page = 1, NEW i \in OpenSockets,
                      sent - Len(socks[i].queue) - exact.upto <= PerPage
               PROVE  /\ view.live = Down(sent - Len(socks[i].queue), exact.upto + 1)
                      /\ view.events \subseteq Found(exact.upto)
                      /\ \A r \in Found(exact.upto) \ view.events :
                           /\ Cardinality(view.events) = PerPage
                           /\ \A s \in view.events : Stamp[s] > Stamp[r]
    BY DEF ViewExact
  <2>1. Follows(i)
    <3>1. PICK j \in Lines : Follows(j)
      BY DEF ExactInv
    <3>2. i = j
      BY <3>1 DEF Follows, OpenSockets, Lines
    <3> QED BY <3>1, <3>2
  <2>2. /\ view.live = Down(sent - Len(socks[i].queue), exact.upto + 1)
        /\ view.events = PageOf(exact.upto, 1)
    BY <2>1 DEF Follows
  <2>3. exact.upto \in Nat
    BY DEF TypeOK, TabOK
  <2>4. view.events \subseteq Found(exact.upto)
    BY <2>2 DEF PageOf
  <2>5. ASSUME NEW r \in Found(exact.upto) \ view.events
        PROVE  /\ Cardinality(view.events) = PerPage
               /\ \A s \in view.events : Stamp[s] > Stamp[r]
    BY <2>2, <2>3, FirstPage
  <2> QED BY <2>2, <2>4, <2>5
<1> QED BY <1>1, <1>2, AloneKept, ExactKept, ClientTypeOK, PTL DEF Spec

=============================================================================
