------------------------------ MODULE TimeText -----------------------------
(***************************************************************************)
(* Timestamps as the database compares them: as text.  An event's is       *)
(* to_rfc3339 of chrono, with as many digits as it needs and "+00:00"; the *)
(* bounds of a period are toISOString of the browser, always with three    *)
(* digits and "Z".  What comes before the fraction has one width and is    *)
(* one number here, and so is each group of three digits.                  *)
(***************************************************************************)
EXTENDS Integers, Sequences

Group == 0..999

\* a time of the event clock, in nanoseconds; one of the browser, in milliseconds
Moment == [sec : Nat, ms : Group, us : Group, ns : Group]
Bound == [sec : Nat, ms : Group]

\* the order of the characters: '+' < '.' < digits < 'Z'
Plus == 0
Dot == 1
Digits(g) == 2 + g
Zulu == 1002

Text(t) ==
    IF t.ns # 0 THEN <<t.sec, Dot, Digits(t.ms), Digits(t.us), Digits(t.ns), Plus>>
    ELSE IF t.us # 0 THEN <<t.sec, Dot, Digits(t.ms), Digits(t.us), Plus>>
    ELSE IF t.ms # 0 THEN <<t.sec, Dot, Digits(t.ms), Plus>>
    ELSE <<t.sec, Plus>>

BoundText(b) == <<b.sec, Dot, Digits(b.ms), Zulu>>

\* The order of texts, none of which begins another one.
Less(s, t) == \E k \in DOMAIN s \cap DOMAIN t :
                 s[k] < t[k] /\ \A j \in 1..(k - 1) : s[j] = t[j]
AtMost(s, t) == s = t \/ Less(s, t)

\* The order of times.
Earlier(q, r) ==
    \/ q.sec < r.sec
    \/ q.sec = r.sec /\ q.ms < r.ms
    \/ q.sec = r.sec /\ q.ms = r.ms /\ q.us < r.us
    \/ q.sec = r.sec /\ q.ms = r.ms /\ q.us = r.us /\ q.ns < r.ns

\* t is in a later, or an earlier, millisecond than b
PastMillisecond(t, b) == t.sec > b.sec \/ (t.sec = b.sec /\ t.ms > b.ms)
BeforeMillisecond(t, b) == t.sec < b.sec \/ (t.sec = b.sec /\ t.ms < b.ms)
=============================================================================
