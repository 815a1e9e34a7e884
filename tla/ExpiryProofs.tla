---------------------------- MODULE ExpiryProofs ----------------------------
(***************************************************************************)
(* Theorems about Expiry, for every length of a day, every lifetime that   *)
(* may be configured and every change of the clock.                        *)
(***************************************************************************)
EXTENDS Expiry, TLAPS

USE TtlAssumption, NullAssumption DEF TtlAssumption, NullAssumption
----------------------------------------------------------------------------
(* Days.                                                                   *)

LEMMA TimesMonotone ==
  ASSUME NEW i \in Int, NEW j \in Int, i <= j
  PROVE  i * Day <= j * Day
<1>1. \A m, n \in Int, k \in Nat : m <= n => m * k <= n * k
  OBVIOUS
<1> QED
  BY <1>1

LEMMA DayBounds ==
  ASSUME NEW t \in Int
  PROVE  /\ DayOf(t) \in Int
         /\ DayOf(t) * Day <= t
         /\ t < (DayOf(t) + 1) * Day
BY DEF DayOf

\* A tick is of one day only.
LEMMA DayUnique ==
  ASSUME NEW t \in Int, NEW d \in Int, d * Day <= t, t < (d + 1) * Day
  PROVE  DayOf(t) = d
<1> DEFINE q == DayOf(t)
<1>1. q \in Int /\ q * Day <= t /\ t < (q + 1) * Day
  BY DayBounds
<1> HIDE DEF q
<1>2. CASE q + 1 <= d
  <2>1. (q + 1) * Day <= d * Day
    BY <1>1, <1>2, TimesMonotone
  <2> QED
    BY <1>1, <2>1
<1>3. CASE d + 1 <= q
  <2>1. (d + 1) * Day <= q * Day
    BY <1>1, <1>3, TimesMonotone
  <2> QED
    BY <1>1, <2>1
<1>4. q + 1 <= d \/ d + 1 <= q \/ q = d
  <2>1. q \in Int
    BY <1>1
  <2> QED
    BY <2>1
<1> QED
  BY <1>2, <1>3, <1>4 DEF q

LEMMA DaysAhead ==
  ASSUME NEW t \in Int, NEW d \in Int
  PROVE  DayOf(t + d * Day) = DayOf(t) + d
<1> DEFINE q == DayOf(t)
<1>1. q \in Int /\ q * Day <= t /\ t < (q + 1) * Day
  BY DayBounds
<1> HIDE DEF q
<1>2. /\ (q + d) * Day = q * Day + d * Day
      /\ ((q + d) + 1) * Day = (q + 1) * Day + d * Day
      /\ q * Day \in Int /\ d * Day \in Int /\ (q + 1) * Day \in Int
  BY <1>1
<1>3. (q + d) * Day <= t + d * Day /\ t + d * Day < ((q + d) + 1) * Day
  BY <1>1, <1>2
<1> QED
  BY <1>1, <1>2, <1>3, DayUnique DEF q

\* The end of a day some days ahead.
LEMMA EndAhead ==
  ASSUME NEW t \in Int, NEW d \in Int, DayOf(t) < d
  PROVE  /\ EndOfDay(d) \in Int
         /\ t < EndOfDay(d)
         /\ d < DayOf(t) + MaxTtl => EndOfDay(d) <= t + MaxTtl * Day
<1> DEFINE q == DayOf(t)
<1>1. q \in Int /\ q * Day <= t /\ t < (q + 1) * Day
  BY DayBounds
<1> HIDE DEF q
<1>2. EndOfDay(d) = (d + 1) * Day - 1 /\ (d + 1) * Day \in Int
  BY DEF EndOfDay
<1>3. t < EndOfDay(d)
  <2>1. (q + 1) * Day <= d * Day
    BY <1>1, TimesMonotone DEF q
  <2>2. (d + 1) * Day = d * Day + Day /\ d * Day \in Int
    OBVIOUS
  <2> QED
    BY <1>1, <1>2, <2>1, <2>2
<1>4. ASSUME d < q + MaxTtl
      PROVE  EndOfDay(d) <= t + MaxTtl * Day
  <2>1. (d + 1) * Day <= (q + MaxTtl) * Day
    BY <1>1, <1>4, TimesMonotone
  <2>2. (q + MaxTtl) * Day = q * Day + MaxTtl * Day
        /\ q * Day \in Int /\ MaxTtl * Day \in Int
    BY <1>1
  <2> QED
    BY <1>1, <1>2, <2>1, <2>2
<1> QED
  BY <1>2, <1>3, <1>4 DEF q
----------------------------------------------------------------------------
(* The invariants.                                                         *)

TypeInv ==
  /\ now \in Nat
  /\ page # Null => page.opened \in Nat /\ page.shift \in Int

Inv == TypeInv /\ HardMaximum /\ OfferKept

LEMMA TypeStep ==
  ASSUME TypeInv, [Next]_vars
  PROVE  TypeInv'
BY DEF TypeInv, Next, Open, Submit, Post, Create, Tick, vars

\* No create is stored beyond the maximum.
LEMMA CreateBounded ==
  ASSUME TypeInv, NEW raw, NEW from, Create(raw, from),
         raw # Null => Expires(raw) \in Int
  PROVE  HardMaximum'
<1>1. last' = [raw |-> raw, at |-> now, from |-> from,
               expires |-> IF Refused(raw) THEN Null ELSE Expires(raw)]
  BY DEF Create
<1> SUFFICES ASSUME last'.expires # Null,
                    raw = Null => DefaultTtl \in 1..MaxTtl
             PROVE  now < last'.expires /\ last'.expires <= now + MaxTtl * Day
  BY <1>1 DEF HardMaximum
<1>2. ~Refused(raw) /\ last'.expires = Expires(raw)
  BY <1>1
<1>3. now \in Int /\ MaxTtl * Day \in Int
  BY DEF TypeInv
<1>4. CASE raw = Null
  <2>1. 1 * Day <= DefaultTtl * Day /\ DefaultTtl * Day <= MaxTtl * Day
    BY <1>4, TimesMonotone
  <2>2. DefaultTtl * Day \in Int
    OBVIOUS
  <2> QED
    BY <1>2, <1>3, <1>4, <2>1, <2>2 DEF Expires
<1>5. CASE raw # Null
  BY <1>2, <1>3, <1>5 DEF Refused
<1> QED
  BY <1>4, <1>5

\* What the page offers on the day it was opened.
LEMMA SubmitKept ==
  ASSUME TypeInv, page # Null, NEW d \in Offered(page), Create(Date(d), page),
         Date(d) # Null
  PROVE  OfferKept'
<1>1. last' = [raw |-> Date(d), at |-> now, from |-> page,
               expires |-> IF Refused(Date(d)) THEN Null ELSE Expires(Date(d))]
  BY DEF Create
<1>2. /\ now \in Int /\ page.opened \in Int /\ page.shift \in Int
      /\ DayOf(now) \in Int /\ DayOf(page.opened) \in Int
  BY DayBounds DEF TypeInv
<1>3. \A k \in Int : PlusDays(page, k) \in Int
  <2>1. \A k \in Int : page.opened + k * Day + page.shift \in Int
    BY <1>2
  <2> QED
    BY <2>1, DayBounds DEF PlusDays
<1>4. d \in Int
  BY <1>3 DEF Offered, PageTtl
<1>5. Expires(Date(d)) = EndOfDay(d) /\ Date(d).value = d
  BY DEF Expires, Date
<1> SUFFICES ASSUME DayOf(page.opened) = DayOf(now)
             PROVE  /\ d - DayOf(now) \in 1..MaxTtl - 1 => last'.expires # Null
                    /\ page.shift = 0 => d - DayOf(now) \in 1..PageTtl
  BY <1>1, <1>5 DEF OfferKept, OnTheDay
<1>6. ASSUME d - DayOf(now) \in 1..MaxTtl - 1
      PROVE  last'.expires # Null
  <2>1. DayOf(now) < d /\ d < DayOf(now) + MaxTtl
    BY <1>2, <1>4, <1>6
  <2>2. /\ EndOfDay(d) \in Int
        /\ now < EndOfDay(d) /\ EndOfDay(d) <= now + MaxTtl * Day
    BY <1>2, <1>4, <2>1, EndAhead
  <2>3. ~Refused(Date(d))
    BY <1>2, <1>5, <2>2 DEF Refused
  <2> QED
    BY <1>1, <1>5, <2>2, <2>3
<1>7. ASSUME page.shift = 0
      PROVE  d - DayOf(now) \in 1..PageTtl
  <2>1. \A k \in Int : PlusDays(page, k) = DayOf(now) + k
    <3> SUFFICES ASSUME NEW k \in Int
                 PROVE  PlusDays(page, k) = DayOf(now) + k
      OBVIOUS
    <3>1. page.opened + k * Day + page.shift = page.opened + k * Day
      BY <1>2, <1>7
    <3>2. DayOf(page.opened + k * Day) = DayOf(page.opened) + k
      BY <1>2, DaysAhead
    <3> QED
      BY <3>1, <3>2 DEF PlusDays
  <2> QED
    BY <1>2, <1>4, <2>1 DEF Offered, PageTtl
<1> QED
  BY <1>6, <1>7

LEMMA Step ==
  ASSUME Inv, [Next]_vars
  PROVE  Inv'
<1>1. TypeInv'
  BY TypeStep DEF Inv
<1>2. CASE last' = last
  BY <1>1, <1>2 DEF Inv, HardMaximum, OfferKept, OnTheDay
<1>3. CASE Submit
  <2>1. PICK raw \in {Date(d) : d \in Offered(page)} \cup {Null} : Create(raw, page)
    BY <1>3 DEF Submit
  <2>2. page # Null
    BY <1>3 DEF Submit
  <2>3. \A d \in Offered(page) : d \in Int
    BY DEF Offered
  <2>4. CASE raw = Null
    BY <1>1, <2>1, <2>4, CreateBounded DEF Inv, Create, OfferKept
  <2>5. CASE raw # Null
    <3>1. PICK d \in Offered(page) : raw = Date(d)
      BY <2>1, <2>5
    <3>2. Expires(raw) \in Int
      BY <2>3, <2>5, <3>1 DEF Expires, Date, EndOfDay
    <3> QED
      BY <1>1, <2>1, <2>2, <2>5, <3>1, <3>2, CreateBounded, SubmitKept DEF Inv
  <2> QED
    BY <2>4, <2>5
<1>4. CASE Post
  <2>1. PICK t \in 0..Horizon + MaxTtl * Day :
          \E raw \in {Date(DayOf(t)), Instant(t), Null} : Create(raw, Null)
    BY <1>4 DEF Post
  <2>2. PICK raw \in {Date(DayOf(t)), Instant(t), Null} : Create(raw, Null)
    BY <2>1
  <2>3. t \in Int /\ DayOf(t) \in Int
    BY DayBounds
  <2>4. raw # Null => Expires(raw) \in Int
    BY <2>2, <2>3 DEF Expires, Date, Instant, EndOfDay
  <2> QED
    BY <1>1, <2>2, <2>4, CreateBounded DEF Inv, Create, OfferKept, OnTheDay
<1> QED
  BY <1>2, <1>3, <1>4 DEF Next, Open, Tick, vars

LEMMA Invariance == Spec => []Inv
<1>1. Init => Inv
  <2> SUFFICES ASSUME Init PROVE Inv
    OBVIOUS
  <2>1. TypeInv
    BY DEF Init, TypeInv
  <2> QED
    BY <2>1 DEF Init, Inv, HardMaximum, OfferKept, OnTheDay
<1>2. Inv /\ [Next]_vars => Inv'
  BY Step
<1> QED
  BY <1>1, <1>2, PTL DEF Spec

\* Nothing is stored that has expired or lives longer than the maximum,
\* whatever the length of a day and the lifetimes that are configured; only a
\* create without a date may, and only where the configured default is no
\* number of days from 1 to the maximum.
THEOREM MaximumHolds == Spec => []HardMaximum
<1>1. Inv => HardMaximum
  BY DEF Inv
<1> QED
  BY <1>1, Invariance, PTL

\* The page's offer is accepted on its day, save for the last date.
THEOREM OfferHolds == Spec => []OfferKept
<1>1. Inv => OfferKept
  BY DEF Inv
<1> QED
  BY <1>1, Invariance, PTL
=============================================================================
