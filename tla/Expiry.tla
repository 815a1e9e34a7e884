------------------------------- MODULE Expiry -------------------------------
(***************************************************************************)
(* The date field of static/js/create.js against parse_expiry of           *)
(* app/api.py.                                                             *)
(*                                                                         *)
(* Time is counted in ticks, Day of them to a day in UTC; the last tick of *)
(* a day is its 23:59:59.  A page may be sent long after it was opened.    *)
(***************************************************************************)
EXTENDS Integers

CONSTANTS
  Day,          \* ticks in a day
  DefaultTtl,   \* SECRET_DEFAULT_TTL_DAYS
  MaxTtl,       \* SECRET_MAX_TTL_DAYS
  Shifts,       \* what daylight saving adds to a local time some days ahead
  Horizon,      \* bound: the last tick
  Null

ASSUME TtlAssumption ==
  /\ Day \in Nat \ {0} /\ Horizon \in Nat
  /\ DefaultTtl \in Int /\ MaxTtl \in Int    \* load_settings() checks neither
  /\ Shifts \subseteq Int

ASSUME NullAssumption == Null \notin Int

VARIABLES
  now,
  page,   \* the open create page: when it was opened, and the shift
  last    \* the last create: its expires_at, when, from which page, outcome

vars == <<now, page, last>>

DayOf(t)    == t \div Day
EndOfDay(d) == (d + 1) * Day - 1

\* plusDays(): local date arithmetic, then the date of toISOString(), in UTC.
\* Mutant: counts today as the first day.
PlusDaysFromToday(p, d) == DayOf(p.opened + (d - 1) * Day + p.shift)

PlusDays(p, d) == DayOf(p.opened + d * Day + p.shift)

\* parseInt(M.maxTtl, 10) || 30: a 0 is no number of days to the page.
PageTtl == IF MaxTtl = 0 THEN 30 ELSE MaxTtl

\* expiry.min to expiry.max, which the browser enforces.
Offered(p) == PlusDays(p, 1)..PlusDays(p, PageTtl)

\* expires_at as a client sends it: a date, an instant or nothing.
Date(d)    == [form |-> "date", value |-> d]
Instant(t) == [form |-> "instant", value |-> t]

\* parse_expiry(): the instant it is about, and whether it raises.
Expires(raw) ==
  IF raw = Null THEN now + DefaultTtl * Day
  ELSE IF raw.form = "date" THEN EndOfDay(raw.value) ELSE raw.value

\* Mutant: the maximum is compared day by day.
RefusedByDay(raw) ==
  /\ raw # Null
  /\ Expires(raw) <= now \/ DayOf(Expires(raw)) > DayOf(now) + MaxTtl

Refused(raw) ==
  /\ raw # Null
  /\ Expires(raw) <= now \/ Expires(raw) > now + MaxTtl * Day

Create(raw, from) ==
  last' = [raw |-> raw, at |-> now, from |-> from,
           expires |-> IF Refused(raw) THEN Null ELSE Expires(raw)]
----------------------------------------------------------------------------
\* "/" is loaded; the field is filled in once.
Open ==
  /\ \E shift \in Shifts : page' = [opened |-> now, shift |-> shift]
  /\ UNCHANGED <<now, last>>

\* The field may be emptied: expiry.value || null.
Submit ==
  /\ page # Null
  /\ \E raw \in {Date(d) : d \in Offered(page)} \cup {Null} : Create(raw, page)
  /\ UNCHANGED <<now, page>>

\* A client of the API sends what it likes.
Post ==
  /\ \E t \in 0..Horizon + MaxTtl * Day :
       \E raw \in {Date(DayOf(t)), Instant(t), Null} : Create(raw, Null)
  /\ UNCHANGED <<now, page>>

Tick ==
  /\ now < Horizon
  /\ now' = now + 1
  /\ UNCHANGED <<page, last>>

Init ==
  /\ now \in 0..Day - 1
  /\ page = Null
  /\ last = Null

Next == Open \/ Submit \/ Post \/ Tick

Spec == Init /\ [][Next]_vars
----------------------------------------------------------------------------
(* Properties.                                                             *)

\* What is stored expires in the future, and no later than the maximum from
\* the moment it is stored, whoever sent it and with which form of date.  The
\* one way out is a default lifetime configured beyond the maximum, or below a
\* day: parse_expiry() holds it against nothing.
HardMaximum ==
  last # Null /\ last.expires # Null =>
    \/ last.at < last.expires /\ last.expires <= last.at + MaxTtl * Day
    \/ last.raw = Null /\ DefaultTtl \notin 1..MaxTtl

OnTheDay(c) == c # Null /\ c.from # Null /\ DayOf(c.from.opened) = DayOf(c.at)

\* A page that is sent on the day it was opened is refused for no date of the
\* days that follow but the last.  Without a change of the clock it offers only
\* dates from tomorrow to the last.
OfferKept ==
  OnTheDay(last) /\ last.raw # Null =>
    LET ahead == last.raw.value - DayOf(last.at) IN
    /\ ahead \in 1..MaxTtl - 1 => last.expires # Null
    /\ last.from.shift = 0 => ahead \in 1..PageTtl
=============================================================================
