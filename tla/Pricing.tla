------------------------------ MODULE Pricing -------------------------------
(* What a job costs (src/app/routers/public.py, _compute_booking_pricing and  *)
(* its helpers), as operators.  Time is counted in half hours from midnight   *)
(* of the day the service starts; wages are in rand, what is charged in cents.*)
(* Python rounds halves to the even number.                                   *)
EXTENDS Integers, Sequences, Functions

(* What the settings hold when no administrator has saved any.                *)
PricingRates == [half |-> [week |-> 250, weekend |-> 300],
                 full |-> [week |-> 300, weekend |-> 350],
                 after17 |-> [week |-> 30, weekend |-> 35],
                 over9 |-> [week |-> 45, weekend |-> 50],
                 sleepover |-> 150, after7 |-> 45, feePercent |-> 30]

ExtraChildCents == 5000

Midnight == 48
Seventeen == 34
NextMorning == Midnight + 14

(* round(n / d)                                                              *)
RoundHalfEven(n, d) ==
    LET q == n \div d
        twice == 2 * (n % d)
    IN IF twice > d \/ (twice = d /\ q % 2 = 1) THEN q + 1 ELSE q

PerHour(halfHours, rate) == RoundHalfEven(halfHours * rate, 2)

(* Mutant: the hours over nine are added to a half day.                       *)
DayRateOverHalf(rates, halfHours, kind) ==
    IF halfHours <= 12 THEN rates.half[kind]
    ELSE IF halfHours <= 18 THEN rates.full[kind]
    ELSE rates.half[kind] + PerHour(halfHours - 18, rates.over9[kind])

(* A day of that many half hours (_compute_day_rate).                         *)
DayRate(rates, halfHours, kind) ==
    IF halfHours <= 12 THEN rates.half[kind]
    ELSE IF halfHours <= 18 THEN rates.full[kind]
    ELSE rates.full[kind] + PerHour(halfHours - 18, rates.over9[kind])

MorningRate(rates, halfHours, kind) ==
    IF halfHours < 6 THEN PerHour(halfHours, rates.after7)
    ELSE DayRate(rates, halfHours, kind)

(* A window is what is worked from `from` to `to`, on a day of kind `day`     *)
(* followed by one of kind `next`.                                            *)
Wage(rates, x, sleepover) ==
    IF sleepover
    THEN rates.full[x.day] + rates.sleepover
         + (IF x.to > NextMorning THEN MorningRate(rates, x.to - NextMorning, x.next) ELSE 0)
    ELSE DayRate(rates, x.to - x.from, x.day)
         + (IF x.to > Seventeen THEN PerHour(x.to - Seventeen, rates.after17[x.day]) ELSE 0)

Fee(rates, wage) == RoundHalfEven(wage * rates.feePercent, 100)
WindowCents(rates, x, sleepover) ==
    100 * (Wage(rates, x, sleepover) + Fee(rates, Wage(rates, x, sleepover)))

(* The windows of a job and the surcharge for each child after the first      *)
(* (_compute_booking_slots_pricing).                                          *)
JobCents(rates, xs, sleepover, kids) ==
    LET surcharge == (kids - 1) * ExtraChildCents * Len(xs)
        cents == [i \in DOMAIN xs |-> WindowCents(rates, xs[i], sleepover)]
    IN FoldFunction(+, 0, cents) + surcharge
       + RoundHalfEven(surcharge * rates.feePercent, 100)

PricedWindows == [from : {0, 13, 16, 33, 34, 41, 47}, to : 1..(NextMorning + 24),
                  day : {"week", "weekend"}, next : {"week", "weekend"}]

(* A service that starts at the same time and ends half an hour later costs   *)
(* no less, across the thresholds of the tariff and its roundings.            *)
LongerCostsNoLess(rates) ==
    \A x \in PricedWindows, sleepover \in BOOLEAN, kids \in 1..2 :
        x.from < x.to => JobCents(rates, <<x>>, sleepover, kids)
                           <= JobCents(rates, <<[x EXCEPT !.to = x.to + 1]>>, sleepover, kids)

=============================================================================
