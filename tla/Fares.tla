---------------------------------- MODULE Fares ----------------------------------
(***************************************************************************)
(* CalculatorPage: what a seat should cost, and how a bill is split.  Both *)
(* are computed from the fields with Math.round, in rupees, at every       *)
(* render; the two tabs share nothing.  The fields hold integers, the      *)
(* mileage halves; quotients are exact.  The tab of the pocket calculator  *)
(* is left out.                                                            *)
(***************************************************************************)
EXTENDS Integers

CONSTANTS
    Presets,          \* ROUTE_PRESETS: records of a distance and the tolls
    Distances,        \* positions of the slider
    FuelPrices, Tolls, Mileages, \* numbers typed into the fields, before they are limited
    Totals,           \* numbers typed as the bill
    MaxPeople,        \* bound: people who split it
    MaxClicks         \* bound: clicks on Copy whose timers run at a time

ASSUME FaresAssumption ==
    /\ Presets \subseteq [km : 20..800, tolls : Nat]
    /\ Distances \subseteq 20..800
    /\ FuelPrices \cup Tolls \cup Mileages \cup Totals \subseteq Int
    /\ MaxPeople \in Nat \ {0} /\ MaxClicks \in Nat

VARIABLES
    distanceKm, fuelType, fuelPrice, tolls,
    mileage,          \* in half kilometres
    riders,           \* passengers
    activePreset,     \* the one that is highlighted, a set of at most one
    splitTotal, splitPeople, splitTipPercent, driverExempt,
    copied, timers    \* copiedSummary, and its timers that have not rung

fareVars  == <<distanceKm, fuelType, fuelPrice, mileage, tolls, riders, activePreset>>
splitVars == <<splitTotal, splitPeople, splitTipPercent, driverExempt, copied, timers>>
calcVars  == <<fareVars, splitVars>>

AtLeast(n, m) == IF n < m THEN m ELSE n

\* Math.round(a / b), for a not below 0: a half is rounded up.
Round(a, b) == (2 * a + b) \div (2 * b)

CalcInit ==
    /\ distanceKm = 148 /\ tolls = 320
    /\ activePreset = {[km |-> 148, tolls |-> 320]}
    /\ fuelType = "petrol" /\ fuelPrice = 103 /\ mileage = 32
    /\ riders = 3
    /\ splitTotal = 2400 /\ splitPeople = 4 /\ splitTipPercent = 0 /\ driverExempt = FALSE
    /\ copied = FALSE /\ timers = 0

-----------------------------------------------------------------------------
(* The fare                                                                *)

\* Litres, or kilowatt hours, for which the mileage of the field is not used.
fuelCost ==
    IF fuelType = "ev" THEN Round(distanceKm * 15 * fuelPrice, 100)
                       ELSE Round(2 * distanceKm * fuelPrice, mileage)

totalTripCost == fuelCost + tolls + Round(distanceKm * 12, 10)
totalPeople   == riders + 1

\* Mutant: the driver's own seat is forgotten.
PassengersPayAll == Round(totalTripCost, riders)

recommendedPricePerSeat == Round(totalTripCost, totalPeople)

driverMoneyRecovered == recommendedPricePerSeat * riders
driverFinalCost      == totalTripCost - driverMoneyRecovered

handleFuelTypeChange(t) ==
    /\ fuelType' = t
    /\ fuelPrice' = CASE t = "petrol" -> 103 [] t = "diesel" -> 90
                      [] t = "cng" -> 85     [] t = "ev" -> 8
    /\ mileage' = CASE t = "petrol" -> 32 [] t = "diesel" -> 38
                    [] t = "cng" -> 48    [] t = "ev" -> 13
    /\ UNCHANGED <<distanceKm, tolls, riders, activePreset>>

handleApplyPreset(p) ==
    /\ activePreset' = {p} /\ distanceKm' = p.km /\ tolls' = p.tolls
    /\ UNCHANGED <<fuelType, fuelPrice, mileage, riders>>

setDistanceKm(n) ==
    /\ distanceKm' = n /\ activePreset' = {}
    /\ UNCHANGED <<fuelType, fuelPrice, mileage, tolls, riders>>

setFields ==
    /\ \/ /\ \E n \in FuelPrices : fuelPrice' = AtLeast(n, 1)
          /\ UNCHANGED <<mileage, tolls, riders>>
       \/ /\ \E n \in Mileages : mileage' = AtLeast(n, 2)
          /\ UNCHANGED <<fuelPrice, tolls, riders>>
       \/ /\ \E n \in Tolls : tolls' = AtLeast(n, 0)
          /\ UNCHANGED <<fuelPrice, mileage, riders>>
       \/ /\ riders' \in 1..4
          /\ UNCHANGED <<fuelPrice, mileage, tolls>>
    /\ UNCHANGED <<distanceKm, fuelType, activePreset>>

-----------------------------------------------------------------------------
(* The bill                                                                *)

grandTotal    == splitTotal + Round(splitTotal * splitTipPercent, 100)
payingPeople  == IF driverExempt THEN AtLeast(splitPeople - 1, 1) ELSE splitPeople

perPersonShare == Round(grandTotal, payingPeople)

setSplit ==
    /\ \/ /\ \E n \in Totals : splitTotal' = AtLeast(n, 0)
          /\ UNCHANGED <<splitPeople, splitTipPercent, driverExempt>>
       \/ /\ \/ splitPeople' = AtLeast(splitPeople - 1, 1)
             \/ splitPeople < MaxPeople /\ splitPeople' = splitPeople + 1
          /\ UNCHANGED <<splitTotal, splitTipPercent, driverExempt>>
       \/ /\ splitTipPercent' \in {0, 5, 10, 15}
          /\ UNCHANGED <<splitTotal, splitPeople, driverExempt>>
       \/ driverExempt' = ~driverExempt
          /\ UNCHANGED <<splitTotal, splitPeople, splitTipPercent>>
    /\ UNCHANGED <<copied, timers>>

copySplitSummary ==
    /\ timers < MaxClicks /\ timers' = timers + 1
    /\ copied' = TRUE
    /\ UNCHANGED <<splitTotal, splitPeople, splitTipPercent, driverExempt>>

\* Whichever click it was set for.
TimerRings ==
    /\ timers > 0 /\ timers' = timers - 1
    /\ copied' = FALSE
    /\ UNCHANGED <<splitTotal, splitPeople, splitTipPercent, driverExempt>>

FareNext ==
    /\ \/ \E t \in {"petrol", "diesel", "cng", "ev"} : handleFuelTypeChange(t)
       \/ \E p \in Presets : handleApplyPreset(p)
       \/ \E n \in Distances : setDistanceKm(n)
       \/ setFields
    /\ UNCHANGED splitVars

SplitNext ==
    /\ setSplit \/ copySplitSummary \/ TimerRings
    /\ UNCHANGED fareVars

-----------------------------------------------------------------------------
(* What is true of it                                                      *)

\* At the recommended price the driver does not earn: what the passengers pay is at most
\* the cost of the trip, and the driver's part is a seat's, up to the rounding.
CostIsShared ==
    /\ driverMoneyRecovered <= totalTripCost
    /\ 2 * (driverFinalCost - recommendedPricePerSeat) \in -totalPeople..totalPeople

\* The shares make up the bill, up to half a rupee for each who pays.
SharesMakeTheBill ==
    2 * (perPersonShare * payingPeople - grandTotal) \in -payingPeople..payingPeople

\* Whoever pays, pays a fair part, whatever the fields hold.
PartsAreFair == CostIsShared /\ SharesMakeTheBill
===================================================================================
