------------------------------ MODULE Clusters ------------------------------
(***************************************************************************)
(* From a reading to the controller: App::sample (core/src/app.rs), the    *)
(* deadband, and the two hand-written clusters of node/src with their      *)
(* cells, their data versions and the run loops that a signal wakes.  A    *)
(* report is synchronous; a run loop gets its turn at the executor later,  *)
(* and in the wake phase not at all.  A boot's cells start empty.          *)
(***************************************************************************)
EXTENDS Integers

CONSTANTS
  Percents,     \* what a soil reading comes to, in percent
  Voltages,     \* what a battery reading comes to, in millivolts
  Charge,       \* the charge at a voltage, in percent, off BATTERY_CURVE
  SoilDelta,    \* SOIL_REPORT_DELTA_PERCENT
  BatteryDelta, \* BATTERY_REPORT_DELTA_MV
  PresentMin,   \* BATTERY_PRESENT_MIN_MV
  MaxReadings,  \* bound: readings of a boot
  Nothing,      \* no value: a null attribute, an empty holder
  Unread        \* not read yet, or not known to the controller

ASSUME ClusterTuning ==
  /\ Percents \subseteq 0..100 /\ Voltages \subseteq Nat
  /\ Charge \in [Voltages -> 0..100]
  /\ SoilDelta \in Nat \ {0} /\ BatteryDelta \in Nat \ {0}
  /\ PresentMin \in Nat /\ MaxReadings \in Nat
  /\ {Nothing, Unread} \cap (Int \cup [percent: 0..100, rest_mv: Voltages]) = {}
  /\ Nothing # Unread

VARIABLES
  \* the boot loop
  turn,                        \* what sample reads next: "soil" or "battery"
  \* the clusters: the cell, the data version, the signal `changed`
  soil, soilVer, soilChanged,
  battery, batteryVer, batteryChanged,
  \* the stack (external)
  running,                     \* the handlers' run loops are polled
  subscribed,
  dirty,                       \* attributes to be reported to the subscriber
  \* the controller: the values it was told, and the versions it filters reads by
  told, toldVer,
  \* what the properties need to know of the past
  lastSoil, lastBattery,       \* what this boot read last
  low, high, soilNotes,        \* the band of its soil readings, and how often it notified
  readings

cells == <<soil, soilVer, soilChanged, battery, batteryVer, batteryChanged>>
past == <<lastSoil, lastBattery, low, high, soilNotes, readings>>
vars == <<turn, cells, running, subscribed, dirty, told, toldVer, past>>

SoilAttributes == {"SoilMoistureMeasuredValue"}
BatteryAttributes == {"BatPercentRemaining", "BatVoltage", "BatChargeLevel"}
Attributes == SoilAttributes \cup BatteryAttributes

\* What the run loops notify. BatChargeLevel is not among it.
Notified == {"SoilMoistureMeasuredValue", "BatPercentRemaining", "BatVoltage"}

Level(percent) ==
  IF percent < 5 THEN "Critical" ELSE IF percent < 20 THEN "Warning" ELSE "OK"

\* What a read of an attribute returns.
Value(a) ==
  CASE a = "SoilMoistureMeasuredValue" -> soil
    [] a = "BatPercentRemaining" -> IF battery = Nothing THEN Nothing ELSE 2 * battery.percent
    [] a = "BatVoltage" -> IF battery = Nothing THEN Nothing ELSE battery.rest_mv
    [] a = "BatChargeLevel" -> IF battery = Nothing THEN "OK" ELSE Level(battery.percent)

NoVersion == [c \in {"soil", "battery"} |-> Unread]

Init ==
  /\ turn = "soil"
  /\ soil = Nothing /\ soilVer = 0 /\ soilChanged = FALSE
  /\ battery = Nothing /\ batteryVer = 0 /\ batteryChanged = FALSE
  /\ running = FALSE /\ subscribed = FALSE /\ dirty = {}
  /\ told = [a \in Attributes |-> Unread] /\ toldVer = NoVersion
  /\ lastSoil = Unread /\ lastBattery = Unread
  /\ low = Unread /\ high = Unread /\ soilNotes = 0 /\ readings = 0

-----------------------------------------------------------------------------
Distance(a, b) == IF a > b THEN a - b ELSE b - a

\* Mutant: the deadband is one too wide.
MovedEnoughBeyond(reported, current, delta) == reported = Nothing \/ Distance(reported, current) > delta
\* should_report
MovedEnough(reported, current, delta) == reported = Nothing \/ Distance(reported, current) >= delta

\* Mutant: every reading that differs is news.
ReportSoilAlways(percent) ==
  IF soil # percent
  THEN soil' = percent /\ soilVer' = soilVer + 1 /\ soilChanged' = TRUE
  ELSE UNCHANGED <<soil, soilVer, soilChanged>>

\* SoilMeasurementHandler::report
ReportSoil(percent) ==
  IF MovedEnough(soil, percent, SoilDelta)
  THEN soil' = percent /\ soilVer' = soilVer + 1 /\ soilChanged' = TRUE
  ELSE UNCHANGED <<soil, soilVer, soilChanged>>

\* App::sample, up to the wait for the battery. The wake phase reads once.
SampleSoil ==
  /\ turn = "soil" /\ readings < MaxReadings
  /\ running \/ readings = 0
  /\ turn' = "battery"
  /\ readings' = readings + 1
  /\ \E percent \in Percents :
       /\ ReportSoil(percent)
       /\ lastSoil' = percent
       /\ low' = IF low = Unread \/ percent < low THEN percent ELSE low
       /\ high' = IF high = Unread \/ percent > high THEN percent ELSE high
  /\ UNCHANGED <<battery, batteryVer, batteryChanged, running, subscribed, dirty, told, toldVer,
                 lastBattery, soilNotes>>

\* estimate_battery: nothing about the battery is kept between readings.
Estimate(mv) == IF mv < PresentMin THEN Nothing ELSE [percent |-> Charge[mv], rest_mv |-> mv]

BatteryNews(reading) ==
  IF reading = Nothing THEN battery # Nothing
  ELSE MovedEnough(IF battery = Nothing THEN Nothing ELSE battery.rest_mv, reading.rest_mv, BatteryDelta)

\* Mutant: the data version moves only when there is a cell.
ReportBatteryVersion(reading) ==
  IF BatteryNews(reading)
  THEN /\ battery' = reading /\ batteryChanged' = TRUE
       /\ batteryVer' = IF reading = Nothing THEN batteryVer ELSE batteryVer + 1
  ELSE UNCHANGED <<battery, batteryVer, batteryChanged>>

\* PowerSourceHandler::report
ReportBattery(reading) ==
  IF BatteryNews(reading)
  THEN battery' = reading /\ batteryVer' = batteryVer + 1 /\ batteryChanged' = TRUE
  ELSE UNCHANGED <<battery, batteryVer, batteryChanged>>

\* The rest of App::sample.
SampleBattery ==
  /\ turn = "battery"
  /\ turn' = "soil"
  /\ \E mv \in Voltages :
       /\ ReportBattery(Estimate(mv))
       /\ lastBattery' = IF Estimate(mv) = Nothing THEN Nothing ELSE mv
  /\ UNCHANGED <<soil, soilVer, soilChanged, running, subscribed, dirty, told, toldVer,
                 lastSoil, low, high, soilNotes, readings>>

\* The stack runs, and with it the handlers: the wake phase is over.
StartRunning ==
  /\ ~running /\ turn = "soil" /\ readings > 0
  /\ running' = TRUE
  /\ UNCHANGED <<turn, cells, subscribed, dirty, told, toldVer, past>>

\* notify_attr_changed (external): a change that nobody is subscribed to is forgotten.
Notify(attributes) == dirty' = IF subscribed THEN dirty \cup attributes ELSE dirty

\* Mutant: the wait does not take the signal.
RunSoilAgain ==
  /\ running /\ soilChanged
  /\ Notify({"SoilMoistureMeasuredValue"})
  /\ soilNotes' = soilNotes + 1
  /\ UNCHANGED <<turn, cells, running, subscribed, told, toldVer, lastSoil, lastBattery, low, high, readings>>

\* SoilMeasurementHandler::run
RunSoil ==
  /\ running /\ soilChanged
  /\ soilChanged' = FALSE
  /\ Notify({"SoilMoistureMeasuredValue"})
  /\ soilNotes' = soilNotes + 1
  /\ UNCHANGED <<turn, soil, soilVer, battery, batteryVer, batteryChanged, running, subscribed, told, toldVer,
                 lastSoil, lastBattery, low, high, readings>>

\* Mutant: one attribute is forgotten.
RunBatteryVoltage ==
  /\ running /\ batteryChanged
  /\ batteryChanged' = FALSE
  /\ Notify({"BatVoltage"})
  /\ UNCHANGED <<turn, soil, soilVer, soilChanged, battery, batteryVer, running, subscribed, told, toldVer, past>>

\* PowerSourceHandler::run
RunBattery ==
  /\ running /\ batteryChanged
  /\ batteryChanged' = FALSE
  /\ Notify({"BatPercentRemaining", "BatVoltage"})
  /\ UNCHANGED <<turn, soil, soilVer, soilChanged, battery, batteryVer, running, subscribed, told, toldVer, past>>

-----------------------------------------------------------------------------
(* The stack and the controller (external).                                  *)

Version(cluster) == IF cluster = "soil" THEN soilVer ELSE batteryVer

\* The priming report of a subscription has every attribute.
Subscribe ==
  /\ running
  /\ subscribed' = TRUE
  /\ dirty' = {}
  /\ told' = [a \in Attributes |-> Value(a)]
  /\ toldVer' = [c \in {"soil", "battery"} |-> Version(c)]
  /\ UNCHANGED <<turn, cells, running, past>>

\* A report to the subscriber, an attribute at a time.
Push ==
  \E a \in dirty :
    /\ dirty' = dirty \ {a}
    /\ told' = [told EXCEPT ![a] = Value(a)]
    /\ UNCHANGED <<turn, cells, running, subscribed, toldVer, past>>

\* A read of a cluster with the data version as a filter: the same version, no data.
Read ==
  \E c \in {"soil", "battery"} :
    /\ running /\ toldVer[c] # Version(c)
    /\ told' = [a \in Attributes |->
                  IF a \in (IF c = "soil" THEN SoilAttributes ELSE BatteryAttributes) THEN Value(a) ELSE told[a]]
    /\ toldVer' = [toldVer EXCEPT ![c] = Version(c)]
    /\ UNCHANGED <<turn, cells, running, subscribed, dirty, past>>

\* A sleep or a crash ends the boot. The next one begins with empty cells and with data
\* versions drawn at random, of which a controller knows none.
Reboot ==
  /\ turn' = "soil"
  /\ soil' = Nothing /\ soilVer' = 0 /\ soilChanged' = FALSE
  /\ battery' = Nothing /\ batteryVer' = 0 /\ batteryChanged' = FALSE
  /\ running' = FALSE /\ subscribed' = FALSE /\ dirty' = {}
  /\ toldVer' = NoVersion
  /\ lastSoil' = Unread /\ lastBattery' = Unread
  /\ low' = Unread /\ high' = Unread /\ soilNotes' = 0 /\ readings' = 0
  /\ UNCHANGED told

Next ==
  \/ SampleSoil \/ SampleBattery \/ StartRunning \/ RunSoil \/ RunBattery
  \/ Subscribe \/ Push \/ Read \/ Reboot

Spec == Init /\ [][Next]_vars

-----------------------------------------------------------------------------
Readings == [percent: 0..100, rest_mv: Voltages]

TypeOK ==
  /\ turn \in {"soil", "battery"}
  /\ soil \in Percents \cup {Nothing} /\ soilVer \in 0..readings /\ soilChanged \in BOOLEAN
  /\ battery \in Readings \cup {Nothing} /\ batteryVer \in 0..readings /\ batteryChanged \in BOOLEAN
  /\ running \in BOOLEAN /\ subscribed \in BOOLEAN /\ dirty \subseteq Notified
  /\ DOMAIN told = Attributes /\ DOMAIN toldVer = {"soil", "battery"}
  /\ lastSoil \in Percents \cup {Unread} /\ lastBattery \in Voltages \cup {Nothing, Unread}
  /\ low \in Percents \cup {Unread} /\ high \in Percents \cup {Unread}
  /\ soilNotes \in 0..readings /\ readings \in Nat

(* What the clusters serve is within the deadband of what was last read,      *)
(* however slow the trend, and the charge is that of the voltage beside it    *)
(* (math.rs, should_report; power_source.rs, report).                         *)
ServedWithinDeadband ==
  /\ lastSoil # Unread => soil # Nothing /\ Distance(soil, lastSoil) < SoilDelta
  /\ lastBattery # Unread => (battery = Nothing <=> lastBattery = Nothing)
  /\ lastBattery \notin {Unread, Nothing} => Distance(battery.rest_mv, lastBattery) < BatteryDelta
  /\ battery # Nothing => battery.percent = Charge[battery.rest_mv]

(* A subscriber that was told something else than a read would return will be *)
(* told: a signal or a report is on its way, also for what was read before    *)
(* the stack ran (soil_measurement.rs, changed and run).                      *)
NothingForgotten ==
  subscribed =>
    /\ soilChanged \/ \A a \in Notified \cap SoilAttributes : told[a] = Value(a) \/ a \in dirty
    /\ batteryChanged \/ \A a \in Notified \cap BatteryAttributes : told[a] = Value(a) \/ a \in dirty

(* A controller that is refused data because it has the data version holds    *)
(* what it would be given - BatChargeLevel included, which no run notifies.   *)
SameVersionSameData ==
  /\ toldVer["soil"] = soilVer => \A a \in SoilAttributes : told[a] = Value(a)
  /\ toldVer["battery"] = batteryVer => \A a \in BatteryAttributes : told[a] = Value(a)

(* Jitter does not wake the radio: readings that stay in a band narrower than *)
(* the deadband notify once in a boot (docs/matter.md, The reporting deadband)*)
JitterNotifiesOnce ==
  low # Unread /\ high - low < SoilDelta => soilNotes <= 1
=============================================================================
