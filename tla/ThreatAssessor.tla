--------------------------- MODULE ThreatAssessor ---------------------------
(***************************************************************************)
(* The threat assessor of bonbon_safety (core/threat_assessor.py): the last *)
(* reading of every sensor, its age where staleness is judged, and the      *)
(* snapshot built from them.  Ages count ticks and saturate one past their  *)
(* limit, which also stands for "never received".                           *)
(***************************************************************************)
EXTENDS Integers

CONSTANTS LidarMaxAge, ImuMaxAge, CameraMaxAge, PersonMaxAge   \* in ticks

ASSUME AgesAssumption == {LidarMaxAge, ImuMaxAge, CameraMaxAge, PersonMaxAge} \subseteq Nat

VARIABLES
  reading,   \* the values last received
  age        \* ticks since lidar, IMU, camera and person data were received

Sensors == {"lidar", "imu", "camera", "person"}
MaxAge(sensor) ==
  CASE sensor = "lidar" -> LidarMaxAge [] sensor = "imu" -> ImuMaxAge
    [] sensor = "camera" -> CameraMaxAge [] sensor = "person" -> PersonMaxAge

Flags == {"estop", "bumper", "cliff", "drift", "servo", "odrive",
          "critical_crashed", "important_crashed", "unsafe", "nav_timeout"}

AssessorTypeOK ==
  /\ reading \in [flags : SUBSET Flags, human : Int, battery : 0..100, cpu : Int]
  /\ age \in [Sensors -> Nat] /\ \A s \in Sensors : age[s] <= MaxAge(s) + 1

AssessorInit ==
  /\ reading = [flags |-> {}, human |-> -1, battery |-> 100, cpu |-> 20]
  /\ age = [s \in Sensors |-> MaxAge(s) + 1]

\* Fault injection: a reading may be one tick older.
StaleLate(sensor) == age[sensor] > MaxAge(sensor) + 1

Stale(sensor) == age[sensor] > MaxAge(sensor)

\* The value part of the update methods; flags are named after the field they set.
SetFlag(flag, on) ==
  reading' = [reading EXCEPT !.flags = IF on THEN @ \cup {flag} ELSE @ \ {flag}]

Stamp(sensor) == age' = [age EXCEPT ![sensor] = 0]

\* update_lidar_scan: a scan also overwrites the cliff flags, by default with FALSE.
UpdateLidarScan == SetFlag("cliff", FALSE) /\ Stamp("lidar")

\* update_imu: drifting stands for an angular rate above the drift threshold.
UpdateImu(drifting) == SetFlag("drift", drifting) /\ Stamp("imu")

UpdatePersons(nearest) == reading' = [reading EXCEPT !.human = nearest] /\ Stamp("person")

\* update_battery clamps to 0..100.
UpdateBattery(percent) ==
  /\ reading' = [reading EXCEPT !.battery = IF percent > 100 THEN 100
                                            ELSE IF percent < 0 THEN 0 ELSE percent]
  /\ UNCHANGED age

UpdateTemperature(cpu) == reading' = [reading EXCEPT !.cpu = cpu] /\ UNCHANGED age

\* update_bumpers, update_servo_state, update_estop, update_unsafe_command and
\* update_navigation_timeout, each on its own flag.
UpdateFlag(flag, on) == SetFlag(flag, on) /\ UNCHANGED age

\* build_snapshot(): stale data is not used; a stale person track reads -1.
BuildSnapshot ==
  LET on(flag) == flag \in reading.flags IN
  [estop |-> on("estop"), crashed |-> on("critical_crashed"),
   servo |-> on("servo"), odrive |-> on("odrive"),
   contact |-> on("bumper") \/ on("cliff") \/ (on("drift") /\ ~Stale("imu")),
   lidar_stale |-> Stale("lidar"),
   marginal |-> Stale("camera") \/ Stale("imu") \/ on("important_crashed")
                  \/ on("unsafe") \/ on("nav_timeout"),
   human |-> IF Stale("person") THEN -1 ELSE reading.human,
   battery |-> reading.battery, cpu |-> reading.cpu]

\* reset_transient_flags(): bumpers and e-stop hold until their next message.
ResetTransientFlags == reading' = [reading EXCEPT !.flags = @ \ {"unsafe", "nav_timeout"}]

AgeTick == age' = [s \in Sensors |-> IF Stale(s) THEN age[s] ELSE age[s] + 1]
=============================================================================
