--------------------------------- MODULE Rtc ---------------------------------
(***************************************************************************)
(* The real-time clock driver (src/modules/driver_rtc): the clock updates  *)
(* its registers one by one once a second while the driver reads them one  *)
(* by one, with interrupts disabled.  A register is a digit of the time;   *)
(* the register of the hour, whose format depends on the configuration of  *)
(* the clock, is one more that does not change while the model runs.       *)
(***************************************************************************)
EXTENDS Integers, Sequences, FiniteSets

CONSTANTS
    Registers,  \* number of registers of a TimeRegisterSnapshot
    Base,       \* values of a register
    MaxTime,    \* bound: seconds
    Configs,    \* what read_config finds: [mode, hours]
    Hours       \* hours of the day

ASSUME RtcAssumption ==
    /\ Registers \in Nat \ {0} /\ Base \in Nat \ {0, 1}
    /\ Configs \subseteq [mode : {"Binary", "Bcd"}, hours : {12, 24}] /\ Hours \subseteq 0..23

VARIABLES
    seconds,     \* what the clock shows when it is not updating
    registers,   \* the registers
    uip,         \* update in progress: the registers still to be written
    rtc_pc,      \* where get_current_time is
    snap_a, snap_b,  \* the two snapshots, as far as they are read
    rtc_start,   \* time when the loop was entered last
    updates,     \* updates since the loop was entered last
    rtc_time,    \* the time returned, or <<>>
    config,      \* the configuration
    hour,        \* the hour of the clock
    rtc_hour     \* the hour in the last snapshot

rtcVars == <<seconds, registers, uip, rtc_pc, snap_a, snap_b, rtc_start, updates, rtc_time,
             config, hour, rtc_hour>>
hourVars == <<config, hour, rtc_hour>>

Digits == 1..Registers
Shown(t) == [i \in Digits |-> (t \div Base^(i - 1)) % Base]

RtcInit ==
    /\ seconds = 0 /\ registers = Shown(0) /\ uip = {}
    /\ rtc_pc = "idle" /\ snap_a = <<>> /\ snap_b = <<>> /\ rtc_start = 0 /\ updates = 0
    /\ rtc_time = <<>>
    /\ config \in Configs /\ hour \in Hours /\ rtc_hour = 0

(* The clock.  A turn of the loop takes far less than a second, so that at *)
(* most one update begins during it.                                       *)
clock_begin ==
    /\ uip = {} /\ seconds < MaxTime
    /\ rtc_pc # "idle" => updates = 0
    /\ uip' = Digits /\ updates' = updates + 1
    /\ UNCHANGED <<seconds, registers, rtc_pc, snap_a, snap_b, rtc_start, rtc_time, hourVars>>

clock_write ==
    \E i \in uip :
        /\ registers' = [registers EXCEPT ![i] = Shown(seconds + 1)[i]]
        /\ uip' = uip \ {i}
        /\ seconds' = IF uip = {i} THEN seconds + 1 ELSE seconds
        /\ UNCHANGED <<rtc_pc, snap_a, snap_b, rtc_start, updates, rtc_time, hourVars>>

Enter ==
    /\ rtc_pc' = "check_a" /\ snap_a' = <<>> /\ snap_b' = <<>>
    /\ rtc_start' = seconds /\ updates' = IF uip = {} THEN 0 ELSE 1

get_current_time ==
    /\ rtc_pc = "idle"
    /\ Enter /\ rtc_time' = <<>>
    /\ UNCHANGED <<seconds, registers, uip, hourVars>>

(* Mutant: the flag is looked at before the first snapshot only.           *)
check_once ==
    /\ rtc_pc \in {"check_a", "check_b"}
    /\ IF uip # {} /\ rtc_pc = "check_a" THEN Enter
       ELSE /\ rtc_pc' = IF rtc_pc = "check_a" THEN "a" ELSE "b"
            /\ UNCHANGED <<snap_a, snap_b, rtc_start, updates>>
    /\ UNCHANGED <<seconds, registers, uip, rtc_time, hourVars>>

(* is_update_in_progress before either snapshot starts the loop over.      *)
is_update_in_progress ==
    /\ rtc_pc \in {"check_a", "check_b"}
    /\ IF uip # {} THEN Enter
       ELSE /\ rtc_pc' = IF rtc_pc = "check_a" THEN "a" ELSE "b"
            /\ UNCHANGED <<snap_a, snap_b, rtc_start, updates>>
    /\ UNCHANGED <<seconds, registers, uip, rtc_time, hourVars>>

(* The hour as the clock shows it: in binary or packed decimal, with 24    *)
(* hours or with 12 and a bit for the afternoon.                           *)
hour_register ==
    LET h == IF config.hours = 24 THEN hour ELSE IF hour % 12 = 0 THEN 12 ELSE hour % 12
    IN  (IF config.mode = "Bcd" THEN ((h \div 10) * 16) + (h % 10) ELSE h)
        + (IF config.hours = 12 /\ hour >= 12 THEN 128 ELSE 0)

(* Mode::to_bin: the shifts are divisions of the upper digit.              *)
to_bin(v) ==
    IF config.mode = "Binary" THEN v
    ELSE (((v \div 16) * 16) \div 2) + (((v \div 16) * 16) \div 8) + (v % 16)

(* HoursMode::to_24h; its assertions are in the action that calls it.      *)
to_24h(v) ==
    LET m == v % 128
    IN  IF config.hours = 24 THEN v
        ELSE IF v >= 128 THEN (IF m = 12 THEN 12 ELSE m + 12) ELSE (IF m = 12 THEN 0 ELSE m)

(* TimeRegisterSnapshot::read, one register.                               *)
read_register ==
    /\ UNCHANGED <<seconds, registers, uip, rtc_start, updates, rtc_time>>
    /\ \/ /\ rtc_pc = "a" /\ Len(snap_a) < Registers
          /\ snap_a' = Append(snap_a, registers[Len(snap_a) + 1])
          /\ UNCHANGED <<rtc_pc, snap_b>>
       \/ /\ rtc_pc = "b" /\ Len(snap_b) < Registers
          /\ snap_b' = Append(snap_b, registers[Len(snap_b) + 1])
          /\ UNCHANGED <<rtc_pc, snap_a>>
    /\ UNCHANGED hourVars

(* The register of the hour, which completes the snapshot: the conversions *)
(* and the assertions that an hour of the 12-hour clock is in 1..12.       *)
read_hours ==
    /\ \/ rtc_pc = "a" /\ Len(snap_a) = Registers
       \/ rtc_pc = "b" /\ Len(snap_b) = Registers
    /\ LET v == to_bin(hour_register)
       IN  /\ rtc_hour' = to_24h(v)
           /\ rtc_pc' = IF config.hours = 12 /\ v % 128 \notin 1..12 THEN "panic"
                        ELSE IF rtc_pc = "a" THEN "check_b" ELSE "compare"
    /\ UNCHANGED <<seconds, registers, uip, snap_a, snap_b, rtc_start, updates, rtc_time, config, hour>>

(* Equal snapshots end the loop; the hour is asserted to be one of a day.  *)
compare_snapshots ==
    /\ rtc_pc = "compare"
    /\ IF snap_a = snap_b
       THEN /\ rtc_pc' = IF rtc_hour < 24 THEN "idle" ELSE "panic"
            /\ rtc_time' = snap_a
            /\ UNCHANGED <<snap_a, snap_b, rtc_start, updates>>
       ELSE Enter /\ UNCHANGED rtc_time
    /\ UNCHANGED <<seconds, registers, uip, hourVars>>

RtcReader == is_update_in_progress \/ read_register \/ read_hours \/ compare_snapshots

RtcNext == clock_begin \/ clock_write \/ get_current_time \/ RtcReader

RtcSpec == RtcInit /\ [][RtcNext]_rtcVars /\ WF_rtcVars(RtcReader) /\ WF_rtcVars(clock_write)
----------------------------------------------------------------------------
(***************************************************************************)
(* get_current_time has returned, although an update may restart it.       *)
(***************************************************************************)
RtcIdle == rtc_pc \in {"idle", "panic"}

(***************************************************************************)
(* The hour returned is the hour of the day, in the formats other than     *)
(* packed decimal with 12 hours (Mode::to_bin, then HoursMode::to_24h).    *)
(***************************************************************************)
HoursConverted ==
    config # [mode |-> "Bcd", hours |-> 12] =>
        /\ rtc_pc # "panic"
        /\ rtc_time # <<>> => rtc_hour = hour

(***************************************************************************)
(* The time returned is one the clock showed during the last turn of the   *)
(* loop, never a mixture of the registers of two seconds, and its hour is  *)
(* the hour of the day.                                                    *)
(***************************************************************************)
TimeNotTorn ==
    /\ rtc_time # <<>> => \E t \in rtc_start..seconds + 1 : rtc_time = Shown(t)
    /\ HoursConverted
=============================================================================
