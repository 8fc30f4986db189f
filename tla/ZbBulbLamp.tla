------------------------------ MODULE ZbBulbLamp ------------------------------
(***************************************************************************)
(* The lamp of the light bulb sample (samples/zigbee/light_bulb/main.c):   *)
(* the On/Off and Level Control attributes, identify mode, and the one LED *)
(* that shows them all.  Everything runs in the ZBOSS thread.              *)
(***************************************************************************)
EXTENDS Naturals, ZbIdentify

CONSTANTS MaxLevel,   \* ZB_ZCL_LEVEL_CONTROL_LEVEL_MAX_VALUE
          MaxToggles  \* bound: what identify mode may have scheduled

Levels == 0 .. MaxLevel

VARIABLES on_off,         \* attribute of the On/Off cluster
          current_level,  \* attribute of the Level Control cluster
          identify,       \* identify mode
          lamp            \* the pin of BOARD_PIN_LED_0

vars == <<on_off, current_level, identify, lamp>>

TypeOK ==
    /\ on_off \in BOOLEAN /\ lamp \in BOOLEAN
    /\ current_level \in Levels
    /\ identify \in Identify

\* Whatever the brightness, the pin is toggled.
light_bulb_set_brightness(pin, level) == ~pin

\* main: the pin starts low, the attributes say on at full level, and the level is applied.
Init ==
    /\ on_off = TRUE
    /\ current_level = MaxLevel
    /\ identify = NotIdentifying
    /\ lamp = light_bulb_set_brightness(FALSE, MaxLevel)

level_control_set_value(level) ==
    /\ current_level' = level
    /\ lamp' = light_bulb_set_brightness(lamp, level)
    /\ UNCHANGED <<on_off, identify>>

on_off_set_value(on) ==
    /\ on_off' = on
    /\ lamp' = on
    /\ UNCHANGED <<current_level, identify>>

\* A ZCL command or attribute write; what no case handles changes nothing here.
zcl_device_cb ==
    \/ \E level \in Levels : level_control_set_value(level)
    \/ \E on \in BOOLEAN : on_off_set_value(on)

identify_cb(full) ==
    \/ /\ ~identify.on /\ (Load(identify) >= MaxToggles => full)
       /\ identify' = Begin(identify, full)
       /\ UNCHANGED <<on_off, current_level, lamp>>
    \/ /\ identify.on
       /\ identify' = End(identify)
       /\ lamp' = light_bulb_set_brightness(lamp, IF on_off THEN current_level ELSE 0)
       /\ UNCHANGED <<on_off, current_level>>

\* The brightness alternates between 0 and 255, which is all the same to the pin.
Toggle(queue, full) ==
    /\ MayToggle(identify, queue)
    /\ identify' = toggle_identify_led(identify, queue, full)
    /\ \E level \in {0, 255} : lamp' = light_bulb_set_brightness(lamp, level)
    /\ UNCHANGED <<on_off, current_level>>

Next ==
    \/ zcl_device_cb
    \/ \E full \in BOOLEAN : identify_cb(full) \/ \E queue \in BOOLEAN : Toggle(queue, full)

Spec == Init /\ [][Next]_vars

----------------------------------------------------------------------------

\* The lamp stops blinking with identify mode.
BulbBlink == BlinksOnlyWhileOn(identify)

===============================================================================
