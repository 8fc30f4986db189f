------------------------------ MODULE MCImages ------------------------------
(***************************************************************************)
(* TLC instance of the applications, each of them an image of its own: a   *)
(* behaviour is one of a single image, chosen initially, and the variables *)
(* of the others stand still.  The light bulb is the module extended here. *)
(***************************************************************************)
EXTENDS ZbLightBulb

CONSTANTS
    SwitchInterval, SwitchPlaces, SwitchCallbacks,  \* ZbLightSwitch: its first three
    Bulbs, NoBulb, Buttons, MaxFinds,   \* ZbSwitchFind, Buttons its Commands
    MaxLevel,                           \* ZbBulbLamp
    DeviceToggles,                      \* MaxToggles of these two
    MaxTimers, MaxBuffers, MaxToggles,  \* ZbCoordinator
    Options, Commands, Reserved, Discardable, MaxMessages,  \* Hci
    SCAN_Q_DEPTH,                       \* BleScan
    Wrap, Texts, BufferSizes            \* NfcTag

\* No bulb has the broadcast address; the largest buffer is well below the largest number.
ASSUME ImagesAssumption ==
    /\ NoBulb \notin Bulbs
    /\ MaxLevel \in Nat /\ SCAN_Q_DEPTH \in Nat /\ MaxMessages \in Nat
    /\ SwitchPlaces \subseteq Nat /\ Reserved \in Nat /\ Discardable \in Nat
    /\ Wrap \in Nat /\ BufferSizes \subseteq 2..(Wrap - 1)
    /\ Texts \in Seq(Nat \X Nat) /\ Texts # <<>>

\* The lengths of the language codes and of the texts of the NFC samples.
MCTexts == <<<<2, 12>>, <<2, 13>>, <<2, 15>>>>

VARIABLES
    image,
    sw_node, sw_signals, sw_known,
    fi_joined, fi_find, fi_sends, fi_dropped, fi_identify,
    la_on_off, la_current_level, la_identify, la_lamp,
    co_stack, co_timers, co_retries, co_signals, co_led, co_extending, co_panid,
    co_identify, co_known,
    hc_phase, hc_inbox, hc_swi, hc_notified, hc_lp, hc_cut, hc_held, hc_starved,
    hc_host, hc_answer,
    hr_stack, hr_fault, hr_gaveUp, hr_conn_handle, hr_notify_state, hr_timer,
    ad_sample, ad_stack, ad_fault, ad_gaveUp, ad_conn_handle, ad_pairing,
    sc_host, sc_refused, sc_scan_q, sc_printing, sc_dropped, sc_fault,
    ta_type, ta_step, ta_size, ta_records, ta_message, ta_field, ta_seen, ta_clock,
    ta_started, ta_nfct, ta_field_led

swVars == <<sw_node, sw_signals, sw_known>>
fiVars == <<fi_joined, fi_find, fi_sends, fi_dropped, fi_identify>>
laVars == <<la_on_off, la_current_level, la_identify, la_lamp>>
coVars == <<co_stack, co_timers, co_retries, co_signals, co_led, co_extending, co_panid,
  co_identify, co_known>>
hcVars == <<hc_phase, hc_inbox, hc_swi, hc_notified, hc_lp, hc_cut, hc_held, hc_starved,
  hc_host, hc_answer>>
hrVars == <<hr_stack, hr_fault, hr_gaveUp, hr_conn_handle, hr_notify_state, hr_timer>>
adVars == <<ad_sample, ad_stack, ad_fault, ad_gaveUp, ad_conn_handle, ad_pairing>>
scVars == <<sc_host, sc_refused, sc_scan_q, sc_printing, sc_dropped, sc_fault>>
taVars == <<ta_type, ta_step, ta_size, ta_records, ta_message, ta_field, ta_seen, ta_clock,
  ta_started, ta_nfct, ta_field_led>>

all == <<image, vars, swVars, fiVars, laVars, coVars, hcVars, hrVars, adVars, scVars, taVars>>

Switch == INSTANCE ZbLightSwitch WITH
    RejoinIntervalMax <- SwitchInterval, Places <- SwitchPlaces,
    MaxCallbacks <- SwitchCallbacks, node <- sw_node, signals <- sw_signals, known <- sw_known
Find == INSTANCE ZbSwitchFind WITH
    Commands <- Buttons, MaxToggles <- DeviceToggles, joined <- fi_joined, find <- fi_find,
    sends <- fi_sends, dropped <- fi_dropped, identify <- fi_identify
Lamp == INSTANCE ZbBulbLamp WITH
    MaxToggles <- DeviceToggles, on_off <- la_on_off, current_level <- la_current_level,
    identify <- la_identify, lamp <- la_lamp
Coordinator == INSTANCE ZbCoordinator WITH
    stack <- co_stack, timers <- co_timers, retries <- co_retries,
    signals <- co_signals, led <- co_led, extending <- co_extending,
    panid <- co_panid, identify <- co_identify, known <- co_known
Transport == INSTANCE Hci WITH
    phase <- hc_phase, inbox <- hc_inbox, swi <- hc_swi, notified <- hc_notified, lp <- hc_lp,
    cut <- hc_cut, held <- hc_held, starved <- hc_starved, host <- hc_host,
    answer <- hc_answer
Heart == INSTANCE BleHeartRate WITH
    stack <- hr_stack, fault <- hr_fault, gaveUp <- hr_gaveUp,
    conn_handle <- hr_conn_handle, notify_state <- hr_notify_state,
    timer <- hr_timer
Advertiser == INSTANCE BleAdvertiser WITH
    Bails <- TRUE, sample <- ad_sample, stack <- ad_stack, fault <- ad_fault,
    gaveUp <- ad_gaveUp, conn_handle <- ad_conn_handle, pairing <- ad_pairing
Scanner == INSTANCE BleScan WITH
    host <- sc_host, refused <- sc_refused, scan_q <- sc_scan_q,
    printing <- sc_printing, dropped <- sc_dropped, fault <- sc_fault
Tag == INSTANCE NfcTag WITH
    type <- ta_type, step <- ta_step, size <- ta_size, records <- ta_records,
    message <- ta_message, field <- ta_field, seen <- ta_seen, clock <- ta_clock,
    started <- ta_started, nfct <- ta_nfct, field_led <- ta_field_led

Images == {"bulb", "switch", "find", "lamp", "coordinator",
           "hci", "heart", "advertiser", "scanner", "tag"}

\* A step A of one image, in which the others stand still.
Of(i, A) ==
    /\ image = i /\ A /\ UNCHANGED image
    /\ i # "bulb" => UNCHANGED vars
    /\ i # "switch" => UNCHANGED swVars
    /\ i # "find" => UNCHANGED fiVars
    /\ i # "lamp" => UNCHANGED laVars
    /\ i # "coordinator" => UNCHANGED coVars
    /\ i # "hci" => UNCHANGED hcVars
    /\ i # "heart" => UNCHANGED hrVars
    /\ i # "advertiser" => UNCHANGED adVars
    /\ i # "scanner" => UNCHANGED scVars
    /\ i # "tag" => UNCHANGED taVars

ImagesInit ==
    /\ image \in Images
    /\ Init /\ Switch!Init /\ Find!Init /\ Lamp!Init /\ Coordinator!Init
    /\ Transport!Init /\ Heart!Init /\ Advertiser!Init /\ Scanner!Init /\ Tag!Init
    \* An image that does not run has no variants.
    /\ image # "advertiser" => ad_sample = "ble_adv"
    /\ image # "tag" => ta_type = "t2t" /\ \A s \in BufferSizes : s <= ta_size

ImagesNext ==
    \/ Of("bulb", Next)
    \/ Of("switch", Switch!Next)
    \/ Of("find", Find!Next)
    \/ Of("lamp", Lamp!Next)
    \/ Of("coordinator", Coordinator!Next)
    \/ Of("hci", Transport!Next)
    \/ Of("heart", Heart!Next)
    \/ Of("advertiser", Advertiser!Next)
    \/ Of("scanner", Scanner!Next)
    \/ Of("tag", Tag!Next)

\* A step that one image owes.
Due(i, A) == image = i /\ A

\* The fairness of each image's specification.
ImagesSpec ==
    /\ ImagesInit /\ [][ImagesNext]_all
    /\ WF_vars(Due("bulb", Handle)) /\ WF_vars(Due("bulb", SteeringAlarm))
    /\ WF_vars(Due("bulb", Network))
    /\ WF_coVars(Due("coordinator", Coordinator!Signals))
    /\ WF_coVars(Due("coordinator", Coordinator!Stack))
    /\ SF_coVars(Due("coordinator", Coordinator!FormationAlarm))
    /\ SF_coVars(Due("coordinator", Coordinator!steering_finished))
    /\ SF_coVars(Due("coordinator", Coordinator!PeriodEnds))
    /\ WF_hcVars(Due("hci", Transport!SWI03_IRQHandler))
    /\ WF_hcVars(Due("hci", Transport!LowPriority))
    /\ WF_scVars(Due("scanner", Scanner!scan_print_task))
    /\ WF_scVars(Due("scanner", Scanner!on_sync))

-----------------------------------------------------------------------------
\* The types of all images.
TypesOK ==
    /\ image \in Images
    /\ TypeOK /\ Switch!TypeOK /\ Find!TypeOK /\ Lamp!TypeOK /\ Coordinator!TypeOK
    /\ Transport!TypeOK /\ Heart!TypeOK /\ Advertiser!TypeOK /\ Scanner!TypeOK /\ Tag!TypeOK

\* A light switch does not come to rest half way: out of the network only because of a
\* button pressed too late, a procedure begun without its timeout or a failed first start,
\* in it without a bulb only for want of a buffer.
SwitchGoesOn == Switch!StuckOnlyBy /\ Find!SearchGoesOn

\* A bulb outside a network tries to join, a coordinator without one tries to form it,
\* and a scanner whose window has ended begins another, again and again, except in the
\* cases the three properties name.
TriesAgain ==
    /\ BulbTriesAgain /\ Coordinator!EventuallyForms
    /\ image = "scanner" => Scanner!ScansAgain

\* While the coordinator's network is open its LED is lit, unless its alarm found no place
\* or was set beside another.
LitWhileOpen == Coordinator!LitWhileOpen

\* No image goes on blinking after identify mode has ended.
BlinkEnds == Find!SwitchBlink /\ Lamp!BulbBlink /\ Coordinator!CoordinatorBlink

\* A flood of advertising reports never costs the host an event.
ReportsNeverStarve == Transport!ReportsNeverStarve

\* A message of the controller that waits gets its turn.
NoMessageForgotten == Transport!NoMessageForgotten

\* While a peer is subscribed there is a peer, and the next beat is on its way to it.
HeartBeats == Heart!HeartBeats /\ Heart!SubscriberIsThere

\* A peripheral that is up can be found or is connected, unless NimBLE refused.
Reachable == Heart!Reachable /\ Advertiser!Reachable

\* The tag is only activated on a running HFXO.
ActivatedOnlyOnClock == Tag!ActivatedOnlyOnClock

\* The NDEF message never leaves its buffer.
PayloadInBuffer == Tag!PayloadInBuffer
=============================================================================
