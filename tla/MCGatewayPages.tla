---------------------------- MODULE MCGatewayPages ----------------------------
(***************************************************************************)
(* The pages of gateway connectivity in one browser tab: the status page   *)
(* and its table, the uptime chart, and the page of one gateway with its   *)
(* offline periods and their reasons.  They share the clock and nothing    *)
(* else: a behaviour is about one of them, and the others keep a first     *)
(* state.  The uptime chart is followed once with its filters and files,   *)
(* and once with its calendar; the page of one gateway over one midnight.  *)
(***************************************************************************)
EXTENDS StatusTable, TimelinePage
LOCAL INSTANCE TLC

VARIABLE about

gatewayVars == <<statusVars, uptimeVars, fleetVars, lineVars, reasonVars, about>>

One(S) == CHOOSE x \in S : TRUE

GatewaysInit ==
  /\ about \in {"status", "uptime", "picker", "fleet", "timeline", "reasons"}
  /\ StatusInit     /\ (about # "status" => url = PresetUrl(1))
  /\ UptimeInit     /\ (about # "uptime" => uptimeUrl.range = PresetUrl(UptimeDefault))
  /\ FleetInit
  /\ LineInit       /\ lineAddress = [gateway |-> One(LineGateway), url |-> PresetUrl(2)]
  /\ ReasonsInit    /\ (about # "reasons" => outages = One(Outages))

\* What the status page has beside the clock.
statusOnly == <<url, range, today, bundle, custom, turns>>

StatusStep == StatusNext /\ UNCHANGED <<uptimeVars, fleetVars, lineVars, reasonVars>>
UptimeStep == UptimeNext /\ UNCHANGED <<statusOnly, fleetVars, lineVars, reasonVars>>
PickerStep == PickerNext /\ UNCHANGED <<statusOnly, fleetVars, lineVars, reasonVars>>
FleetStep == FleetNext /\ UNCHANGED <<statusVars, uptimeVars, lineVars, reasonVars>>
TimelineStep == LineNext /\ UNCHANGED <<statusOnly, uptimeVars, fleetVars, reasonVars>>
ReasonsStep == ReadAgain /\ UNCHANGED <<statusVars, uptimeVars, fleetVars, lineVars>>

GatewaysNext ==
  /\ about' = about
  /\ \/ about = "status" /\ StatusStep
     \/ about = "uptime" /\ UptimeStep
     \/ about = "picker" /\ PickerStep
     \/ about = "fleet" /\ FleetStep
     \/ about = "timeline" /\ TimelineStep /\ time' < LastMoment
     \/ about = "reasons" /\ ReasonsStep

GatewaysSpec == GatewaysInit /\ [][GatewaysNext]_gatewayVars

\* The gateway pages, one property: whatever days were chosen, clicked or typed, over
\* midnight too, what is shown, drawn, zoomed to and downloaded is of those days and
\* says what there was to say of the gateways; the calendar picks only days that can be
\* answered; the table shows every gateway that matches; and an offline period has
\* reasons that fit it (gatewayConnectivity.ts:262, uptimeModel.ts:4, uptimeExport.ts:122,
\* RangeControls.tsx:14, GatewayStatusTable.tsx:43, GatewayTimelinePage.tsx:72,
\* offlineReasons.ts:4).
RangesShown ==
  /\ about = "status" => ShownForRange
  /\ about = "uptime" => UptimeShown /\ FilesTellTheirRange
  /\ about = "picker" => UptimeShown /\ PicksAreAccepted
  /\ about = "fleet" => FleetShown
  /\ about = "timeline" => PeriodsTold /\ WindowInRange
  /\ about = "reasons" => ReasonsAreSound

-----------------------------------------------------------------------------
MCPresetDays == <<1, 2>>
MCTyped == {<<0, 1>>, <<2, 1>>, <<0, 4>>}

\* Gateways on- and offline over midnights, watched from the second day only, and
\* never seen.
Up == "online"
Off == "offline"
Unseen == "no-data"
MCFleet ==
  {<<Up, Up, Off, Off, Off>>, <<Off, Off, Up, Up, Off>>, <<Unseen, Unseen, Up, Off, Off>>, <<Off, Up, Off, Off, Up>>,
   <<Unseen, Unseen, Unseen, Unseen, Unseen>>, <<Up, Off, Off, Off, Off>>}

\* The order of their ids and of their addresses, one of which is not known; a search
\* holds what was up first; the third day begins a month.
MCGatewayRank ==
  (<<Up, Up, Off, Off, Off>> :> 3) @@ (<<Off, Off, Up, Up, Off>> :> 1) @@ (<<Unseen, Unseen, Up, Off, Off>> :> 2)
    @@ (<<Off, Up, Off, Off, Up>> :> 6) @@ (<<Unseen, Unseen, Unseen, Unseen, Unseen>> :> 4) @@ (<<Up, Off, Off, Off, Off>> :> 5)
MCAddressRank == [g \in MCFleet |-> IF MCGatewayRank[g] = 2 THEN 0 ELSE 7 - MCGatewayRank[g]]
MCSearches == {MCFleet, {g \in MCFleet : g[1] = Up}}
MCMonthOf == [x \in 0..4 |-> IF x < 3 THEN 1 ELSE 2]
MCLineGateway == {<<Off, Up, Off, Off, Up>>, <<Up, Up, Off, Off, Off>>}

\* Outages at one time of the day over three days, one of them before midnight; reboots
\* that were not labelled, on either side of midnight; several within an hour; labels
\* of the service; and every length.
Out(start, seconds, reason) == [start |-> start, seconds |-> seconds, reason |-> reason]
Timeline(periods, still, beats) == [periods |-> periods, still |-> still, beats |-> beats]
MCOutages ==
  {Timeline(<<Out(1435, 120, ""), Out(2885, 240, ""), Out(4310, 900, ""), Out(5765, 901, "")>>,
            FALSE, (0 :> 50) @@ (2 :> 95)),
   Timeline(<<Out(600, 7000, ""), Out(2045, 22000, ""), Out(3470, 90000, "")>>, TRUE,
            (0 :> 80) @@ (1 :> 90) @@ (2 :> 10)),
   Timeline(<<Out(100, 100, ""), Out(130, 300, ""), Out(155, 3600, ""), Out(1440, 60, Scheduled)>>,
            TRUE, 0 :> 20),
   Timeline(<<Out(500, 86400, KeepAlive), Out(3000, 300, KeepAlive), Out(3020, 301, "FIBER_CUT")>>,
            TRUE, (0 :> 70) @@ (2 :> 60))}
=============================================================================
