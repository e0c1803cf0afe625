--------------------------- MODULE ServicesProofs ---------------------------
(***************************************************************************)
(* A behaviour of the composition is, for each service, a behaviour of     *)
(* that service: its own steps are the service's, the others leave its     *)
(* variables alone.  What is proved of the services is so proved of their  *)
(* composition, property by property as the run of MCServices states it.   *)
(***************************************************************************)
EXTENDS Services, DeliveriesProofs, StoresProofs

serviceVars ==
    <<service, Hub!hubVars, Gate!gateVars, Capture!procVars, Assets!assetVars, Intel!intelVars, Logs!logVars,
      Store!storeVars, Triage!triageVars, Models!modelVars, Baseline!baseVars, Buffers!bufferVars, Drift!driftVars,
      Flow!flowVars, Host!hostVars, Inspection!inspectVars, Siem!forwardVars, Texts!textVars, Scrape!scrapeVars,
      Dns!dnsVars, Trust!trustVars, Bench!benchVars>>

(* Steps are those of the service that runs, and leave to the others what is theirs. *)
LEMMA OneServiceRuns ==
    ASSUME Next
    PROVE  /\ Unchanged(service)
           /\ service = "hub" => Hub!Next
           /\ service = "gate" => Gate!Next
           /\ service = "capture" => Capture!Next
           /\ service = "assets" => Assets!Next
           /\ service = "intel" => Intel!Next
           /\ service = "store" => Store!Next
           /\ service = "triage" => Triage!Next
           /\ service = "models" => Models!Next
           /\ service = "baseline" => Baseline!Next
           /\ service = "buffers" => Buffers!Next
           /\ service = "drift" => Drift!Next
           /\ service = "siem" => Siem!Next
           /\ service = "inspect" => Inspection!Next
           /\ service = "texts" => Texts!Next
           /\ service = "scrape" => Scrape!Next
           /\ service = "trust" => Trust!Next
<1>1. CASE HubStep
  BY <1>1 DEF HubStep
<1>2. CASE GateStep
  BY <1>2 DEF GateStep
<1>3. CASE CaptureStep
  BY <1>3 DEF CaptureStep
<1>4. CASE AssetsStep
  BY <1>4 DEF AssetsStep
<1>5. CASE IntelStep
  BY <1>5 DEF IntelStep
<1>6. CASE LogsStep
  BY <1>6 DEF LogsStep
<1>7. CASE StoreStep
  BY <1>7 DEF StoreStep
<1>8. CASE TriageStep
  BY <1>8 DEF TriageStep
<1>9. CASE ModelsStep
  BY <1>9 DEF ModelsStep
<1>10. CASE BaselineStep
  BY <1>10 DEF BaselineStep
<1>11. CASE BuffersStep
  BY <1>11 DEF BuffersStep
<1>12. CASE DriftStep
  BY <1>12 DEF DriftStep
<1>13. CASE FlowStep
  BY <1>13 DEF FlowStep
<1>14. CASE HostStep
  BY <1>14 DEF HostStep
<1>15. CASE InspectionStep
  BY <1>15 DEF InspectionStep
<1>16. CASE SiemStep
  BY <1>16 DEF SiemStep
<1>17. CASE TextsStep
  BY <1>17 DEF TextsStep
<1>18. CASE ScrapeStep
  BY <1>18 DEF ScrapeStep
<1>19. CASE DnsStep
  BY <1>19 DEF DnsStep
<1>20. CASE TrustStep
  BY <1>20 DEF TrustStep
<1>21. CASE BenchStep
  BY <1>21 DEF BenchStep
<1> QED
  BY <1>1, <1>2, <1>3, <1>4, <1>5, <1>6, <1>7, <1>8, <1>9, <1>10, <1>11, <1>12, <1>13, <1>14, <1>15, <1>16, <1>17, <1>18, <1>19, <1>20, <1>21 DEF Next

(* The stream and the gate read one configuration, and neither changes it. *)
LEMMA ModeStays ==
    /\ Gate!Next => mode' = mode
    /\ Hub!Next => mode' = mode
<1>1. Gate!Next => mode' = mode
  BY DEF Gate!Next, Gate!Tick, Gate!PruneInactive, Gate!Refuse, Gate!Serve, Gate!Deny
<1>2. Hub!Next => mode' = mode
  BY DEF Hub!Next, Hub!Connect, Hub!Admit, Hub!Refuse, Hub!Refused, Hub!Accepted, Hub!Join, Hub!Hangup, Hub!Leave,
         Hub!Broadcast, Hub!Begin, Hub!Send, Hub!End
<1> QED
  BY <1>1, <1>2

LEMMA HubRuns == Spec => Hub!Spec
<1>1. Init => Hub!Init
  BY DEF Init
<1>2. [Next]_serviceVars => [Hub!Next]_(Hub!hubVars)
  <2> SUFFICES ASSUME [Next]_serviceVars PROVE [Hub!Next]_(Hub!hubVars)
    OBVIOUS
  <2>1. CASE UNCHANGED serviceVars
    BY <2>1 DEF serviceVars
  <2>2. CASE Next /\ service = "hub"
    BY <2>2, OneServiceRuns
  <2>3. CASE Next /\ service # "hub"
    <3>1. mode' = mode
      BY <2>3, OneServiceRuns, ModeStays DEF Unchanged
    <3> QED
      BY <2>3, <3>1, OneServiceRuns DEF Unchanged, Hub!hubVars
  <2> QED
    BY <2>1, <2>2, <2>3
<1> QED
  BY <1>1, <1>2, PTL DEF Spec, serviceVars, Hub!Spec

LEMMA GateRuns == Spec => Gate!Spec
<1>1. Init => Gate!Init
  BY DEF Init
<1>2. [Next]_serviceVars => [Gate!Next]_(Gate!gateVars)
  <2> SUFFICES ASSUME [Next]_serviceVars PROVE [Gate!Next]_(Gate!gateVars)
    OBVIOUS
  <2>1. CASE UNCHANGED serviceVars
    BY <2>1 DEF serviceVars
  <2>2. CASE Next /\ service = "gate"
    BY <2>2, OneServiceRuns
  <2>3. CASE Next /\ service # "gate"
    <3>1. mode' = mode
      BY <2>3, OneServiceRuns, ModeStays DEF Unchanged
    <3> QED
      BY <2>3, <3>1, OneServiceRuns DEF Unchanged, Gate!gateVars
  <2> QED
    BY <2>1, <2>2, <2>3
<1> QED
  BY <1>1, <1>2, PTL DEF Spec, serviceVars, Gate!Spec

LEMMA CaptureRuns == Spec => Capture!Spec
<1>1. Init => Capture!Init
  BY DEF Init
<1>2. [Next]_serviceVars => [Capture!Next]_(Capture!procVars)
  <2> SUFFICES ASSUME [Next]_serviceVars PROVE [Capture!Next]_(Capture!procVars)
    OBVIOUS
  <2>1. CASE UNCHANGED serviceVars
    BY <2>1 DEF serviceVars
  <2>2. CASE Next /\ service = "capture"
    BY <2>2, OneServiceRuns
  <2>3. CASE Next /\ service # "capture"
    BY <2>3, OneServiceRuns DEF Unchanged, Capture!procVars
  <2> QED
    BY <2>1, <2>2, <2>3
<1> QED
  BY <1>1, <1>2, PTL DEF Spec, serviceVars, Capture!Spec

LEMMA AssetsRuns == Spec => Assets!Spec
<1>1. Init => Assets!Init
  BY DEF Init
<1>2. [Next]_serviceVars => [Assets!Next]_(Assets!assetVars)
  <2> SUFFICES ASSUME [Next]_serviceVars PROVE [Assets!Next]_(Assets!assetVars)
    OBVIOUS
  <2>1. CASE UNCHANGED serviceVars
    BY <2>1 DEF serviceVars
  <2>2. CASE Next /\ service = "assets"
    BY <2>2, OneServiceRuns
  <2>3. CASE Next /\ service # "assets"
    BY <2>3, OneServiceRuns DEF Unchanged, Assets!assetVars
  <2> QED
    BY <2>1, <2>2, <2>3
<1> QED
  BY <1>1, <1>2, PTL DEF Spec, serviceVars, Assets!Spec

LEMMA IntelRuns == Spec => Intel!Spec
<1>1. Init => Intel!Init
  BY DEF Init
<1>2. [Next]_serviceVars => [Intel!Next]_(Intel!intelVars)
  <2> SUFFICES ASSUME [Next]_serviceVars PROVE [Intel!Next]_(Intel!intelVars)
    OBVIOUS
  <2>1. CASE UNCHANGED serviceVars
    BY <2>1 DEF serviceVars
  <2>2. CASE Next /\ service = "intel"
    BY <2>2, OneServiceRuns
  <2>3. CASE Next /\ service # "intel"
    BY <2>3, OneServiceRuns DEF Unchanged, Intel!intelVars
  <2> QED
    BY <2>1, <2>2, <2>3
<1> QED
  BY <1>1, <1>2, PTL DEF Spec, serviceVars, Intel!Spec

LEMMA StoreRuns == Spec => Store!Spec
<1>1. Init => Store!Init
  BY DEF Init
<1>2. [Next]_serviceVars => [Store!Next]_(Store!storeVars)
  <2> SUFFICES ASSUME [Next]_serviceVars PROVE [Store!Next]_(Store!storeVars)
    OBVIOUS
  <2>1. CASE UNCHANGED serviceVars
    BY <2>1 DEF serviceVars
  <2>2. CASE Next /\ service = "store"
    BY <2>2, OneServiceRuns
  <2>3. CASE Next /\ service # "store"
    BY <2>3, OneServiceRuns DEF Unchanged, Store!storeVars
  <2> QED
    BY <2>1, <2>2, <2>3
<1> QED
  BY <1>1, <1>2, PTL DEF Spec, serviceVars, Store!Spec

LEMMA TriageRuns == Spec => Triage!Spec
<1>1. Init => Triage!Init
  BY DEF Init
<1>2. [Next]_serviceVars => [Triage!Next]_(Triage!triageVars)
  <2> SUFFICES ASSUME [Next]_serviceVars PROVE [Triage!Next]_(Triage!triageVars)
    OBVIOUS
  <2>1. CASE UNCHANGED serviceVars
    BY <2>1 DEF serviceVars
  <2>2. CASE Next /\ service = "triage"
    BY <2>2, OneServiceRuns
  <2>3. CASE Next /\ service # "triage"
    BY <2>3, OneServiceRuns DEF Unchanged, Triage!triageVars
  <2> QED
    BY <2>1, <2>2, <2>3
<1> QED
  BY <1>1, <1>2, PTL DEF Spec, serviceVars, Triage!Spec

LEMMA ModelsRuns == Spec => Models!Spec
<1>1. Init => Models!Init
  BY DEF Init
<1>2. [Next]_serviceVars => [Models!Next]_(Models!modelVars)
  <2> SUFFICES ASSUME [Next]_serviceVars PROVE [Models!Next]_(Models!modelVars)
    OBVIOUS
  <2>1. CASE UNCHANGED serviceVars
    BY <2>1 DEF serviceVars
  <2>2. CASE Next /\ service = "models"
    BY <2>2, OneServiceRuns
  <2>3. CASE Next /\ service # "models"
    BY <2>3, OneServiceRuns DEF Unchanged, Models!modelVars
  <2> QED
    BY <2>1, <2>2, <2>3
<1> QED
  BY <1>1, <1>2, PTL DEF Spec, serviceVars, Models!Spec

LEMMA BaselineRuns == Spec => Baseline!Spec
<1>1. Init => Baseline!Init
  BY DEF Init
<1>2. [Next]_serviceVars => [Baseline!Next]_(Baseline!baseVars)
  <2> SUFFICES ASSUME [Next]_serviceVars PROVE [Baseline!Next]_(Baseline!baseVars)
    OBVIOUS
  <2>1. CASE UNCHANGED serviceVars
    BY <2>1 DEF serviceVars
  <2>2. CASE Next /\ service = "baseline"
    BY <2>2, OneServiceRuns
  <2>3. CASE Next /\ service # "baseline"
    BY <2>3, OneServiceRuns DEF Unchanged, Baseline!baseVars
  <2> QED
    BY <2>1, <2>2, <2>3
<1> QED
  BY <1>1, <1>2, PTL DEF Spec, serviceVars, Baseline!Spec

LEMMA BuffersRuns == Spec => Buffers!Spec
<1>1. Init => Buffers!Init
  BY DEF Init
<1>2. [Next]_serviceVars => [Buffers!Next]_(Buffers!bufferVars)
  <2> SUFFICES ASSUME [Next]_serviceVars PROVE [Buffers!Next]_(Buffers!bufferVars)
    OBVIOUS
  <2>1. CASE UNCHANGED serviceVars
    BY <2>1 DEF serviceVars
  <2>2. CASE Next /\ service = "buffers"
    BY <2>2, OneServiceRuns
  <2>3. CASE Next /\ service # "buffers"
    BY <2>3, OneServiceRuns DEF Unchanged, Buffers!bufferVars
  <2> QED
    BY <2>1, <2>2, <2>3
<1> QED
  BY <1>1, <1>2, PTL DEF Spec, serviceVars, Buffers!Spec

LEMMA DriftRuns == Spec => Drift!Spec
<1>1. Init => Drift!Init
  BY DEF Init
<1>2. [Next]_serviceVars => [Drift!Next]_(Drift!driftVars)
  <2> SUFFICES ASSUME [Next]_serviceVars PROVE [Drift!Next]_(Drift!driftVars)
    OBVIOUS
  <2>1. CASE UNCHANGED serviceVars
    BY <2>1 DEF serviceVars
  <2>2. CASE Next /\ service = "drift"
    BY <2>2, OneServiceRuns
  <2>3. CASE Next /\ service # "drift"
    BY <2>3, OneServiceRuns DEF Unchanged, Drift!driftVars
  <2> QED
    BY <2>1, <2>2, <2>3
<1> QED
  BY <1>1, <1>2, PTL DEF Spec, serviceVars, Drift!Spec

LEMMA SiemRuns == Spec => Siem!Spec
<1>1. Init => Siem!Init
  BY DEF Init
<1>2. [Next]_serviceVars => [Siem!Next]_(Siem!forwardVars)
  <2> SUFFICES ASSUME [Next]_serviceVars PROVE [Siem!Next]_(Siem!forwardVars)
    OBVIOUS
  <2>1. CASE UNCHANGED serviceVars
    BY <2>1 DEF serviceVars
  <2>2. CASE Next /\ service = "siem"
    BY <2>2, OneServiceRuns
  <2>3. CASE Next /\ service # "siem"
    BY <2>3, OneServiceRuns DEF Unchanged, Siem!forwardVars
  <2> QED
    BY <2>1, <2>2, <2>3
<1> QED
  BY <1>1, <1>2, PTL DEF Spec, serviceVars, Siem!Spec

LEMMA InspectionRuns == Spec => Inspection!Spec
<1>1. Init => Inspection!Init
  BY DEF Init
<1>2. [Next]_serviceVars => [Inspection!Next]_(Inspection!inspectVars)
  <2> SUFFICES ASSUME [Next]_serviceVars PROVE [Inspection!Next]_(Inspection!inspectVars)
    OBVIOUS
  <2>1. CASE UNCHANGED serviceVars
    BY <2>1 DEF serviceVars
  <2>2. CASE Next /\ service = "inspect"
    BY <2>2, OneServiceRuns
  <2>3. CASE Next /\ service # "inspect"
    BY <2>3, OneServiceRuns DEF Unchanged, Inspection!inspectVars
  <2> QED
    BY <2>1, <2>2, <2>3
<1> QED
  BY <1>1, <1>2, PTL DEF Spec, serviceVars, Inspection!Spec

LEMMA ScrapeRuns == Spec => Scrape!Spec
<1>1. Init => Scrape!Init
  BY DEF Init
<1>2. [Next]_serviceVars => [Scrape!Next]_(Scrape!scrapeVars)
  <2> SUFFICES ASSUME [Next]_serviceVars PROVE [Scrape!Next]_(Scrape!scrapeVars)
    OBVIOUS
  <2>1. CASE UNCHANGED serviceVars
    BY <2>1 DEF serviceVars
  <2>2. CASE Next /\ service = "scrape"
    BY <2>2, OneServiceRuns
  <2>3. CASE Next /\ service # "scrape"
    BY <2>3, OneServiceRuns DEF Unchanged, Scrape!scrapeVars
  <2> QED
    BY <2>1, <2>2, <2>3
<1> QED
  BY <1>1, <1>2, PTL DEF Spec, serviceVars, Scrape!Spec

LEMMA TrustRuns == Spec => Trust!Spec
<1>1. Init => Trust!Init
  BY DEF Init
<1>2. [Next]_serviceVars => [Trust!Next]_(Trust!trustVars)
  <2> SUFFICES ASSUME [Next]_serviceVars PROVE [Trust!Next]_(Trust!trustVars)
    OBVIOUS
  <2>1. CASE UNCHANGED serviceVars
    BY <2>1 DEF serviceVars
  <2>2. CASE Next /\ service = "trust"
    BY <2>2, OneServiceRuns
  <2>3. CASE Next /\ service # "trust"
    BY <2>3, OneServiceRuns DEF Unchanged, Trust!trustVars
  <2> QED
    BY <2>1, <2>2, <2>3
<1> QED
  BY <1>1, <1>2, PTL DEF Spec, serviceVars, Trust!Spec

ServesTexts == service = "texts"

(* Texts start as one of those to be scrubbed only in runs of their service. *)
LEMMA TextsRuns == Spec /\ ServesTexts => Texts!Spec
<1>1. Init /\ ServesTexts => Texts!Init
  BY DEF Init, ServesTexts
<1>2. [Next]_serviceVars => [Texts!Next]_(Texts!textVars)
  <2> SUFFICES ASSUME [Next]_serviceVars PROVE [Texts!Next]_(Texts!textVars)
    OBVIOUS
  <2>1. CASE UNCHANGED serviceVars
    BY <2>1 DEF serviceVars
  <2>2. CASE Next /\ service = "texts"
    BY <2>2, OneServiceRuns
  <2>3. CASE Next /\ service # "texts"
    BY <2>3, OneServiceRuns DEF Unchanged, Texts!textVars
  <2> QED
    BY <2>1, <2>2, <2>3
<1> QED
  BY <1>1, <1>2, PTL DEF Spec, serviceVars, Texts!Spec

LEMMA OtherServiceRuns == Spec /\ ~ServesTexts => []~ServesTexts
<1>1. ~ServesTexts /\ [Next]_serviceVars => ~ServesTexts'
  BY OneServiceRuns DEF Unchanged, serviceVars, ServesTexts
<1> QED
  BY <1>1, PTL DEF Spec, serviceVars

-----------------------------------------------------------------------------
(* The properties of the run.                                                *)

(***************************************************************************)
(* One thread refreshes the threat intelligence at a time, and the         *)
(* addresses looked up are those AbuseIPDB last listed and those MISP      *)
(* listed since (ThreatIntel.refresh), in every run of the services.       *)
(***************************************************************************)
THEOREM RefreshesKeepIndicators == Spec => []RefreshKeepsIndicators
BY IntelRuns, RefreshKeepsIndicatorsHolds, PTL DEF RefreshKeepsIndicators

(***************************************************************************)
(* Clients admitted one at a time are never more than the stream's limit   *)
(* (websocket.py, ws_alerts); an alert nobody named is annotated a second  *)
(* time only by another run, begun before the first annotation was stored  *)
(* (runner.py, run_once); the notified windows of drift are those that are *)
(* worse than the one before, or as bad as any when workers overtook each  *)
(* other (feature_drift.py, observe).                                      *)
(***************************************************************************)
THEOREM LimitsBreakOnlyByRaces == Spec => []OnlyRacesBreakLimits
BY HubRuns, TriageRuns, DriftRuns, LimitExceededOnlyByRaceHolds, AnnotatedOnceHolds, WorseIsNotifiedHolds, PTL
   DEF OnlyRacesBreakLimits

(***************************************************************************)
(* Only what the deployment admits reaches a handler, the stream, the      *)
(* advice of triage or the unpickler of the models.                        *)
(***************************************************************************)
THEOREM AdmittedOnly == Spec => []OnlyWhatIsAdmitted
BY GateRuns, HubRuns, TriageRuns, ModelsRuns, ServedIsAllowedHolds, StreamIsAuthorizedHolds, AdviceIsGuardedHolds,
   OnlyListedPicklesHolds, PTL DEF OnlyWhatIsAdmitted

(***************************************************************************)
(* Alerts of the stream and of the SIEM forwarder, captured packets, asset *)
(* counters and flows of drift windows are accounted for until they leave. *)
(***************************************************************************)
THEOREM AllIsAccountedFor == Spec => []NothingLostOrDoubled
BY HubRuns, CaptureRuns, AssetsRuns, DriftRuns, SiemRuns, StreamIsGaplessHolds, PacketsAddUpHolds, StopIsPromptHolds,
   CountsAddUpHolds, WindowsAreTumblingHolds, ForwardedOnceHolds, PTL DEF NothingLostOrDoubled

(***************************************************************************)
(* Incidents, versions of the baseline models and full sequence buffers    *)
(* are not set back by another writer.                                     *)
(***************************************************************************)
THEOREM MovesForward == Spec => StateMovesForward
BY StoreRuns, BaselineRuns, BuffersRuns, IncidentsMoveForwardHolds, VersionsMoveForwardHolds, FullBuffersStayHolds, PTL
   DEF StateMovesForward

(***************************************************************************)
(* Walks through the alerts, scores and labels of flows, the artifacts of  *)
(* the baseline, the payloads of a flow, answers about a host, progress    *)
(* and drift of the baseline: readers see one state of what they read,     *)
(* whatever the writers do between their steps.                            *)
(***************************************************************************)
THEOREM ReadersAreConsistent == Spec => []ReadersSeeOneState
<1>1. Spec => [](ServesTexts => Texts!NoFalseAllClear)
  BY TextsRuns, OtherServiceRuns, NoFalseAllClearHolds, PTL
<1> QED
  BY <1>1, StoreRuns, ModelsRuns, BaselineRuns, InspectionRuns, ScrapeRuns, WalksMissNothingHolds, ScoreFollowsLabelHolds,
     ScoresUseOneVersionHolds, ReadersOfPayloadsAgreeHolds, ScrapesAreTrue, PTL DEF ReadersSeeOneState, ServesTexts

=============================================================================
