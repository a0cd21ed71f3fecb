------------------------------ MODULE MCServices ------------------------------
(* Six parts that share no state, side by side: the transcription worker     *)
(* with three calls, one before, one at and one after its loss; two device   *)
(* tests, of which one observation is retained; one preset; the access to    *)
(* the provider with two commands in flight; the answer to one request; and  *)
(* the records of a session and its project.  A behaviour is one of the part *)
(* that it begins with, while the others rest.                               *)
EXTENDS WorkerProtocol, DeviceTests, PresetLibrary, ProviderAccess, AnswerStream,
        SessionRecord

VARIABLE part

PricedModel == [slug |-> "model", release |-> ""]
NamedModels == {PricedModel, [slug |-> "model", release |-> "2024"],
                [slug |-> "model-mini", release |-> ""]}

servicesVars == <<workerVars, deviceTestVars, presetVars, providerVars, answerVars,
                  recordVars, part>>

ServicesInit ==
  /\ WorkerInit /\ TestsInit /\ PresetInit /\ ProviderInit /\ AnswerInit
  /\ RecordInit
  /\ part \in {"worker", "tests", "presets", "provider", "answer", "records"}

ServicesNext ==
  /\ UNCHANGED part
  /\ \/ /\ part = "worker" /\ WorkerNext
        /\ UNCHANGED <<deviceTestVars, presetVars, providerVars, answerVars, recordVars>>
     \/ /\ part = "tests" /\ TestsNext
        /\ UNCHANGED <<workerVars, presetVars, providerVars, answerVars, recordVars>>
     \/ /\ part = "presets" /\ PresetNext
        /\ UNCHANGED <<workerVars, deviceTestVars, providerVars, answerVars, recordVars>>
     \/ /\ part = "provider" /\ ProviderNext
        /\ UNCHANGED <<workerVars, deviceTestVars, presetVars, answerVars, recordVars>>
     \/ /\ part = "answer" /\ AnswerNext
        /\ UNCHANGED <<workerVars, deviceTestVars, presetVars, providerVars, recordVars>>
     \/ /\ part = "records" /\ RecordNext
        /\ UNCHANGED <<workerVars, deviceTestVars, presetVars, providerVars, answerVars>>

(* Fairness is asked of the part that runs, not of those that rest. *)
ServicesFairness ==
  (part = "worker" => WorkerFairness) /\ (part = "tests" => TestsFairness)

ServicesSpec == ServicesInit /\ [][ServicesNext]_servicesVars /\ ServicesFairness

(* Every call of the engine returns, whatever becomes of the worker          *)
(* (CallReturns of WorkerProtocol), in the behaviours in which it runs.      *)
RunningCallReturns == part = "worker" => CallReturns

=============================================================================
