----------------------------- MODULE Governance -----------------------------
(***************************************************************************)
(* The governance workers that write tables of their own, together.  They  *)
(* meet in no transaction, so each behaviour is one of a single part,      *)
(* chosen at the start.                                                    *)
(***************************************************************************)
EXTENDS SdaRegistry, OwnerAttribution, IamHygiene, MetricStore, Forecasts

VARIABLE part

governanceVars == <<part, registryVars, ownerVars, hygieneVars, metricVars, forecastVars>>

GovernanceInit ==
    /\ part \in {"projects", "owners", "hygiene", "metrics", "forecasts"}
    /\ RegistryInit /\ OwnerInit /\ HygieneInit /\ MetricInit /\ ForecastInit
    /\ part # "owners" => \A r \in Assets : creator[r] = Robot
    /\ part # "hygiene" => \A p \in Principals : principal[p] = Created
    /\ part # "forecasts" => kind = "spend"

GovernanceNext ==
    \/ /\ part = "projects" /\ RegistryNext
       /\ UNCHANGED <<part, ownerVars, hygieneVars, metricVars, forecastVars>>
    \/ /\ part = "owners" /\ OwnerNext
       /\ UNCHANGED <<part, registryVars, hygieneVars, metricVars, forecastVars>>
    \/ /\ part = "hygiene" /\ HygieneNext
       /\ UNCHANGED <<part, registryVars, ownerVars, metricVars, forecastVars>>
    \/ /\ part = "metrics" /\ MetricNext
       /\ UNCHANGED <<part, registryVars, ownerVars, hygieneVars, forecastVars>>
    \/ /\ part = "forecasts" /\ ForecastNext
       /\ UNCHANGED <<part, registryVars, ownerVars, hygieneVars, metricVars>>

GovernanceSpec == GovernanceInit /\ [][GovernanceNext]_governanceVars

\* The states of the five parts are what their declarations say.
GovernanceTypeOK ==
    RegistryTypeOK /\ OwnerTypeOK /\ HygieneTypeOK /\ MetricTypeOK /\ ForecastTypeOK

=============================================================================
