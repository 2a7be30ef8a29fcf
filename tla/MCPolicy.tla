------------------------------ MODULE MCPolicy ------------------------------
(* A small instance of Policy for TLC.                                      *)
EXTENDS Policy

Ours == CHOOSE v \in Vins : TRUE

\* A commissioned configuration of each outage policy, and one
\* that valid_config rejects.
Running(hold) == [valid |-> TRUE, vin |-> Ours, commissioned |-> TRUE,
                  disabled |-> FALSE, dryRun |-> FALSE, hold |-> hold]
MCConfigs == {Running(TRUE), Running(FALSE), [Running(TRUE) EXCEPT !.valid = FALSE]}

MCSaved == {[state |-> "Unknown", source |-> 0], [state |-> "Home", source |-> 1],
            [state |-> "Away", source |-> 1]}

\* Locations of every zone and source, replayed requests, one of another
\* vehicle, one of poor quality; the other kinds carry no position.
Report(g, r, kind, zone, source) ==
    [generation |-> g, request |-> r, vin |-> Ours, kind |-> kind,
     admissible |-> TRUE, zone |-> zone, source |-> source]
MCReports ==
    {Report(g, r, "Location", z, s) : g \in 1..MaxGeneration, r \in 1..2,
                                      z \in Zones, s \in 1..3}
    \cup {Report(1, r, k, "near", 1) : r \in 1..3, k \in {"Asleep", "Revoked", "Unknown"}}
    \cup {[Report(1, 1, "Location", "near", 2) EXCEPT !.vin = v, !.admissible = FALSE] : v \in Vins}
=============================================================================
