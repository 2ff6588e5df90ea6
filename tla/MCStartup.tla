------------------------------ MODULE MCStartup ------------------------------
(* Instance of Startup for TLC. *)
EXTENDS Startup, TLC

\* A v2 file that sets nothing, and files that set one thing or two.
Empty ==
    [version |-> 2, key |-> NoKey, apiKey |-> Missing, tunnelSections |-> 0,
     maxClients |-> 0, maxInflight |-> 0, maxSubscriptions |-> 0,
     subscribe |-> Missing, pongDeadline |-> Missing, ssrfProtection |-> Missing]

Limits ==
    {[Empty EXCEPT !.maxInflight = i, !.maxSubscriptions = s, !.subscribe = e,
                   !.ssrfProtection = TRUE] :
       i \in {0, 2, 3}, s \in {-1, 0, 1}, e \in {Missing, FALSE}}

Deadlines == {[Empty EXCEPT !.pongDeadline = d] : d \in {Malformed, -1, 0, 1, 2, 7, 14, 15}}

Versions ==
    {[Empty EXCEPT !.version = 1, !.apiKey = "secret", !.tunnelSections = 2, !.maxClients = 7]}

OperatorEdits == {Empty} \cup Limits \cup Deadlines \cup Versions
=============================================================================
