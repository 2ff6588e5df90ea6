------------------------------- MODULE Startup -------------------------------
(***************************************************************************)
(* A run of the process (main.go, WSBridge.Start): after LoadConfig, run   *)
(* acquires the connection pool, a network manager, the DHT gateway and    *)
(* client and the bridge's gateway, one on top of the other, serves until  *)
(* a signal comes, and releases what it acquired.  With two or more tunnel *)
(* sections the network manager is a tunnel: RunTunnel and a goroutine     *)
(* that forwards its events run beside the start-up.                       *)
(***************************************************************************)
EXTENDS Configuration, Sequences

CONSTANTS
    SectionFlags, \* values of --tunnel
    MaxTries,    \* attempts to resolve the DNS root contract (5)
    MaxRounds,   \* rounds of FindOverlayNodes (3)
    Relays,      \* tunnel relay nodes
    EventCap,    \* capacity of the tunnel's event channel (10)
    MaxReports   \* bound: events of a tunnel, without its last one

ASSUME StartupAssumption ==
    MaxTries \in Nat \ {0} /\ MaxRounds \in Nat \ {0} /\ EventCap \in Nat \ {0} /\ MaxReports \in Nat

VARIABLES
    held,       \* what run has acquired and not released, in order
    attempt,    \* attempts made of the step pc is at
    sections,   \* tunnel sections asked for
    relays,     \* relay nodes found
    cancelled,  \* run's context is done: a signal has come
    tunnel,     \* RunTunnel: "none", "runs" or "over"
    reports,    \* number of tunnels and errors RunTunnel has reported
    built,      \* the last tunnel it reported, by the number of the report
    events,     \* the channel between RunTunnel and the forwarder
    forwarder,  \* "idle", "notify" (a tunnel was switched to) or "gone"
    initUpd,    \* the channel start-up waits on (capacity 1)
    atm         \* the tunnel in use, by the number of its report; 0: none

tunnelVars == <<tunnel, reports, built, events, forwarder, initUpd, atm>>
runVars == <<held, attempt, sections, relays, cancelled, tunnelVars>>
startupVars == <<configVars, runVars>>

\* In the order of acquisition: each is built on those before it.
Order == <<"connPool", "netMgr", "dhtGate", "dhtClient", "wsGate">>

IsUpdate(e) == e.kind = "updated"

-----------------------------------------------------------------------------
(* The steps of run *)

At(p) == pc = p /\ UNCHANGED <<file, keys, edits, read, cfg, unsaved>>
Goto(p) == pc' = p

Acquire(r) == held' = Append(held, r)

\* Without a process, and in a new one, run has nothing.
Fresh ==
    /\ held' = << >> /\ attempt' = 0 /\ sections' = 0 /\ relays' = {} /\ cancelled' = FALSE
    /\ tunnel' = "none" /\ reports' = 0 /\ built' = 0 /\ events' = << >> /\ forwarder' = "gone"
    /\ initUpd' = << >> /\ atm' = 0

\* main applies the command line, and run loads the TON network config; a
\* --tunnel flag replaces tunnel_sections.
loadConfig ==
    /\ At("loaded")
    /\ Goto("connPool") \/ Goto("release")
    /\ sections' \in {cfg.tunnelSections} \cup SectionFlags
    /\ UNCHANGED <<held, attempt, relays, cancelled, tunnelVars>>

\* Mutant: a failed attempt does not count.
MutantInitDNSResolver ==
    /\ At("connPool")
    /\ \/ /\ ~cancelled
          /\ Acquire("connPool") /\ attempt' = 0
          /\ Goto(IF sections >= 2 THEN "discover" ELSE "netMgr")
       \/ UNCHANGED <<pc, held, attempt>>
    /\ UNCHANGED <<sections, relays, cancelled, tunnelVars>>

\* initDNSResolver: the pool gets its connections, or not, and the root
\* contract is asked for MaxTries times; the pool is not stopped when that
\* fails.  A cancelled context fails every attempt.
initDNSResolver ==
    /\ At("connPool")
    /\ \/ /\ ~cancelled
          /\ Acquire("connPool") /\ attempt' = 0
          /\ Goto(IF sections >= 2 THEN "discover" ELSE "netMgr")
       \/ /\ attempt' = attempt + 1
          /\ Goto(IF attempt' < MaxTries THEN "connPool" ELSE "release")
          /\ UNCHANGED held
       \/ attempt = 0 /\ Goto("release") /\ UNCHANGED <<held, attempt>>
    /\ UNCHANGED <<sections, relays, cancelled, tunnelVars>>

\* The steps that try once: the listener, the gateways, the DHT client.
acquire ==
    \E i \in 2..Len(Order) :
      /\ At(Order[i])
      /\ \/ Acquire(Order[i]) /\ Goto(IF i < Len(Order) THEN Order[i + 1] ELSE "serve")
         \/ Goto("release") /\ UNCHANGED held
      /\ UNCHANGED <<attempt, sections, relays, cancelled, tunnelVars>>

\* discoverTunnelNodes: rounds of FindOverlayNodes until there is nothing to
\* continue with; an error counts in the first round only.
discoverTunnelNodes ==
    /\ At("discover")
    /\ \E found \in SUBSET Relays, more \in BOOLEAN, ok \in BOOLEAN :
         /\ relays' = IF ok THEN relays \cup found ELSE relays
         /\ attempt' = attempt + 1
         /\ Goto(IF ok /\ more /\ attempt' < MaxRounds THEN "discover"
                 ELSE IF relays' = {} THEN "release" ELSE "startTunnel")
    /\ UNCHANGED <<held, sections, cancelled, tunnelVars>>

\* startTunnel starts RunTunnel and the forwarder, with fresh channels, unless
\* it cannot generate the tunnel's configuration.
startTunnel ==
    /\ At("startTunnel")
    /\ \/ /\ tunnel' = "runs" /\ reports' = 0 /\ built' = 0 /\ events' = << >>
          /\ forwarder' = "idle" /\ initUpd' = << >> /\ atm' = 0
          /\ Goto("awaitTunnel")
       \/ Goto("release") /\ UNCHANGED tunnelVars
    /\ UNCHANGED <<held, attempt, sections, relays, cancelled>>

\* Start-up waits for the first report, and for nothing else.
awaitTunnel ==
    /\ At("awaitTunnel") /\ initUpd # << >>
    /\ initUpd' = << >>
    /\ IF IsUpdate(Head(initUpd)) THEN Acquire("netMgr") /\ Goto("dhtGate")
       ELSE Goto("release") /\ UNCHANGED held
    /\ UNCHANGED <<attempt, sections, relays, cancelled, tunnel, reports, built, events, forwarder, atm>>

\* ListenAndServe: the address may be in use; a server that was shut down
\* before serves nothing.
Start ==
    /\ At("serve")
    /\ Goto("serving") \/ Goto("release")
    /\ cancelled => Goto("release")
    /\ UNCHANGED runVars

\* The context is done: Shutdown, and ListenAndServe returns.
Shutdown ==
    /\ At("serving") /\ cancelled
    /\ Goto("release")
    /\ UNCHANGED runVars

\* Mutant: first acquired, first released.
MutantRelease ==
    /\ At("release")
    /\ \/ held # << >> /\ held' = Tail(held)
          /\ UNCHANGED <<pc, attempt, sections, relays, cancelled, tunnelVars>>
       \/ held = << >> /\ Goto("down") /\ Fresh

\* The deferred calls, last first; then main ends.
release ==
    /\ At("release")
    /\ \/ held # << >> /\ held' = SubSeq(held, 1, Len(held) - 1)
          /\ UNCHANGED <<pc, attempt, sections, relays, cancelled, tunnelVars>>
       \/ held = << >> /\ Goto("down") /\ Fresh

\* The ping pump of the first client: NewTicker panics on a period that is not
\* positive, nobody recovers, and the process is gone.
pingPump ==
    /\ At("serving") /\ PingPeriod(cfg) <= 0
    /\ Goto("down") /\ Fresh

-----------------------------------------------------------------------------
(* Beside the steps of run *)

\* SIGINT or SIGTERM, once run has asked for them.
signal ==
    /\ ~Loading /\ ~cancelled
    /\ cancelled' = TRUE
    /\ UNCHANGED <<configVars, held, attempt, sections, relays, tunnelVars>>

\* The process is killed, or the machine stops.
crash ==
    /\ pc # "down"
    /\ Goto("down") /\ Fresh
    /\ UNCHANGED <<file, keys, edits, read, cfg, unsaved>>

\* External: the tunnel is (re)built, fails to, or ends.
RunTunnel ==
    /\ tunnel = "runs" /\ pc # "down" /\ Len(events) < EventCap
    /\ \/ /\ reports < MaxReports /\ ~cancelled
          /\ reports' = reports + 1
          /\ \E k \in {"updated", "error"} :
               /\ events' = Append(events, [kind |-> k, n |-> reports'])
               /\ built' = IF k = "updated" THEN reports' ELSE built
          /\ UNCHANGED tunnel
       \/ /\ events' = Append(events, [kind |-> "stopped", n |-> 0])
          /\ tunnel' = "over"
          /\ UNCHANGED <<reports, built>>
    /\ UNCHANGED <<configVars, held, attempt, sections, relays, cancelled, forwarder, initUpd, atm>>

\* A send to initUpd that does not wait.
Offer(e) == initUpd' = IF initUpd = << >> THEN <<e>> ELSE initUpd

\* Mutant: a later tunnel is not switched to.
MutantForwardEvent ==
    /\ forwarder = "idle" /\ pc # "down" /\ events # << >>
    /\ LET e == Head(events) IN
         \/ /\ e.kind = "stopped"
            /\ forwarder' = "gone" /\ events' = Tail(events) /\ UNCHANGED <<initUpd, atm>>
         \/ /\ e.kind = "updated"
            /\ forwarder' = "notify" /\ atm' = (IF atm = 0 THEN e.n ELSE atm) /\ UNCHANGED <<events, initUpd>>
         \/ /\ e.kind = "error"
            /\ Offer(e) /\ events' = Tail(events) /\ UNCHANGED <<forwarder, atm>>
    /\ UNCHANGED <<configVars, held, attempt, sections, relays, cancelled, tunnel, reports, built>>

\* The forwarder takes an event: it ends, switches to the tunnel, or passes
\* an error on.
forwardEvent ==
    /\ forwarder = "idle" /\ pc # "down" /\ events # << >>
    /\ LET e == Head(events) IN
         \/ /\ e.kind = "stopped"
            /\ forwarder' = "gone" /\ events' = Tail(events) /\ UNCHANGED <<initUpd, atm>>
         \/ /\ e.kind = "updated"
            /\ forwarder' = "notify" /\ atm' = e.n /\ UNCHANGED <<events, initUpd>>
         \/ /\ e.kind = "error"
            /\ Offer(e) /\ events' = Tail(events) /\ UNCHANGED <<forwarder, atm>>
    /\ UNCHANGED <<configVars, held, attempt, sections, relays, cancelled, tunnel, reports, built>>

\* ... after the switch it tells start-up, if that still waits.
notifyUpdate ==
    /\ forwarder = "notify" /\ pc # "down"
    /\ Offer(Head(events)) /\ events' = Tail(events)
    /\ forwarder' = "idle"
    /\ UNCHANGED <<configVars, held, attempt, sections, relays, cancelled, tunnel, reports, built, atm>>

-----------------------------------------------------------------------------
Init ==
    /\ ConfigInit
    /\ held = << >> /\ attempt = 0 /\ sections = 0 /\ relays = {} /\ cancelled = FALSE
    /\ tunnel = "none" /\ reports = 0 /\ built = 0 /\ events = << >> /\ forwarder = "gone"
    /\ initUpd = << >> /\ atm = 0

Run ==
    \/ loadConfig \/ initDNSResolver \/ acquire \/ discoverTunnelNodes \/ startTunnel
    \/ awaitTunnel \/ Start \/ Shutdown \/ release

Forward == forwardEvent \/ notifyUpdate

Next ==
    \/ ConfigNext /\ Fresh
    \/ Run \/ pingPump \/ signal \/ crash \/ RunTunnel \/ Forward

Spec == Init /\ [][Next]_startupVars

\* The process and its forwarder go on.  Nothing is assumed of the tunnel.
FairSpec == Spec /\ WF_startupVars(Run) /\ WF_startupVars(Forward)

-----------------------------------------------------------------------------
(* Properties *)

\* Every variable has its type.  No resource of run outlives one it is built
\* on, whichever step fails or is interrupted: what run holds is the first few
\* of the order, all of it while the bridge serves and nothing once the process
\* has ended.  (Sessions open at a shutdown are not waited for: bridge.go:222.)
TypeOK ==
    /\ file \in {NoFile, Partial} \/ DOMAIN file = DOMAIN DefaultConfig
    /\ keys \in 0..MaxKeys /\ edits \in 0..MaxEdits
    /\ pc \in {"down", "save", "write", "loaded", "discover", "startTunnel", "awaitTunnel",
               "serve", "serving", "release"} \cup {Order[i] : i \in DOMAIN Order}
    /\ attempt \in 0..MaxTries \cup 0..MaxRounds
    /\ pc = "connPool" => attempt < MaxTries
    /\ pc = "discover" => attempt < MaxRounds
    /\ relays \subseteq Relays
    /\ tunnel \in {"none", "runs", "over"} /\ forwarder \in {"idle", "notify", "gone"}
    /\ reports \in 0..MaxReports /\ atm \in 0..reports
    /\ Len(events) <= EventCap /\ Len(initUpd) <= 1
    /\ held = SubSeq(Order, 1, Len(held))
    /\ pc = "serving" => held = Order
    /\ pc = "down" => held = << >>

\* When the forwarder has caught up, the tunnel in use is the last one
\* reported, however many reports start-up did not wait for; and a network
\* manager that is a tunnel always has one to send through.
LatestTunnel ==
    tunnel # "none" =>
      /\ events = << >> => atm = built
      /\ Len(held) >= 2 => atm # 0

\* A signal ends the process, whatever it is doing, with one exception:
\* start-up that waits for a tunnel which has not reported anything.  A report
\* that was dropped, or an error nobody passes on, would be another.
SignalEnds ==
    cancelled ~> (pc = "down" \/ (pc = "awaitTunnel" /\ reports = 0))
=============================================================================
