--------------------------- MODULE StartupProofs ---------------------------
(***************************************************************************)
(* Proofs about the life of the process: what it runs with can be loaded   *)
(* again and is what the operator set, what it holds is the beginning of   *)
(* the order of acquisition, and the tunnel in use is the last reported.   *)
(***************************************************************************)
EXTENDS Startup, SequenceTheorems, TLAPS

-----------------------------------------------------------------------------
(* Definitions *)

\* A configuration that LoadConfig finds nothing to complete in.
Full(c) ==
    /\ c \in Configs /\ c.version >= 2
    /\ c.maxClients # 0 /\ c.maxInflight # 0 /\ c.maxSubscriptions # 0
    /\ c.pongDeadline # Missing /\ c.ssrfProtection \in BOOLEAN

\* A configuration that LoadConfig accepts and leaves as it is.
Whole(c) == c \in Configs /\ Completed(c) = c /\ Validate(c) /\ c.key # NoKey

\* Configuration c keeps what file r set.
Keeps(r, c) ==
    /\ \A f \in {"key", "apiKey", "tunnelSections"} : ~Unset(f, r[f]) => c[f] = r[f]
    /\ ~Migrates(r) => \A f \in DOMAIN r : ~Unset(f, r[f]) => c[f] = r[f]

\* The file and the configuration in memory, wherever the process is: what is
\* about to be written is whole, and what was loaded keeps what was read.
ConfigInv ==
    /\ file \in Configs \cup {NoFile, Partial} /\ read \in Configs \cup {NoFile, Partial}
    /\ cfg \in Configs /\ keys \in 0..MaxKeys /\ edits \in 0..MaxEdits /\ unsaved \in BOOLEAN
    /\ pc \in {"save", "write"} => Whole(cfg)
    /\ pc # "down" /\ read # NoFile => read \in Configs /\ Keeps(read, cfg)
    /\ StartsAgain

\* What run acquires.
Resources == {"connPool", "netMgr", "dhtGate", "dhtClient", "wsGate"}

\* How much run holds at each of its steps.
Holding ==
    /\ held \in Seq(Resources) /\ Len(held) <= 5
    /\ \A i \in 1..Len(held) : held[i] = Order[i]
    /\ pc \in {"down", "save", "write", "loaded", "connPool"} => Len(held) = 0
    /\ pc \in {"netMgr", "discover", "startTunnel", "awaitTunnel"} => Len(held) = 1
    /\ pc = "dhtGate" => Len(held) = 2
    /\ pc = "dhtClient" => Len(held) = 3
    /\ pc = "wsGate" => Len(held) = 4
    /\ pc \in {"serve", "serving"} => Len(held) = 5

\* The attempts of a step begin at none.
Attempts ==
    /\ attempt \in 0..MaxTries \cup 0..MaxRounds
    /\ pc \in {"down", "save", "write", "loaded"} => attempt = 0
    /\ pc = "connPool" => attempt < MaxTries
    /\ pc = "discover" => attempt < MaxRounds
    /\ relays \subseteq Relays

\* The steps at which a tunnel can run.
TunnelSteps ==
    {"awaitTunnel", "dhtGate", "dhtClient", "wsGate", "serve", "serving", "release"}

\* The events on their way to the forwarder: numbered tunnels, the last of them
\* the last one built, and the end, after which nothing comes.
EventKinds == [kind : {"updated", "error", "stopped"}, n : Nat]
LastUpdate(es, i) == i \in DOMAIN es /\ IsUpdate(es[i]) /\ \A j \in DOMAIN es : j > i => ~IsUpdate(es[j])
EventsAre(es, rep, blt, at, tun) ==
    /\ es \in Seq(EventKinds) /\ Len(es) <= EventCap
    /\ \A i \in DOMAIN es : IsUpdate(es[i]) => es[i].n \in 1..rep
    /\ \A i : LastUpdate(es, i) => es[i].n = blt
    /\ \A i \in DOMAIN es : es[i].kind = "stopped" => i = Len(es) /\ tun = "over"
    /\ (\A i \in DOMAIN es : ~IsUpdate(es[i])) => at = blt
EventsInv == EventsAre(events, reports, built, atm, tunnel)

\* What the forwarder and start-up have seen of them.
TunnelInv ==
    /\ tunnel \in {"none", "runs", "over"} /\ forwarder \in {"idle", "notify", "gone"}
    /\ reports \in 0..MaxReports /\ built \in 0..reports /\ atm \in 0..reports
    /\ tunnel # "none" => pc \in TunnelSteps
    /\ tunnel = "none" => forwarder = "gone"
    /\ forwarder = "notify" => events # << >> /\ IsUpdate(events[1]) /\ atm = events[1].n
    /\ initUpd \in Seq(EventKinds) /\ Len(initUpd) <= 1
    /\ initUpd # << >> /\ IsUpdate(initUpd[1]) => atm # 0
    /\ tunnel # "none" /\ Len(held) >= 2 => atm # 0

\* Where the process can be.
Steps ==
    {"down", "save", "write", "loaded", "discover", "startTunnel", "awaitTunnel", "serve",
     "serving", "release", "connPool", "netMgr", "dhtGate", "dhtClient", "wsGate"}

\* The inductive invariant.
StartupInv == pc \in Steps /\ ConfigInv /\ Holding /\ Attempts /\ EventsInv /\ TunnelInv

-----------------------------------------------------------------------------
(* Configurations *)

\* What Completed makes of the fields of a version 2 file.
LEMMA UnmarshalKeeps ==
    ASSUME NEW f \in Configs
    PROVE  /\ Unmarshal(f) \in Configs
           /\ \A x \in DOMAIN f \ {"ssrfProtection"} : Unmarshal(f)[x] = f[x]
           /\ Unmarshal(f).ssrfProtection = (f.ssrfProtection = TRUE)
BY DEF Configs, Unmarshal

\* applyDefaults gives every number that is 0 and a missing deadline a value,
\* and leaves the rest.
LEMMA DefaultsApplied ==
    ASSUME NEW f \in Configs
    PROVE  /\ applyDefaults(f) \in Configs
           /\ applyDefaults(f).version = f.version /\ applyDefaults(f).key = f.key
           /\ applyDefaults(f).apiKey = f.apiKey
           /\ applyDefaults(f).tunnelSections = f.tunnelSections
           /\ applyDefaults(f).subscribe = f.subscribe
           /\ applyDefaults(f).ssrfProtection = f.ssrfProtection
           /\ applyDefaults(f).maxClients = IF f.maxClients = 0 THEN 3 ELSE f.maxClients
           /\ applyDefaults(f).maxInflight = IF f.maxInflight = 0 THEN 4 ELSE f.maxInflight
           /\ applyDefaults(f).maxSubscriptions
                = IF f.maxSubscriptions = 0 THEN 2 ELSE f.maxSubscriptions
           /\ applyDefaults(f).pongDeadline
                = IF f.pongDeadline = Missing THEN 10 ELSE f.pongDeadline
<1>1. /\ applyDefaults(f).version = f.version /\ applyDefaults(f).key = f.key
      /\ applyDefaults(f).apiKey = f.apiKey
      /\ applyDefaults(f).tunnelSections = f.tunnelSections
      /\ applyDefaults(f).subscribe = f.subscribe
      /\ applyDefaults(f).ssrfProtection = f.ssrfProtection
  BY DEF Configs, applyDefaults
<1>2. applyDefaults(f).maxClients = IF f.maxClients = 0 THEN 3 ELSE f.maxClients
  BY DEF Configs, applyDefaults, DefaultConfig
<1>3. applyDefaults(f).maxInflight = IF f.maxInflight = 0 THEN 4 ELSE f.maxInflight
  BY DEF Configs, applyDefaults, DefaultConfig
<1>4. applyDefaults(f).maxSubscriptions
        = IF f.maxSubscriptions = 0 THEN 2 ELSE f.maxSubscriptions
  BY DEF Configs, applyDefaults, DefaultConfig
<1>5. applyDefaults(f).pongDeadline
        = IF f.pongDeadline = Missing THEN 10 ELSE f.pongDeadline
  BY DEF Configs, applyDefaults, DefaultConfig
<1>6. applyDefaults(f) \in Configs
  <2> DEFINE n == IF f.maxClients = 0 THEN 3 ELSE f.maxClients
             i == IF f.maxInflight = 0 THEN 4 ELSE f.maxInflight
             s == IF f.maxSubscriptions = 0 THEN 2 ELSE f.maxSubscriptions
             d == IF f.pongDeadline = Missing THEN 10 ELSE f.pongDeadline
  <2>1. n \in Int /\ i \in Int /\ s \in Int /\ d \in {Missing, Malformed} \cup Int BY DEF Configs
  <2>2. applyDefaults(f) = [f EXCEPT !.maxClients = n, !.maxInflight = i,
                                     !.maxSubscriptions = s, !.pongDeadline = d]
    BY DEF applyDefaults, DefaultConfig
  <2> HIDE DEF n, i, s, d
  <2> QED BY <2>1, <2>2 DEF Configs
<1> QED BY <1>1, <1>2, <1>3, <1>4, <1>5, <1>6

\* The defaults are a configuration, and migrateV1 makes one of every file.
LEMMA MigrationTyped ==
    /\ DefaultConfig \in Configs
    /\ \A f \in Configs : /\ migrateV1(f) \in Configs /\ migrateV1(f).version = 2
                          /\ migrateV1(f).key = f.key /\ migrateV1(f).apiKey = f.apiKey
                          /\ migrateV1(f).tunnelSections = f.tunnelSections
                          /\ migrateV1(f).ssrfProtection = TRUE
<1>1. DefaultConfig \in Configs BY DEF DefaultConfig, Configs, NoKey
<1>2. ASSUME NEW f \in Configs
      PROVE  /\ migrateV1(f) \in Configs /\ migrateV1(f).version = 2
             /\ migrateV1(f).key = f.key /\ migrateV1(f).apiKey = f.apiKey
             /\ migrateV1(f).tunnelSections = f.tunnelSections
             /\ migrateV1(f).ssrfProtection = TRUE
  BY <1>1 DEF migrateV1, DefaultConfig, Configs
<1> QED BY <1>1, <1>2

\* Two configurations with the same fields are equal.
LEMMA SameFields ==
    ASSUME NEW c \in Configs, NEW d \in Configs,
           c.version = d.version, c.key = d.key, c.apiKey = d.apiKey,
           c.tunnelSections = d.tunnelSections, c.maxClients = d.maxClients,
           c.maxInflight = d.maxInflight, c.maxSubscriptions = d.maxSubscriptions,
           c.subscribe = d.subscribe, c.pongDeadline = d.pongDeadline,
           c.ssrfProtection = d.ssrfProtection
    PROVE  c = d
BY DEF Configs

\* A file that is complete is loaded as it is.
LEMMA FullUnchanged ==
    ASSUME NEW c, Full(c)
    PROVE  Completed(c) = c
<1>1. c \in Configs BY DEF Full
<1>2. ~Migrates(c) BY <1>1 DEF Full, Migrates, Configs
<1>3. (c.ssrfProtection = TRUE) = c.ssrfProtection BY Zenon DEF Full
<1>4. Unmarshal(c) = c
  <2>1. /\ Unmarshal(c) \in Configs
        /\ \A x \in DOMAIN c \ {"ssrfProtection"} : Unmarshal(c)[x] = c[x]
        /\ Unmarshal(c).ssrfProtection = (c.ssrfProtection = TRUE)
    BY <1>1, UnmarshalKeeps
  <2>2. \A x \in {"version", "key", "apiKey", "tunnelSections", "maxClients", "maxInflight",
                  "maxSubscriptions", "subscribe", "pongDeadline"} : x \in DOMAIN c \ {"ssrfProtection"}
    BY <1>1 DEF Configs
  <2>3. Unmarshal(c).ssrfProtection = c.ssrfProtection BY Zenon, <1>3, <2>1
  <2> HIDE DEF Unmarshal
  <2> QED BY <1>1, <2>1, <2>2, <2>3, SameFields
<1>5. applyDefaults(c) = c
  <2>1. /\ applyDefaults(c) \in Configs
        /\ applyDefaults(c).maxClients = c.maxClients
        /\ applyDefaults(c).maxInflight = c.maxInflight
        /\ applyDefaults(c).maxSubscriptions = c.maxSubscriptions
        /\ applyDefaults(c).pongDeadline = c.pongDeadline
    BY <1>1, DefaultsApplied DEF Full
  <2> QED BY <1>1, <2>1, DefaultsApplied, SameFields
<1> QED BY <1>2, <1>4, <1>5 DEF Completed

\* LoadConfig completes every file, and changes neither its key nor what
\* migrateV1 carries over.
LEMMA CompletedFull ==
    ASSUME NEW f \in Configs
    PROVE  /\ Full(Completed(f)) /\ Completed(f).key = f.key
           /\ Completed(f).apiKey = f.apiKey
           /\ Completed(f).tunnelSections = f.tunnelSections
<1> DEFINE u == Unmarshal(f)
           g == IF Migrates(f) THEN migrateV1(u) ELSE u
<1>1. /\ u \in Configs /\ u.version = f.version /\ u.key = f.key /\ u.apiKey = f.apiKey
      /\ u.tunnelSections = f.tunnelSections
  BY UnmarshalKeeps DEF Configs
<1>2. u.ssrfProtection \in BOOLEAN
  <2>1. u.ssrfProtection = (f.ssrfProtection = TRUE) BY UnmarshalKeeps
  <2>2. (f.ssrfProtection = TRUE) \in BOOLEAN BY Zenon
  <2> QED BY Zenon, <2>1, <2>2
<1> HIDE DEF u
<1>3. /\ g \in Configs /\ g.version >= 2 /\ g.key = f.key /\ g.apiKey = f.apiKey
      /\ g.tunnelSections = f.tunnelSections
  BY <1>1, MigrationTyped DEF Migrates, Configs
<1>4. g.ssrfProtection \in BOOLEAN
  <2>1. CASE Migrates(f)
    <3>1. g.ssrfProtection = TRUE BY <1>1, <2>1, MigrationTyped
    <3> QED BY Zenon, <3>1
  <2>2. CASE ~Migrates(f)
    <3>1. g = u BY <2>2
    <3> QED BY Zenon, <1>2, <3>1
  <2> QED BY <2>1, <2>2
<1>5. Completed(f) = applyDefaults(g) BY DEF Completed, u
<1> HIDE DEF g
<1>6. applyDefaults(g).ssrfProtection \in BOOLEAN
  <2>1. applyDefaults(g).ssrfProtection = g.ssrfProtection BY <1>3, DefaultsApplied
  <2> QED BY Zenon, <1>4, <2>1
<1>7. /\ applyDefaults(g) \in Configs /\ applyDefaults(g).version >= 2
      /\ applyDefaults(g).key = f.key /\ applyDefaults(g).apiKey = f.apiKey
      /\ applyDefaults(g).tunnelSections = f.tunnelSections
  BY <1>3, DefaultsApplied
<1>8. /\ applyDefaults(g).maxClients # 0 /\ applyDefaults(g).maxInflight # 0
      /\ applyDefaults(g).maxSubscriptions # 0
  BY <1>3, DefaultsApplied DEF Configs
<1>9. applyDefaults(g).pongDeadline # Missing BY <1>3, DefaultsApplied, EditsAssumption
<1> QED BY <1>5, <1>6, <1>7, <1>8, <1>9 DEF Full

\* A generated key changes nothing but the key.
LEMMA KeyGenerated ==
    ASSUME NEW c, Full(c), NEW k \in Nat
    PROVE  /\ Full([c EXCEPT !.key = k]) /\ [c EXCEPT !.key = k].key = k
           /\ Validate(c) => Validate([c EXCEPT !.key = k])
           /\ \A x \in DOMAIN c \ {"key"} : [c EXCEPT !.key = k][x] = c[x]
<1>1. c \in Configs BY DEF Full
<1>2. [c EXCEPT !.key = k] \in Configs BY <1>1 DEF Configs
<1>3. \A x \in DOMAIN c \ {"key"} : [c EXCEPT !.key = k][x] = c[x] OBVIOUS
<1>4. [c EXCEPT !.key = k].key = k BY <1>1 DEF Configs
<1>5. \A x \in {"version", "maxClients", "maxInflight", "maxSubscriptions", "subscribe",
                "pongDeadline", "ssrfProtection"} : x \in DOMAIN c \ {"key"}
  BY <1>1 DEF Configs
<1> DEFINE d == [c EXCEPT !.key = k]
<1>6. /\ d.version = c.version /\ d.maxClients = c.maxClients /\ d.maxInflight = c.maxInflight
      /\ d.maxSubscriptions = c.maxSubscriptions /\ d.subscribe = c.subscribe
      /\ d.pongDeadline = c.pongDeadline /\ d.ssrfProtection = c.ssrfProtection
  BY <1>3, <1>5
<1> HIDE DEF d
<1>7. d.ssrfProtection \in BOOLEAN BY Zenon, <1>6 DEF Full
<1>8. d.version >= 2 /\ d.maxClients # 0 /\ d.maxInflight # 0 /\ d.maxSubscriptions # 0
      /\ d.pongDeadline # Missing
  BY <1>6 DEF Full
<1>9. Validate(c) => Validate(d) BY <1>6 DEF Validate, IsEnabled
<1>10. Full(d) BY <1>2, <1>7, <1>8 DEF Full, d
<1> QED BY <1>3, <1>4, <1>9, <1>10 DEF d

\* A version 2 file keeps the value of every field it sets.
LEMMA FieldsKept ==
    ASSUME NEW f \in Configs, ~Migrates(f), NEW x \in DOMAIN f, ~Unset(x, f[x])
    PROVE  Completed(f)[x] = f[x]
<1> DEFINE u == Unmarshal(f)
<1>1. /\ u \in Configs /\ \A y \in DOMAIN f \ {"ssrfProtection"} : u[y] = f[y]
      /\ u.ssrfProtection = (f.ssrfProtection = TRUE)
  BY UnmarshalKeeps
<1>2. Completed(f) = applyDefaults(u) BY DEF Completed
<1> HIDE DEF u
<1>3. DOMAIN f = {"version", "key", "apiKey", "tunnelSections", "maxClients", "maxInflight",
                  "maxSubscriptions", "subscribe", "pongDeadline", "ssrfProtection"}
  BY DEF Configs
<1>4. CASE x \in {"version", "key", "apiKey", "tunnelSections", "subscribe"}
  <2>1. u[x] = f[x] BY <1>1, <1>3, <1>4
  <2>2. applyDefaults(u)[x] = u[x] BY <1>1, <1>4, DefaultsApplied
  <2> QED BY <1>2, <2>1, <2>2
<1>5. CASE x \in {"maxClients", "maxInflight", "maxSubscriptions"}
  <2>1. u[x] = f[x] BY <1>1, <1>3, <1>5
  <2>2. f[x] # 0 BY <1>5 DEF Unset
  <2>3. applyDefaults(u)[x] = u[x] BY <1>1, <1>5, <2>1, <2>2, DefaultsApplied
  <2> QED BY <1>2, <2>1, <2>3
<1>6. CASE x = "pongDeadline"
  <2>1. u.pongDeadline = f.pongDeadline BY <1>1, <1>3
  <2>2. f.pongDeadline # Missing BY <1>6 DEF Unset
  <2>3. applyDefaults(u).pongDeadline = u.pongDeadline BY <1>1, <2>1, <2>2, DefaultsApplied
  <2> QED BY <1>2, <1>6, <2>1, <2>3
<1>7. CASE x = "ssrfProtection"
  <2>1. f.ssrfProtection # Missing BY <1>7 DEF Unset
  <2>2. f.ssrfProtection \in {Missing} \cup BOOLEAN BY DEF Configs
  <2>3. (f.ssrfProtection = TRUE) = f.ssrfProtection BY Zenon, <2>1, <2>2
  <2>4. applyDefaults(u).ssrfProtection = u.ssrfProtection BY <1>1, DefaultsApplied
  <2>5. applyDefaults(u).ssrfProtection = f.ssrfProtection BY Zenon, <1>1, <2>3, <2>4
  <2> QED BY <1>2, <1>7, <2>5
<1> QED BY <1>3, <1>4, <1>5, <1>6, <1>7

\* What LoadConfig makes of a file keeps what the file set ...
LEMMA LoadedKeeps ==
    ASSUME NEW f \in Configs
    PROVE  Keeps(f, Completed(f))
<1>1. \A x \in {"key", "apiKey", "tunnelSections"} : Completed(f)[x] = f[x] BY CompletedFull
<1> QED BY <1>1, FieldsKept DEF Keeps

\* ... with a key it had to generate, too.
LEMMA KeyedKeeps ==
    ASSUME NEW f \in Configs, f.key = NoKey, NEW k \in Nat
    PROVE  Keeps(f, [Completed(f) EXCEPT !.key = k])
<1> DEFINE c == Completed(f)
           d == [c EXCEPT !.key = k]
<1>1. Keeps(f, c) BY LoadedKeeps
<1>2. Full(c) BY CompletedFull
<1>3. c \in Configs BY <1>2 DEF Full
<1> HIDE DEF c
<1>4. \A x \in DOMAIN c \ {"key"} : d[x] = c[x] BY <1>2, KeyGenerated
<1>5. DOMAIN c = DOMAIN f BY <1>3 DEF Configs
<1>6. "apiKey" \in DOMAIN f /\ "tunnelSections" \in DOMAIN f BY DEF Configs
<1>7. Unset("key", f["key"]) BY DEF Unset, NoKey
<1> HIDE DEF d
<1>8. \A x \in {"key", "apiKey", "tunnelSections"} : ~Unset(x, f[x]) => d[x] = f[x]
  BY <1>1, <1>4, <1>5, <1>6, <1>7 DEF Keeps
<1>9. ASSUME ~Migrates(f), NEW x \in DOMAIN f, ~Unset(x, f[x]) PROVE d[x] = f[x]
  <2>1. x # "key" BY <1>7, <1>9
  <2>2. c[x] = f[x] BY <1>1, <1>9 DEF Keeps
  <2> QED BY <1>4, <1>5, <2>1, <2>2
<1>10. Keeps(f, d) BY <1>8, <1>9 DEF Keeps
<1> QED BY <1>10 DEF c, d

-----------------------------------------------------------------------------
(* Steps *)

\* The order of acquisition, written out.
LEMMA OrderValues ==
    /\ Len(Order) = 5 /\ Order \in Seq(Resources)
    /\ Order[1] = "connPool" /\ Order[2] = "netMgr" /\ Order[3] = "dhtGate"
    /\ Order[4] = "dhtClient" /\ Order[5] = "wsGate"
<1>1. Len(Order) = 5 BY DEF Order
<1>2. /\ Order[1] = "connPool" /\ Order[2] = "netMgr" /\ Order[3] = "dhtGate"
      /\ Order[4] = "dhtClient" /\ Order[5] = "wsGate"
  BY DEF Order
<1>3. Order \in Seq(Resources) BY DEF Order, Resources
<1> QED BY <1>1, <1>2, <1>3

\* A step of one of the steps that try once.
acquireAt(p, next) ==
    /\ pc = p
    /\ \/ held' = Append(held, p) /\ pc' = next
       \/ pc' = "release" /\ held' = held
    /\ UNCHANGED <<file, keys, edits, read, cfg, unsaved>>
    /\ UNCHANGED <<attempt, sections, relays, cancelled, tunnelVars>>

\* They come one after the other.
LEMMA AcquireSteps ==
    acquire => \/ acquireAt("netMgr", "dhtGate") \/ acquireAt("dhtGate", "dhtClient")
               \/ acquireAt("dhtClient", "wsGate") \/ acquireAt("wsGate", "serve")
<1> SUFFICES ASSUME NEW i \in 2..Len(Order), At(Order[i]),
                    \/ Acquire(Order[i]) /\ Goto(IF i < Len(Order) THEN Order[i + 1] ELSE "serve")
                    \/ Goto("release") /\ UNCHANGED held,
                    UNCHANGED <<attempt, sections, relays, cancelled, tunnelVars>>
             PROVE  \/ acquireAt("netMgr", "dhtGate") \/ acquireAt("dhtGate", "dhtClient")
                    \/ acquireAt("dhtClient", "wsGate") \/ acquireAt("wsGate", "serve")
  BY DEF acquire
<1>1. i \in {2, 3, 4, 5} BY OrderValues
<1>2. CASE i = 2 BY <1>2, OrderValues DEF At, Acquire, Goto, acquireAt
<1>3. CASE i = 3 BY <1>3, OrderValues DEF At, Acquire, Goto, acquireAt
<1>4. CASE i = 4 BY <1>4, OrderValues DEF At, Acquire, Goto, acquireAt
<1>5. CASE i = 5 BY <1>5, OrderValues DEF At, Acquire, Goto, acquireAt
<1> QED BY <1>1, <1>2, <1>3, <1>4, <1>5

\* The steps of run and of what runs beside it leave the configuration alone;
\* they go on to another step of run, or the process ends.
runStep ==
    /\ UNCHANGED <<file, keys, edits, read, cfg, unsaved>>
    /\ \/ pc' = "down" \/ pc' = pc
       \/ pc \in Steps \ {"down", "save", "write"} /\ pc' \in Steps \ {"down", "save", "write"}

\* Every step is one of them or one of LoadConfig.
LEMMA StepKinds ==
    ASSUME [Next]_startupVars
    PROVE  (ConfigNext /\ Fresh) \/ runStep
<1>1. CASE UNCHANGED startupVars BY <1>1 DEF startupVars, configVars, runStep
<1>2. CASE acquire BY <1>2, AcquireSteps DEF acquireAt, runStep, Steps
<1>3. CASE loadConfig BY <1>3 DEF loadConfig, At, Goto, runStep, Steps
<1>4. CASE initDNSResolver BY <1>4 DEF initDNSResolver, At, Goto, runStep, Steps
<1>5. CASE discoverTunnelNodes BY <1>5 DEF discoverTunnelNodes, At, Goto, runStep, Steps
<1>6. CASE startTunnel \/ awaitTunnel
  BY <1>6 DEF startTunnel, awaitTunnel, At, Goto, runStep, Steps
<1>7. CASE Start \/ Shutdown BY <1>7 DEF Start, Shutdown, At, Goto, runStep, Steps
<1>8. CASE release \/ pingPump \/ crash BY <1>8 DEF release, pingPump, crash, At, Goto, runStep
<1>9. CASE signal \/ RunTunnel \/ Forward
  BY <1>9 DEF signal, RunTunnel, Forward, forwardEvent, notifyUpdate, configVars, runStep
<1> QED BY <1>1, <1>2, <1>3, <1>4, <1>5, <1>6, <1>7, <1>8, <1>9 DEF Next, Run

-----------------------------------------------------------------------------
(* The configuration *)

\* Before the first launch.
LEMMA InitConfig == Init => pc \in Steps /\ ConfigInv
<1> SUFFICES ASSUME Init PROVE pc \in Steps /\ ConfigInv OBVIOUS
<1>1. /\ file = NoFile /\ keys = 0 /\ edits = 0 /\ pc = "down" /\ read = NoFile
      /\ cfg = DefaultConfig
  BY DEF Init, ConfigInit
<1>2. unsaved \in BOOLEAN BY DEF Init, ConfigInit
<1>3. cfg \in Configs BY <1>1, MigrationTyped
<1>4. 0 \in 0..MaxKeys /\ 0 \in 0..MaxEdits BY ConfigurationAssumption
<1>5. Loading BY <1>1 DEF Loading
<1> QED BY <1>1, <1>2, <1>3, <1>4, <1>5 DEF ConfigInv, StartsAgain, Steps

\* A step of run keeps what the process was loaded with.
LEMMA RunKeepsConfig == ConfigInv /\ pc \in Steps /\ runStep => pc' \in Steps /\ ConfigInv'
<1> SUFFICES ASSUME ConfigInv, pc \in Steps, runStep PROVE pc' \in Steps /\ ConfigInv' OBVIOUS
<1>1. /\ file' = file /\ keys' = keys /\ edits' = edits /\ read' = read /\ cfg' = cfg
      /\ unsaved' = unsaved
  BY DEF runStep
<1>2. pc' \in Steps /\ (pc' # "down" => pc # "down")
  BY DEF runStep, Steps
<1>3. (pc' \in {"save", "write"} => pc \in {"save", "write"}) BY DEF runStep
<1>4. ~Loading' => ~Loading BY DEF runStep, Loading, Steps
<1>5. StartsAgain' BY <1>1, <1>4 DEF ConfigInv, StartsAgain
<1> QED BY <1>1, <1>2, <1>3, <1>5 DEF ConfigInv

\* The defaults with a generated key are whole: the file of the first launch,
\* which nothing validates before it is saved, is one LoadConfig accepts.
LEMMA FirstLaunchWhole ==
    ASSUME NEW k \in Nat \ {0}
    PROVE  Whole([DefaultConfig EXCEPT !.key = k])
<1>1. DefaultConfig \in Configs BY MigrationTyped
<1>2. /\ DefaultConfig.version = 2 /\ DefaultConfig.maxClients = 3 /\ DefaultConfig.maxInflight = 4
      /\ DefaultConfig.maxSubscriptions = 2 /\ DefaultConfig.pongDeadline = 10
  BY DEF DefaultConfig
<1>3. DefaultConfig.ssrfProtection \in BOOLEAN BY Zenon, <1>1, MigrationTyped DEF DefaultConfig
<1>4. DefaultConfig.pongDeadline # Missing /\ DefaultConfig.pongDeadline # Malformed
  BY <1>2, EditsAssumption
<1>5. Full(DefaultConfig) BY <1>1, <1>2, <1>3, <1>4 DEF Full
<1>6. Validate(DefaultConfig) BY <1>2, <1>4 DEF Validate
<1>7. k \in Nat /\ k # NoKey BY DEF NoKey
<1> DEFINE d == [DefaultConfig EXCEPT !.key = k]
<1>8. Full(d) /\ d.key = k /\ Validate(d) BY <1>5, <1>6, <1>7, KeyGenerated
<1> HIDE DEF d
<1>9. Completed(d) = d BY <1>8, FullUnchanged
<1>10. Whole(d) BY <1>7, <1>8, <1>9 DEF Whole, Full
<1> QED BY <1>10 DEF d

\* What LoadConfig accepts is whole once it has a key.
LEMMA LoadedWhole ==
    ASSUME NEW f \in Configs, Validate(Completed(f))
    PROVE  /\ f.key # NoKey => Whole(Completed(f))
           /\ \A k \in Nat \ {0} : Whole([Completed(f) EXCEPT !.key = k])
<1> DEFINE c == Completed(f)
<1>1. Full(c) /\ c.key = f.key BY CompletedFull
<1>2. Validate(c) OBVIOUS
<1> HIDE DEF c
<1>3. Completed(c) = c BY <1>1, FullUnchanged
<1>4. f.key # NoKey => Whole(c) BY <1>1, <1>2, <1>3 DEF Whole, Full
<1>5. ASSUME NEW k \in Nat \ {0} PROVE Whole([c EXCEPT !.key = k])
  <2> DEFINE d == [c EXCEPT !.key = k]
  <2>1. k \in Nat /\ k # NoKey BY DEF NoKey
  <2>2. Full(d) /\ d.key = k /\ Validate(d) BY <1>1, <1>2, <2>1, KeyGenerated
  <2> HIDE DEF d
  <2>3. Completed(d) = d BY <2>2, FullUnchanged
  <2>4. Whole(d) BY <2>1, <2>2, <2>3 DEF Whole, Full
  <2> QED BY <2>4 DEF d
<1> QED BY <1>4, <1>5 DEF c

\* Loading, editing and saving keep the invariant, and so does the failure of
\* each of them.
LEMMA ConfigNextKeeps == ConfigInv /\ pc \in Steps /\ ConfigNext => pc' \in Steps /\ ConfigInv'
<1> SUFFICES ASSUME ConfigInv, pc \in Steps, ConfigNext PROVE pc' \in Steps /\ ConfigInv' OBVIOUS
<1>0. /\ file \in Configs \cup {NoFile, Partial} /\ read \in Configs \cup {NoFile, Partial}
      /\ cfg \in Configs /\ keys \in 0..MaxKeys /\ edits \in 0..MaxEdits
      /\ MaxKeys \in Nat /\ MaxEdits \in Nat
  BY ConfigurationAssumption DEF ConfigInv
<1>b. unsaved \in BOOLEAN BY DEF ConfigInv
<1>1. CASE editConfig
  <2>1. PICK c \in Edits, k \in {NoKey} \cup (IF IsConfig(file) THEN {file.key} ELSE {}) :
          file' = [c EXCEPT !.key = k]
    BY <1>1 DEF editConfig
  <2>2. k \in Nat BY <1>0, <2>1 DEF IsConfig, NoKey, Configs
  <2>3. c \in Configs BY <2>1, EditsAssumption
  <2>4. file' \in Configs BY <2>1, <2>2, <2>3 DEF Configs
  <2>5. /\ edits' \in 0..MaxEdits /\ keys' = keys /\ pc' = "down" /\ read' = read /\ cfg' = cfg
        /\ unsaved' = unsaved
    BY <1>0, <1>1 DEF editConfig
  <2> QED BY <1>0, <1>b, <2>4, <2>5 DEF ConfigInv, StartsAgain, Loading, Steps
<1>2. CASE firstLaunch
  <2>1. /\ keys' \in 0..MaxKeys /\ keys' \in Nat \ {0} /\ cfg' = [DefaultConfig EXCEPT !.key = keys']
        /\ read' = NoFile /\ pc' = "save" /\ file' = file /\ edits' = edits
    BY <1>0, <1>2 DEF firstLaunch
  <2>2. unsaved' \in BOOLEAN BY <1>2 DEF firstLaunch
  <2>3. \A k \in Nat \ {0} : Whole([DefaultConfig EXCEPT !.key = k]) BY FirstLaunchWhole
  <2>4. Whole(cfg') BY <2>1, <2>3
  <2>5. cfg' \in Configs BY <2>4 DEF Whole
  <2> QED BY <1>0, <2>1, <2>2, <2>4, <2>5 DEF ConfigInv, StartsAgain, Loading, Steps
<1>3. CASE refuseConfig
  <2>1. /\ pc' = "down" /\ read' = file /\ file' = file /\ keys' = keys /\ edits' = edits
        /\ cfg' = cfg /\ unsaved' = unsaved
    BY <1>3 DEF refuseConfig
  <2> QED BY <1>0, <1>b, <2>1 DEF ConfigInv, StartsAgain, Loading, Steps
<1>4. CASE LoadConfig
  <2>1. file \in Configs BY <1>0, <1>4 DEF LoadConfig, IsConfig
  <2>2. Validate(Completed(file)) BY <1>4 DEF LoadConfig
  <2>3. /\ read' = file /\ file' = file /\ edits' = edits
        /\ pc' = IF Migrates(file) \/ file.key = NoKey THEN "save" ELSE "loaded"
    BY <1>4 DEF LoadConfig
  <2>4. unsaved' \in BOOLEAN BY <1>4 DEF LoadConfig
  <2>5. CASE file.key # NoKey
    <3>1. cfg' = Completed(file) /\ keys' = keys BY <1>4, <2>5 DEF LoadConfig
    <3>2. Whole(cfg') BY <2>1, <2>2, <2>5, <3>1, LoadedWhole
    <3>3. cfg' \in Configs /\ cfg'.key # NoKey BY <3>2 DEF Whole
    <3>4. Keeps(file, cfg') BY <2>1, <3>1, LoadedKeeps
    <3>5. IsConfig(file) BY <1>4 DEF LoadConfig
    <3>6. StartsAgain' BY <2>2, <2>3, <3>1, <3>3, <3>5 DEF StartsAgain
    <3> QED BY <1>0, <2>1, <2>3, <2>4, <3>1, <3>2, <3>3, <3>4, <3>6 DEF ConfigInv, Steps
  <2>6. CASE file.key = NoKey
    <3>1. /\ keys' \in 0..MaxKeys /\ keys' \in Nat \ {0}
          /\ cfg' = [Completed(file) EXCEPT !.key = keys'] /\ pc' = "save"
      BY <1>0, <1>4, <2>3, <2>6 DEF LoadConfig
    <3>2. \A k \in Nat \ {0} : Whole([Completed(file) EXCEPT !.key = k])
      BY <2>1, <2>2, LoadedWhole
    <3>3. Whole(cfg') BY <3>1, <3>2
    <3>4. cfg' \in Configs BY <3>3 DEF Whole
    <3>5. \A k \in Nat : Keeps(file, [Completed(file) EXCEPT !.key = k])
      BY <2>1, <2>6, KeyedKeeps
    <3>6. Keeps(file, cfg') BY <3>1, <3>5
    <3>7. StartsAgain' BY <3>1 DEF StartsAgain, Loading
    <3> QED BY <1>0, <2>1, <2>3, <2>4, <3>1, <3>3, <3>4, <3>6, <3>7 DEF ConfigInv, Steps
  <2> QED BY <2>5, <2>6
<1>5. CASE truncate
  <2>1. /\ pc = "save" /\ pc' = "write" /\ file' = Partial /\ keys' = keys /\ edits' = edits
        /\ read' = read /\ cfg' = cfg /\ unsaved' = unsaved
    BY <1>5 DEF truncate
  <2> QED BY <1>0, <1>b, <2>1 DEF ConfigInv, StartsAgain, Loading, Steps
<1>6. CASE SaveConfig
  <2>1. /\ pc = "write" /\ pc' = "loaded" /\ file' = cfg /\ keys' = keys /\ edits' = edits
        /\ read' = read /\ cfg' = cfg /\ unsaved' = unsaved
    BY <1>6 DEF SaveConfig
  <2>2. Whole(cfg) BY <2>1 DEF ConfigInv
  <2>3. IsConfig(cfg) BY <1>0, EditsAssumption DEF IsConfig
  <2>4. StartsAgain' BY <2>1, <2>2, <2>3 DEF StartsAgain, Whole
  <2> QED BY <1>0, <1>b, <2>1, <2>4 DEF ConfigInv, Steps
<1>7. CASE saveFails
  <2>1. /\ pc \in {"save", "write"} /\ file' = file /\ keys' = keys /\ edits' = edits
        /\ read' = read /\ cfg' = cfg
        /\ pc' = IF read = NoFile THEN "down" ELSE "loaded"
    BY <1>7 DEF saveFails
  <2>2. unsaved' \in BOOLEAN /\ (pc' = "loaded" => unsaved') BY <1>7 DEF saveFails
  <2>3. StartsAgain' BY <2>1, <2>2 DEF StartsAgain, Loading
  <2> QED BY <1>0, <2>1, <2>2, <2>3 DEF ConfigInv, Steps
<1> QED BY <1>1, <1>2, <1>3, <1>4, <1>5, <1>6, <1>7 DEF ConfigNext

-----------------------------------------------------------------------------
(* What run holds *)

\* LoadConfig ends before run begins.
LEMMA ConfigNextPlaces == ConfigNext => pc' \in {"down", "save", "write", "loaded"}
BY DEF ConfigNext, editConfig, firstLaunch, refuseConfig, LoadConfig, truncate, SaveConfig, saveFails

\* A resource more ...
LEMMA HeldGrows ==
    ASSUME NEW h \in Seq(Resources), NEW r \in Resources, Len(h) < 5, r = Order[Len(h) + 1],
           \A i \in 1..Len(h) : h[i] = Order[i]
    PROVE  /\ Append(h, r) \in Seq(Resources) /\ Len(Append(h, r)) = Len(h) + 1
           /\ Len(h) + 1 <= 5 /\ \A i \in 1..Len(Append(h, r)) : Append(h, r)[i] = Order[i]
<1>1. Append(h, r) \in Seq(Resources) /\ Len(Append(h, r)) = Len(h) + 1 /\ Len(h) \in Nat OBVIOUS
<1>2. \A i \in 1..(Len(h) + 1) : Append(h, r)[i] = IF i = Len(h) + 1 THEN r ELSE h[i] OBVIOUS
<1>3. \A i \in 1..(Len(h) + 1) : i = Len(h) + 1 \/ i \in 1..Len(h) BY <1>1
<1> QED BY <1>1, <1>2, <1>3

\* ... and one less.
LEMMA HeldShrinks ==
    ASSUME NEW h \in Seq(Resources), h # << >>, Len(h) <= 5, \A i \in 1..Len(h) : h[i] = Order[i]
    PROVE  /\ SubSeq(h, 1, Len(h) - 1) \in Seq(Resources)
           /\ Len(SubSeq(h, 1, Len(h) - 1)) = Len(h) - 1 /\ Len(h) - 1 <= 5
           /\ \A i \in 1..(Len(h) - 1) : SubSeq(h, 1, Len(h) - 1)[i] = Order[i]
<1>1. Len(h) \in Nat \ {0} OBVIOUS
<1>2. /\ SubSeq(h, 1, Len(h) - 1) \in Seq(Resources)
      /\ Len(SubSeq(h, 1, Len(h) - 1)) = Len(h) - 1
      /\ \A i \in 1..(Len(h) - 1) : SubSeq(h, 1, Len(h) - 1)[i] = h[i]
  <2> DEFINE n == Len(h) - 1
  <2>1. n \in 0..Len(h) /\ 1 \in 1..(n + 1) /\ n - 1 + 1 = n BY <1>1
  <2> QED BY <1>1, <2>1, SubSeqProperties
<1> QED BY <1>1, <1>2

\* Every step of run acquires the next resource, or none, and only the releases
\* give any back.
LEMMA NextHolding == Holding /\ pc \in Steps /\ [Next]_startupVars => Holding'
<1> SUFFICES ASSUME Holding, pc \in Steps, [Next]_startupVars PROVE Holding' OBVIOUS
<1>0. /\ held \in Seq(Resources) /\ Len(held) \in Nat /\ Len(held) <= 5
      /\ \A i \in 1..Len(held) : held[i] = Order[i]
  BY DEF Holding
<1>1. ASSUME held' = << >>, pc' \in {"down", "save", "write", "loaded"} PROVE Holding'
  <2>1. held' \in Seq(Resources) /\ Len(held') = 0 /\ 1..Len(held') = {} BY <1>1
  <2> QED BY <1>1, <2>1 DEF Holding
<1>2. ASSUME NEW r \in Resources, held' = Append(held, r), Len(held) < 5, r = Order[Len(held) + 1],
             \/ pc' \in {"netMgr", "discover"} /\ Len(held) = 0
             \/ pc' = "dhtGate" /\ Len(held) = 1
             \/ pc' = "dhtClient" /\ Len(held) = 2
             \/ pc' = "wsGate" /\ Len(held) = 3
             \/ pc' = "serve" /\ Len(held) = 4
      PROVE  Holding'
  <2>1. /\ held' \in Seq(Resources) /\ Len(held') = Len(held) + 1 /\ Len(held') <= 5
        /\ \A i \in 1..Len(held') : held'[i] = Order[i]
    BY <1>0, <1>2, HeldGrows
  <2> QED BY <1>2, <2>1 DEF Holding
<1>3. ASSUME held' = held, pc' = pc \/ pc' = "release" PROVE Holding'
  BY <1>3 DEF Holding
<1>4. CASE ConfigNext /\ Fresh
  BY <1>1, <1>4, ConfigNextPlaces DEF Fresh
<1>5. CASE loadConfig BY <1>3, <1>5 DEF loadConfig, At, Goto, Holding
<1>6. CASE initDNSResolver
  <2>1. pc = "connPool" /\ Len(held) = 0 BY <1>6 DEF initDNSResolver, At, Holding
  <2>2. CASE held' = held /\ pc' \in {"connPool", "release"} BY <1>3, <2>1, <2>2
  <2>3. CASE held' = Append(held, "connPool") /\ pc' \in {"netMgr", "discover"}
    <3>1. "connPool" = Order[Len(held) + 1] BY <2>1, OrderValues
    <3> QED BY <1>2, <2>1, <2>3, <3>1 DEF Resources
  <2> QED BY <1>6, <2>2, <2>3 DEF initDNSResolver, Acquire, Goto
<1>7. ASSUME NEW p, NEW q, acquireAt(p, q),
             \/ p = "netMgr" /\ q = "dhtGate" /\ Len(held) = 1
             \/ p = "dhtGate" /\ q = "dhtClient" /\ Len(held) = 2
             \/ p = "dhtClient" /\ q = "wsGate" /\ Len(held) = 3
             \/ p = "wsGate" /\ q = "serve" /\ Len(held) = 4
      PROVE  Holding'
  <2>1. CASE held' = held /\ pc' = "release" BY <1>3, <2>1
  <2>2. CASE held' = Append(held, p) /\ pc' = q
    <3>1. p = Order[Len(held) + 1] /\ p \in Resources /\ Len(held) < 5
      <4>1. CASE Len(held) = 1 BY <1>7, <4>1, OrderValues DEF Resources
      <4>2. CASE Len(held) = 2 BY <1>7, <4>2, OrderValues DEF Resources
      <4>3. CASE Len(held) = 3 BY <1>7, <4>3, OrderValues DEF Resources
      <4>4. CASE Len(held) = 4 BY <1>7, <4>4, OrderValues DEF Resources
      <4> QED BY <1>7, <4>1, <4>2, <4>3, <4>4
    <3> QED BY <1>2, <1>7, <2>2, <3>1
  <2> QED BY <1>7, <2>1, <2>2 DEF acquireAt
<1>8. CASE acquire
  <2>1. ASSUME NEW p, NEW q, acquireAt(p, q) PROVE pc = p BY <2>1 DEF acquireAt
  <2>2. /\ pc = "netMgr" => Len(held) = 1
        /\ pc = "dhtGate" => Len(held) = 2
        /\ pc = "dhtClient" => Len(held) = 3
        /\ pc = "wsGate" => Len(held) = 4
    BY DEF Holding
  <2> QED BY <1>7, <1>8, <2>1, <2>2, AcquireSteps
<1>9. CASE discoverTunnelNodes BY <1>3, <1>9 DEF discoverTunnelNodes, At, Goto, Holding
<1>10. CASE startTunnel BY <1>3, <1>10 DEF startTunnel, At, Goto, Holding
<1>11. CASE awaitTunnel
  <2>1. pc = "awaitTunnel" /\ Len(held) = 1 BY <1>11 DEF awaitTunnel, At, Holding
  <2>2. CASE held' = Append(held, "netMgr") /\ pc' = "dhtGate"
    <3>1. "netMgr" = Order[Len(held) + 1] BY <2>1, OrderValues
    <3> QED BY <1>2, <2>1, <2>2, <3>1 DEF Resources
  <2>3. CASE held' = held /\ pc' = "release" BY <1>3, <2>3
  <2> QED BY <1>11, <2>2, <2>3 DEF awaitTunnel, Acquire, Goto
<1>12. CASE Start \/ Shutdown BY <1>12 DEF Start, Shutdown, At, Goto, runVars, Holding
<1>13. CASE release
  <2>1. CASE held # << >> /\ held' = SubSeq(held, 1, Len(held) - 1) /\ pc' = pc
    <3>1. /\ held' \in Seq(Resources) /\ Len(held') = Len(held) - 1 /\ Len(held') <= 5
          /\ \A i \in 1..Len(held') : held'[i] = Order[i]
      BY <1>0, <2>1, HeldShrinks
    <3>2. pc' = "release" BY <1>13, <2>1 DEF release, At
    <3> QED BY <3>1, <3>2 DEF Holding
  <2>2. CASE held' = << >> /\ pc' = "down" BY <1>1, <2>2
  <2> QED BY <1>13, <2>1, <2>2 DEF release, Goto, Fresh
<1>14. CASE pingPump \/ crash BY <1>1, <1>14 DEF pingPump, crash, Goto, Fresh
<1>15. CASE signal \/ RunTunnel \/ Forward
  BY <1>3, <1>15 DEF signal, RunTunnel, Forward, forwardEvent, notifyUpdate, configVars
<1>16. CASE UNCHANGED startupVars BY <1>3, <1>16 DEF startupVars, configVars, runVars
<1> QED
  BY <1>4, <1>5, <1>6, <1>8, <1>9, <1>10, <1>11, <1>12, <1>13, <1>14, <1>15, <1>16
  DEF Next, Run

\* Every step keeps its count of attempts below the limit it goes on under.
LEMMA NextAttempts == Attempts /\ pc \in Steps /\ [Next]_startupVars => Attempts'
<1> SUFFICES ASSUME Attempts, pc \in Steps, [Next]_startupVars PROVE Attempts' OBVIOUS
<1>0. /\ MaxTries \in Nat \ {0} /\ MaxRounds \in Nat \ {0} /\ attempt \in Nat
      /\ attempt \in 0..MaxTries \cup 0..MaxRounds
  BY StartupAssumption DEF Attempts
<1>1. ASSUME attempt' = 0, relays' = {}, pc' \in {"down", "save", "write", "loaded"} PROVE Attempts'
  BY <1>0, <1>1 DEF Attempts
<1>2. ASSUME attempt' = attempt, relays' = relays,
             pc' = pc \/ pc' \notin {"down", "save", "write", "loaded", "connPool", "discover"}
      PROVE  Attempts'
  BY <1>2 DEF Attempts
<1>3. CASE ConfigNext /\ Fresh BY <1>1, <1>3, ConfigNextPlaces DEF Fresh
<1>4. CASE loadConfig BY <1>0, <1>4 DEF loadConfig, At, Goto, Attempts
<1>5. CASE initDNSResolver
  BY <1>0, <1>5 DEF initDNSResolver, At, Goto, Acquire, Attempts
<1>6. CASE acquire BY <1>2, <1>6, AcquireSteps DEF acquireAt
<1>7. CASE discoverTunnelNodes
  BY <1>0, <1>7 DEF discoverTunnelNodes, At, Goto, Attempts
<1>8. CASE startTunnel \/ awaitTunnel BY <1>2, <1>8 DEF startTunnel, awaitTunnel, At, Goto
<1>9. CASE Start \/ Shutdown BY <1>2, <1>9 DEF Start, Shutdown, At, Goto, runVars
<1>10. CASE release BY <1>1, <1>2, <1>10 DEF release, At, Goto, Fresh
<1>11. CASE pingPump \/ crash BY <1>1, <1>11 DEF pingPump, crash, Goto, Fresh
<1>12. CASE signal \/ RunTunnel \/ Forward
  BY <1>2, <1>12 DEF signal, RunTunnel, Forward, forwardEvent, notifyUpdate, configVars
<1>13. CASE UNCHANGED startupVars BY <1>2, <1>13 DEF startupVars, configVars, runVars
<1> QED
  BY <1>3, <1>4, <1>5, <1>6, <1>7, <1>8, <1>9, <1>10, <1>11, <1>12, <1>13
  DEF Next, Run

-----------------------------------------------------------------------------
(* The tunnel *)

\* A report that RunTunnel appends: a tunnel, which is then the last one built,
\* or something else, which may be the end.
LEMMA EventAppended ==
    ASSUME NEW es, NEW rep \in Nat, NEW blt, NEW at, EventsAre(es, rep, blt, at, "runs"),
           Len(es) < EventCap, NEW e \in EventKinds, NEW new \in {rep, rep + 1}, NEW tun,
           NEW last, IF IsUpdate(e) THEN e.n = rep + 1 /\ new = rep + 1 /\ last = rep + 1
                                    ELSE last = blt,
           e.kind = "stopped" => tun = "over"
    PROVE  EventsAre(Append(es, e), new, last, at, tun)
<1> DEFINE fs == Append(es, e)
           n == Len(es)
<1>1. es \in Seq(EventKinds) /\ n \in Nat /\ DOMAIN es = 1..n BY DEF EventsAre
<1>2. EventCap \in Nat BY StartupAssumption
<1>3. /\ fs \in Seq(EventKinds) /\ Len(fs) = n + 1 /\ DOMAIN fs = 1..(n + 1) /\ fs[n + 1] = e
      /\ \A i \in 1..n : fs[i] = es[i]
  BY <1>1
<1>4. \A i : i \in 1..(n + 1) <=> i \in 1..n \/ i = n + 1 BY <1>1
<1>5. n + 1 <= EventCap BY <1>1, <1>2
<1> HIDE DEF fs, n
<1>6. ASSUME NEW i \in DOMAIN fs, IsUpdate(fs[i]) PROVE fs[i].n \in 1..new
  <2>1. CASE i = n + 1 BY <1>3, <1>6, <2>1
  <2>2. CASE i \in 1..n
    <3>1. es[i].n \in 1..rep BY <1>1, <1>3, <1>6, <2>2 DEF EventsAre
    <3> QED BY <1>3, <2>2, <3>1
  <2> QED BY <1>3, <1>4, <2>1, <2>2
<1>7. ASSUME NEW i, LastUpdate(fs, i) PROVE fs[i].n = last
  <2>1. i \in 1..(n + 1) /\ IsUpdate(fs[i]) BY <1>3, <1>7 DEF LastUpdate
  <2>2. CASE i = n + 1 BY <1>3, <2>1, <2>2
  <2>3. CASE i \in 1..n
    <3>1. n + 1 > i /\ n + 1 \in DOMAIN fs BY <1>1, <1>3, <1>4, <2>3
    <3>2. ~IsUpdate(e) BY <1>3, <1>7, <3>1 DEF LastUpdate
    <3>3. LastUpdate(es, i) BY <1>1, <1>3, <1>4, <1>7, <2>1, <2>3 DEF LastUpdate
    <3>4. es[i].n = blt BY <3>3 DEF EventsAre
    <3> QED BY <1>3, <2>3, <3>2, <3>4
  <2> QED BY <1>4, <2>1, <2>2, <2>3
<1>8. ASSUME NEW i \in DOMAIN fs, fs[i].kind = "stopped" PROVE i = Len(fs) /\ tun = "over"
  <2>1. CASE i = n + 1 BY <1>3, <1>8, <2>1
  <2>2. CASE i \in 1..n BY <1>1, <1>3, <1>8, <2>2 DEF EventsAre
  <2> QED BY <1>3, <1>4, <2>1, <2>2
<1>9. ASSUME \A i \in DOMAIN fs : ~IsUpdate(fs[i]) PROVE at = last
  <2>1. ~IsUpdate(e) /\ \A i \in DOMAIN es : ~IsUpdate(es[i]) BY <1>1, <1>3, <1>4, <1>9
  <2> QED BY <2>1 DEF EventsAre
<1>10. EventsAre(fs, new, last, at, tun) BY <1>3, <1>5, <1>6, <1>7, <1>8, <1>9 DEF EventsAre
<1> QED BY <1>10 DEF fs

\* An event that the forwarder is done with: a tunnel only after it was
\* switched to.
LEMMA EventTaken ==
    ASSUME NEW es, NEW rep \in Nat, NEW blt, NEW at, NEW tun, EventsAre(es, rep, blt, at, tun),
           es # << >>, IsUpdate(es[1]) => at = es[1].n
    PROVE  EventsAre(Tail(es), rep, blt, at, tun)
<1> DEFINE fs == Tail(es)
           n == Len(es)
<1>1. es \in Seq(EventKinds) /\ n \in Nat \ {0} /\ DOMAIN es = 1..n /\ n <= EventCap
  BY DEF EventsAre
<1>2. /\ fs \in Seq(EventKinds) /\ Len(fs) = n - 1 /\ DOMAIN fs = 1..(n - 1)
      /\ \A i \in 1..(n - 1) : fs[i] = es[i + 1] /\ i + 1 \in 1..n
  BY <1>1
<1>3. EventCap \in Nat BY StartupAssumption
<1>4. n - 1 <= EventCap BY <1>1, <1>3
<1>5. \A i \in 1..n : i = 1 \/ (i - 1 \in 1..(n - 1) /\ (i - 1) + 1 = i) BY <1>1
<1> HIDE DEF fs, n
<1>6. \A i \in DOMAIN fs : IsUpdate(fs[i]) => fs[i].n \in 1..rep BY <1>1, <1>2 DEF EventsAre
<1>7. ASSUME NEW i, LastUpdate(fs, i) PROVE fs[i].n = blt
  <2>1. i \in 1..(n - 1) /\ IsUpdate(es[i + 1]) /\ i + 1 \in 1..n BY <1>2, <1>7 DEF LastUpdate
  <2>2. ASSUME NEW j \in 1..n, j > i + 1 PROVE ~IsUpdate(es[j])
    <3>1. j - 1 \in 1..(n - 1) /\ (j - 1) + 1 = j /\ j - 1 > i BY <1>1, <2>1, <2>2
    <3>2. ~IsUpdate(fs[j - 1]) BY <1>2, <1>7, <3>1 DEF LastUpdate
    <3> QED BY <1>2, <3>1, <3>2
  <2>3. LastUpdate(es, i + 1) BY <1>1, <2>1, <2>2 DEF LastUpdate
  <2> QED BY <1>2, <2>1, <2>3 DEF EventsAre
<1>8. ASSUME NEW i \in DOMAIN fs, fs[i].kind = "stopped" PROVE i = Len(fs) /\ tun = "over"
  <2>1. i + 1 \in DOMAIN es /\ es[i + 1].kind = "stopped" /\ i \in 1..(n - 1) BY <1>1, <1>2, <1>8
  <2>2. i + 1 = n /\ tun = "over" BY <1>1, <2>1 DEF EventsAre, n
  <2> QED BY <1>1, <1>2, <2>1, <2>2
<1>9. ASSUME \A i \in DOMAIN fs : ~IsUpdate(fs[i]) PROVE at = blt
  <2>1. \A j \in 1..n : j > 1 => ~IsUpdate(es[j])
    <3> SUFFICES ASSUME NEW j \in 1..n, j > 1 PROVE ~IsUpdate(es[j]) OBVIOUS
    <3>1. j - 1 \in 1..(n - 1) /\ (j - 1) + 1 = j BY <1>1
    <3> QED BY <1>2, <1>9, <3>1
  <2>2. CASE IsUpdate(es[1])
    <3>1. LastUpdate(es, 1) BY <1>1, <2>1, <2>2 DEF LastUpdate
    <3> QED BY <2>2, <3>1 DEF EventsAre
  <2>3. CASE ~IsUpdate(es[1])
    <3>1. \A j \in 1..n : ~IsUpdate(es[j]) BY <1>1, <2>1, <2>3
    <3> QED BY <1>1, <3>1 DEF EventsAre
  <2> QED BY <2>2, <2>3
<1>10. EventsAre(fs, rep, blt, at, tun) BY <1>2, <1>4, <1>6, <1>7, <1>8, <1>9 DEF EventsAre
<1> QED BY <1>10 DEF fs

\* The events when the forwarder switches to the tunnel reported next.
LEMMA EventSwitched ==
    ASSUME NEW es, NEW rep, NEW blt, NEW at, NEW tun, EventsAre(es, rep, blt, at, tun),
           es # << >>, IsUpdate(es[1]), NEW to
    PROVE  EventsAre(es, rep, blt, to, tun)
<1>1. 1 \in DOMAIN es BY DEF EventsAre
<1> QED BY <1>1 DEF EventsAre

\* Without a tunnel there is nothing to report.
LEMMA NoTunnel ==
    ASSUME tunnel' = "none" \/ (tunnel' = "runs" /\ pc' = "awaitTunnel" /\ Len(held') = 1),
           reports' = 0, built' = 0, events' = << >>, initUpd' = << >>, atm' = 0,
           forwarder' = "gone" \/ (forwarder' = "idle" /\ tunnel' = "runs")
    PROVE  EventsInv' /\ TunnelInv'
<1>1. /\ events' \in Seq(EventKinds) /\ Len(events') = 0 /\ DOMAIN events' = {}
      /\ initUpd' \in Seq(EventKinds) /\ Len(initUpd') = 0
  OBVIOUS
<1>2. MaxReports \in Nat /\ EventCap \in Nat BY StartupAssumption
<1>3. EventsInv' BY <1>1, <1>2 DEF EventsInv, EventsAre, LastUpdate
<1>4. TunnelInv' BY <1>1, <1>2 DEF TunnelInv, TunnelSteps
<1> QED BY <1>3, <1>4

\* The tunnel's variables when another step leaves them alone.
LEMMA TunnelRests ==
    ASSUME EventsInv, TunnelInv, UNCHANGED tunnelVars,
           tunnel # "none" => pc' \in TunnelSteps /\ (Len(held') >= 2 => atm # 0)
    PROVE  EventsInv' /\ TunnelInv'
<1>1. /\ tunnel' = tunnel /\ reports' = reports /\ built' = built /\ events' = events
      /\ forwarder' = forwarder /\ initUpd' = initUpd /\ atm' = atm
  BY DEF tunnelVars
<1>2. EventsInv' BY <1>1 DEF EventsInv
<1>3. TunnelInv' BY <1>1 DEF TunnelInv
<1> QED BY <1>2, <1>3

\* A report of RunTunnel.
LEMMA ReportKeepsTunnel ==
    ASSUME EventsInv, TunnelInv, RunTunnel
    PROVE  EventsInv' /\ TunnelInv'
<1>0. /\ tunnel = "runs" /\ Len(events) < EventCap /\ pc' = pc /\ held' = held
      /\ forwarder' = forwarder /\ initUpd' = initUpd /\ atm' = atm
  BY DEF RunTunnel, configVars
<1>1. /\ reports \in 0..MaxReports /\ MaxReports \in Nat /\ reports \in Nat
      /\ built \in 0..reports /\ atm \in 0..reports
      /\ events \in Seq(EventKinds) /\ EventsAre(events, reports, built, atm, "runs")
  BY <1>0, StartupAssumption DEF TunnelInv, EventsInv, EventsAre
<1>2. ASSUME NEW e \in EventKinds, NEW r \in {reports, reports + 1}, r <= MaxReports, NEW t \in {"runs", "over"},
             NEW last \in 0..r,
             IF IsUpdate(e) THEN e.n = reports + 1 /\ r = reports + 1 /\ last = reports + 1
                            ELSE last = built,
             e.kind = "stopped" => t = "over",
             events' = Append(events, e), reports' = r, built' = last, tunnel' = t
      PROVE  EventsInv' /\ TunnelInv'
  <2>1. EventsAre(Append(events, e), r, last, atm, t) BY <1>0, <1>1, <1>2, EventAppended
  <2>2. EventsInv' BY <1>0, <1>2, <2>1 DEF EventsInv
  <2>3. events # << >> => events' # << >> /\ events'[1] = events[1] BY <1>1, <1>2
  <2>4. r \in 0..MaxReports /\ atm \in 0..r BY <1>1, <1>2
  <2>5. TunnelInv' BY <1>0, <1>1, <1>2, <2>3, <2>4 DEF TunnelInv
  <2> QED BY <2>2, <2>5
<1>3. CASE /\ reports < MaxReports /\ reports' = reports + 1 /\ tunnel' = tunnel
           /\ \E k \in {"updated", "error"} :
                /\ events' = Append(events, [kind |-> k, n |-> reports'])
                /\ built' = IF k = "updated" THEN reports' ELSE built
  <2>1. PICK k \in {"updated", "error"} :
          /\ events' = Append(events, [kind |-> k, n |-> reports + 1])
          /\ built' = IF k = "updated" THEN reports + 1 ELSE built
    BY <1>3
  <2> DEFINE e == [kind |-> k, n |-> reports + 1]
             last == IF k = "updated" THEN reports + 1 ELSE built
             r == reports + 1
  <2>2. e \in EventKinds /\ e.kind = k /\ e.n = reports + 1 /\ (IsUpdate(e) <=> k = "updated")
    BY <1>1 DEF EventKinds, IsUpdate
  <2>3. last \in 0..r /\ r \in {reports, reports + 1} /\ r <= MaxReports BY <1>1, <1>3
  <2>4. events' = Append(events, e) /\ built' = last /\ reports' = r /\ tunnel' = "runs"
    BY <1>0, <1>3, <2>1
  <2>5. e.kind # "stopped" BY <2>2
  <2>6. IF IsUpdate(e) THEN e.n = reports + 1 /\ r = reports + 1 /\ last = reports + 1
                       ELSE last = built
    BY <2>2
  <2> HIDE DEF e, last, r
  <2> QED BY <1>2, <2>2, <2>3, <2>4, <2>5, <2>6
<1>4. CASE /\ events' = Append(events, [kind |-> "stopped", n |-> 0]) /\ tunnel' = "over"
           /\ reports' = reports /\ built' = built
  <2> DEFINE e == [kind |-> "stopped", n |-> 0]
  <2>1. e \in EventKinds /\ ~IsUpdate(e) BY DEF EventKinds, IsUpdate
  <2>2. events' = Append(events, e) BY <1>4
  <2>3. reports <= MaxReports BY <1>1
  <2> HIDE DEF e
  <2> QED BY <1>1, <1>2, <1>4, <2>1, <2>2, <2>3
<1> QED BY <1>3, <1>4 DEF RunTunnel

\* An offer to start-up: what it holds then is what it held, or the event.
LEMMA OfferKeeps ==
    ASSUME initUpd \in Seq(EventKinds), Len(initUpd) <= 1, NEW e \in EventKinds, Offer(e)
    PROVE  /\ initUpd' \in Seq(EventKinds) /\ Len(initUpd') <= 1 /\ initUpd' # << >>
           /\ initUpd = << >> => initUpd'[1] = e
           /\ initUpd # << >> => initUpd' = initUpd
<1>1. CASE initUpd = << >>
  <2>1. initUpd' = <<e>> BY <1>1 DEF Offer
  <2> QED BY <1>1, <2>1
<1>2. CASE initUpd # << >> BY <1>2 DEF Offer
<1> QED BY <1>1, <1>2

\* The forwarder's steps: it switches to a tunnel before it takes the report
\* off the channel and before it tells start-up.
LEMMA ForwardKeepsTunnel ==
    ASSUME EventsInv, TunnelInv, Forward
    PROVE  EventsInv' /\ TunnelInv'
<1>0. /\ pc' = pc /\ held' = held /\ tunnel' = tunnel /\ reports' = reports /\ built' = built
  BY DEF Forward, forwardEvent, notifyUpdate, configVars
<1>1. /\ reports \in Nat /\ events \in Seq(EventKinds) /\ tunnel # "none"
      /\ EventsAre(events, reports, built, atm, tunnel)
      /\ forwarder \in {"idle", "notify"}
      /\ initUpd \in Seq(EventKinds) /\ Len(initUpd) <= 1
  BY StartupAssumption DEF TunnelInv, EventsInv, EventsAre, Forward, forwardEvent, notifyUpdate
<1>2. events # << >> BY DEF Forward, forwardEvent, notifyUpdate, TunnelInv
<1>3. Head(events) = events[1] /\ events[1] \in EventKinds /\ 1 \in DOMAIN events BY <1>1, <1>2
<1>4. CASE /\ forwarder' = "gone" /\ events' = Tail(events) /\ initUpd' = initUpd /\ atm' = atm
           /\ Head(events).kind = "stopped"
  <2>1. ~IsUpdate(events[1]) BY <1>3, <1>4 DEF IsUpdate
  <2>2. EventsAre(Tail(events), reports, built, atm, tunnel) BY <1>1, <1>2, <2>1, EventTaken
  <2>3. EventsInv' BY <1>0, <1>4, <2>2 DEF EventsInv
  <2>4. TunnelInv' BY <1>0, <1>1, <1>4 DEF TunnelInv
  <2> QED BY <2>3, <2>4
<1>5. CASE /\ forwarder' = "notify" /\ atm' = Head(events).n /\ events' = events
           /\ initUpd' = initUpd /\ Head(events).kind = "updated"
  <2>1. IsUpdate(events[1]) BY <1>3, <1>5 DEF IsUpdate
  <2>2. events[1].n \in 1..reports BY <1>1, <1>3, <2>1 DEF EventsAre
  <2>3. \A to : EventsAre(events, reports, built, to, tunnel) BY <1>1, <1>2, <2>1, EventSwitched
  <2>4. EventsInv' BY <1>0, <1>5, <2>3 DEF EventsInv
  <2>5. atm' \in 0..reports /\ atm' # 0 /\ atm' = events[1].n BY <1>1, <1>3, <1>5, <2>2
  <2>6. TunnelInv' BY <1>0, <1>1, <1>2, <1>5, <2>1, <2>5 DEF TunnelInv
  <2> QED BY <2>4, <2>6
<1>6. CASE /\ Offer(Head(events)) /\ events' = Tail(events) /\ atm' = atm
           /\ \/ forwarder' = forwarder /\ forwarder = "idle" /\ Head(events).kind = "error"
              \/ forwarder' = "idle" /\ forwarder = "notify"
  <2>1. forwarder = "notify" => IsUpdate(events[1]) /\ atm = events[1].n BY DEF TunnelInv
  <2>2. IsUpdate(events[1]) => atm = events[1].n BY <1>3, <1>6, <2>1 DEF IsUpdate
  <2>3. EventsAre(Tail(events), reports, built, atm, tunnel) BY <1>1, <1>2, <2>2, EventTaken
  <2>4. EventsInv' BY <1>0, <1>6, <2>3 DEF EventsInv
  <2>5. /\ initUpd' \in Seq(EventKinds) /\ Len(initUpd') <= 1
        /\ initUpd = << >> => initUpd'[1] = events[1]
        /\ initUpd # << >> => initUpd' = initUpd
    BY <1>1, <1>3, <1>6, OfferKeeps
  <2>6. IsUpdate(events[1]) => atm # 0 BY <1>1, <1>3, <2>2 DEF EventsAre
  <2>7. IsUpdate(initUpd'[1]) => atm # 0 BY <2>5, <2>6 DEF TunnelInv
  <2>8. TunnelInv' BY <1>0, <1>1, <1>6, <2>5, <2>7 DEF TunnelInv
  <2> QED BY <2>4, <2>8
<1>7. CASE forwardEvent BY <1>4, <1>5, <1>6, <1>7 DEF forwardEvent
<1>8. CASE notifyUpdate BY <1>6, <1>8 DEF notifyUpdate
<1> QED BY <1>7, <1>8 DEF Forward

\* Every step keeps the tunnel's invariants.
LEMMA NextTunnel ==
    pc \in Steps /\ Holding /\ EventsInv /\ TunnelInv /\ [Next]_startupVars => EventsInv' /\ TunnelInv'
<1> SUFFICES ASSUME pc \in Steps, Holding, EventsInv, TunnelInv, [Next]_startupVars
             PROVE  EventsInv' /\ TunnelInv'
  OBVIOUS
<1>0. Len(held) \in Nat /\ held \in Seq(Resources) BY DEF Holding
<1>1. ASSUME Fresh PROVE EventsInv' /\ TunnelInv' BY <1>1, NoTunnel DEF Fresh
<1>2. CASE ConfigNext /\ Fresh BY <1>1, <1>2
<1>3. tunnel # "none" => pc \in TunnelSteps /\ (Len(held) >= 2 => atm # 0) BY DEF TunnelInv
<1>4. CASE loadConfig \/ initDNSResolver \/ discoverTunnelNodes
  <2>1. pc \notin TunnelSteps /\ UNCHANGED tunnelVars
    BY <1>4 DEF loadConfig, initDNSResolver, discoverTunnelNodes, At, TunnelSteps
  <2> QED BY <1>3, <2>1, TunnelRests
<1>5. ASSUME NEW p, NEW q, acquireAt(p, q), p = "netMgr" \/ (p \in TunnelSteps /\ Len(held) >= 2),
             q \in TunnelSteps
      PROVE  EventsInv' /\ TunnelInv'
  <2>1. pc = p /\ pc' \in {q, "release"} /\ UNCHANGED tunnelVars BY <1>5 DEF acquireAt
  <2>2. tunnel # "none" => atm # 0 BY <1>3, <1>5, <2>1 DEF TunnelSteps
  <2>3. pc' \in TunnelSteps BY <1>5, <2>1 DEF TunnelSteps
  <2> QED BY <2>1, <2>2, <2>3, TunnelRests
<1>6. CASE acquire
  <2>1. ASSUME NEW p, NEW q, acquireAt(p, q) PROVE pc = p BY <2>1 DEF acquireAt
  <2>2. pc \in {"dhtGate", "dhtClient", "wsGate"} => Len(held) >= 2 BY DEF Holding
  <2>3. {"dhtGate", "dhtClient", "wsGate", "serve"} \subseteq TunnelSteps BY DEF TunnelSteps
  <2>4. CASE acquireAt("netMgr", "dhtGate") BY <1>5, <2>3, <2>4
  <2>5. CASE acquireAt("dhtGate", "dhtClient") BY <1>5, <2>1, <2>2, <2>3, <2>5
  <2>6. CASE acquireAt("dhtClient", "wsGate") BY <1>5, <2>1, <2>2, <2>3, <2>6
  <2>7. CASE acquireAt("wsGate", "serve") BY <1>5, <2>1, <2>2, <2>3, <2>7
  <2> QED BY <1>6, <2>4, <2>5, <2>6, <2>7, AcquireSteps
<1>7. CASE startTunnel
  <2>1. pc = "startTunnel" /\ held' = held BY <1>7 DEF startTunnel, At
  <2>2. Len(held') = 1 /\ pc \notin TunnelSteps BY <2>1 DEF Holding, TunnelSteps
  <2>3. CASE UNCHANGED tunnelVars BY <1>3, <2>2, <2>3, TunnelRests
  <2>4. CASE /\ tunnel' = "runs" /\ reports' = 0 /\ built' = 0 /\ events' = << >>
             /\ forwarder' = "idle" /\ initUpd' = << >> /\ atm' = 0 /\ pc' = "awaitTunnel"
    BY <2>2, <2>4, NoTunnel
  <2> QED BY <1>7, <2>3, <2>4 DEF startTunnel, Goto
<1>8. CASE awaitTunnel
  <2>1. /\ pc = "awaitTunnel" /\ initUpd # << >> /\ initUpd' = << >>
        /\ tunnel' = tunnel /\ reports' = reports /\ built' = built /\ events' = events
        /\ forwarder' = forwarder /\ atm' = atm
    BY <1>8 DEF awaitTunnel, At
  <2>2. Len(held) = 1 BY <2>1 DEF Holding
  <2>3. EventsInv' BY <2>1 DEF EventsInv
  <2>4. initUpd \in Seq(EventKinds) BY DEF TunnelInv
  <2>5. Head(initUpd) = initUpd[1] BY <2>1, <2>4
  <2>6. \/ pc' = "dhtGate" /\ atm # 0
        \/ pc' = "release" /\ held' = held
    BY <1>8, <2>1, <2>5 DEF awaitTunnel, Goto, TunnelInv
  <2>7. initUpd' \in Seq(EventKinds) /\ Len(initUpd') <= 1 BY <2>1
  <2>8. Len(held') >= 2 => atm # 0
    <3>1. CASE atm # 0 BY <3>1
    <3>2. CASE held' = held
      <4>1. Len(held') = 1 BY <2>2, <3>2
      <4> QED BY ONLY <4>1
    <3> QED BY <2>6, <3>1, <3>2
  <2>9. pc' \in TunnelSteps BY <2>6 DEF TunnelSteps
  <2>10. TunnelInv' BY <2>1, <2>7, <2>8, <2>9 DEF TunnelInv
  <2> QED BY <2>3, <2>10
<1>9. CASE Start \/ Shutdown
  <2>1. held' = held /\ UNCHANGED tunnelVars /\ pc' \in {"serving", "release"}
    BY <1>9 DEF Start, Shutdown, Goto, runVars
  <2> QED BY <1>3, <2>1, TunnelRests DEF TunnelSteps
<1>10. CASE release
  <2>1. CASE Fresh BY <1>1, <2>1
  <2>2. CASE held # << >> /\ held' = SubSeq(held, 1, Len(held) - 1) /\ pc' = pc /\ UNCHANGED tunnelVars
    <3>1. Len(held') = Len(held) - 1 BY <1>0, <2>2, HeldShrinks DEF Holding
    <3>2. Len(held') >= 2 => Len(held) >= 2 BY <1>0, <3>1
    <3> QED BY <1>3, <2>2, <3>2, TunnelRests
  <2> QED BY <1>10, <2>1, <2>2 DEF release
<1>11. CASE pingPump \/ crash BY <1>1, <1>11 DEF pingPump, crash
<1>12. CASE signal BY <1>3, <1>12, TunnelRests DEF signal, configVars
<1>13. CASE RunTunnel BY <1>13, ReportKeepsTunnel
<1>14. CASE Forward BY <1>14, ForwardKeepsTunnel
<1>15. CASE UNCHANGED startupVars
  BY <1>3, <1>15, TunnelRests DEF startupVars, configVars, runVars
<1> QED
  BY <1>2, <1>4, <1>6, <1>7, <1>8, <1>9, <1>10, <1>11, <1>12, <1>13, <1>14, <1>15
  DEF Next, Run

-----------------------------------------------------------------------------
(* Theorems *)

\* The inductive invariant holds before the first launch ...
LEMMA InitStartup == Init => StartupInv
<1> SUFFICES ASSUME Init PROVE StartupInv OBVIOUS
<1>1. /\ held = << >> /\ attempt = 0 /\ relays = {} /\ tunnel = "none" /\ reports = 0 /\ built = 0
      /\ events = << >> /\ forwarder = "gone" /\ initUpd = << >> /\ atm = 0 /\ pc = "down"
  BY DEF Init, ConfigInit
<1>2. pc \in Steps /\ ConfigInv BY InitConfig
<1>3. held \in Seq(Resources) /\ Len(held) = 0 /\ 1..Len(held) = {} BY <1>1
<1>4. Holding BY <1>1, <1>3 DEF Holding
<1>5. Attempts BY <1>1, StartupAssumption DEF Attempts
<1>6. /\ events \in Seq(EventKinds) /\ Len(events) = 0 /\ DOMAIN events = {}
      /\ initUpd \in Seq(EventKinds) /\ Len(initUpd) = 0
  BY <1>1
<1>7. EventsInv BY <1>1, <1>6, StartupAssumption DEF EventsInv, EventsAre, LastUpdate
<1>8. TunnelInv BY <1>1, <1>3, <1>6, StartupAssumption DEF TunnelInv
<1> QED BY <1>2, <1>4, <1>5, <1>7, <1>8 DEF StartupInv

\* ... and in every state after it.
LEMMA StartupInvariant == Spec => []StartupInv
<1>1. StartupInv /\ [Next]_startupVars => StartupInv'
  <2> SUFFICES ASSUME StartupInv, [Next]_startupVars PROVE StartupInv' OBVIOUS
  <2>1. pc \in Steps /\ ConfigInv /\ Holding /\ Attempts /\ EventsInv /\ TunnelInv BY DEF StartupInv
  <2>2. pc' \in Steps /\ ConfigInv' BY <2>1, StepKinds, RunKeepsConfig, ConfigNextKeeps
  <2>3. Holding' BY <2>1, NextHolding
  <2>4. Attempts' BY <2>1, NextAttempts
  <2>5. EventsInv' /\ TunnelInv' BY <2>1, NextTunnel
  <2> QED BY <2>2, <2>3, <2>4, <2>5 DEF StartupInv
<1> QED BY <1>1, InitStartup, PTL DEF Spec

\* Whatever step of the start-up fails, is interrupted or is repeated
\* (main.go): what run holds is the beginning of the order of acquisition, all
\* of it while the bridge serves and nothing once the process has ended; no
\* step is tried more often than it may be.
THEOREM HeldInOrder == Spec => []TypeOK
<1>1. StartupInv => TypeOK
  <2> SUFFICES ASSUME StartupInv PROVE TypeOK OBVIOUS
  <2>0. pc \in Steps /\ ConfigInv /\ Holding /\ Attempts /\ EventsInv /\ TunnelInv BY DEF StartupInv
  <2>1. file \in {NoFile, Partial} \/ DOMAIN file = DOMAIN DefaultConfig
    <3>1. DOMAIN DefaultConfig
            = {"version", "key", "apiKey", "tunnelSections", "maxClients", "maxInflight",
               "maxSubscriptions", "subscribe", "pongDeadline", "ssrfProtection"}
      BY DEF DefaultConfig
    <3>2. file \in Configs => DOMAIN file = DOMAIN DefaultConfig BY <3>1 DEF Configs
    <3> QED BY <2>0, <3>2 DEF ConfigInv
  <2>2. pc \in {"down", "save", "write", "loaded", "discover", "startTunnel", "awaitTunnel",
                "serve", "serving", "release"} \cup {Order[i] : i \in DOMAIN Order}
    <3>1. DOMAIN Order = 1..5 BY OrderValues
    <3>2. 1 \in 1..5 /\ 2 \in 1..5 /\ 3 \in 1..5 /\ 4 \in 1..5 /\ 5 \in 1..5 OBVIOUS
    <3>3. {"connPool", "netMgr", "dhtGate", "dhtClient", "wsGate"} \subseteq {Order[i] : i \in DOMAIN Order}
      BY <3>1, <3>2, OrderValues
    <3> QED BY <2>0, <3>3 DEF Steps
  <2>3. /\ held \in Seq(Resources) /\ Len(held) \in 0..5 /\ Order \in Seq(Resources) /\ Len(Order) = 5
        /\ \A i \in 1..Len(held) : held[i] = Order[i]
    <3>1. /\ held \in Seq(Resources) /\ Len(held) <= 5
          /\ \A i \in 1..Len(held) : held[i] = Order[i]
      BY <2>0 DEF Holding
    <3>2. Len(held) \in 0..5
      <4>1. Len(held) \in Nat BY <3>1
      <4>2. Len(held) <= 5 BY <3>1
      <4>3. \A n \in Nat : n <= 5 => n \in 0..5 OBVIOUS
      <4> QED BY <4>1, <4>2, <4>3
    <3> QED BY <3>1, <3>2, OrderValues
  <2>4. held = SubSeq(Order, 1, Len(held))
    <3> DEFINE n == Len(held)
               s == SubSeq(Order, 1, n)
    <3>1. n \in Int /\ 1 \in Int /\ \A i \in 1..n : Order[i] \in Resources BY <2>3
    <3>2. s \in Seq(Resources) /\ Len(s) = n /\ \A i \in 1..n : s[i] = Order[i]
      <4>1. /\ s \in Seq(Resources) /\ Len(s) = IF 1 <= n THEN n - 1 + 1 ELSE 0
            /\ \A i \in 1..(n - 1 + 1) : s[i] = Order[1 + i - 1]
        BY <3>1, SubSeqProperties
      <4>2. n - 1 + 1 = n /\ (IF 1 <= n THEN n - 1 + 1 ELSE 0) = n /\ \A i \in 1..n : 1 + i - 1 = i
        BY <2>3
      <4> QED BY <4>1, <4>2
    <3> HIDE DEF s
    <3>3. held = s BY <2>3, <3>2, SeqEqual
    <3> QED BY <3>3 DEF s
  <2>5. pc = "serving" => held = Order
    <3>1. pc = "serving" => Len(held) = 5 BY <2>0 DEF Holding
    <3>2. Len(held) = 5 => held = Order BY <2>3, SeqEqual
    <3> QED BY <3>1, <3>2
  <2>6. pc = "down" => held = << >> BY <2>0, <2>3 DEF Holding
  <2>7. keys \in 0..MaxKeys /\ edits \in 0..MaxEdits BY <2>0 DEF ConfigInv
  <2>8. /\ attempt \in 0..MaxTries \cup 0..MaxRounds /\ (pc = "connPool" => attempt < MaxTries)
        /\ (pc = "discover" => attempt < MaxRounds) /\ relays \subseteq Relays
    BY <2>0 DEF Attempts
  <2>9. /\ tunnel \in {"none", "runs", "over"} /\ forwarder \in {"idle", "notify", "gone"}
        /\ reports \in 0..MaxReports /\ atm \in 0..reports /\ Len(initUpd) <= 1
    BY <2>0 DEF TunnelInv
  <2>10. Len(events) <= EventCap BY <2>0 DEF EventsInv, EventsAre
  <2> QED BY <2>1, <2>2, <2>4, <2>5, <2>6, <2>7, <2>8, <2>9, <2>10 DEF TypeOK
<1> QED BY <1>1, StartupInvariant, PTL

\* A process that got past LoadConfig (config.go) starts again with the
\* configuration and the key it runs with, wherever it was killed, unless it
\* has warned that it could not save.
THEOREM ProcessStartsAgain == Spec => []StartsAgain
BY StartupInvariant, PTL DEF StartupInv, ConfigInv

\* The bridge runs with what the operator wrote: LoadConfig, migrateV1 and
\* applyDefaults replace no value that the file sets, but for those that a
\* version 1 file loses.
THEOREM OperatorSettingsKept == Spec => []SettingsKept
<1>1. StartupInv => SettingsKept
  <2> SUFFICES ASSUME StartupInv, ~Loading, read # NoFile PROVE Keeps(read, cfg)
    BY DEF SettingsKept, Keeps
  <2>1. pc # "down" BY DEF Loading
  <2> QED BY <2>1 DEF StartupInv, ConfigInv
<1> QED BY <1>1, StartupInvariant, PTL

\* Nine tenths of a deadline, computed as ToWSBridgeConfig does: more than
\* nothing and less than the deadline, unless nine times it does not fit.
LEMMA NineTenths ==
    ASSUME NEW x \in Int, x >= 2, 9 * x <= HalfWord - 1
    PROVE  Quo(Wrap(x * 9), 10) \in 1..(x - 1)
<1>1. HalfWord \in Nat \ {0} BY ConfigurationAssumption
<1>2. Wrap(x * 9) = x * 9
  <2>1. x * 9 + HalfWord >= 0 /\ x * 9 + HalfWord < 2 * HalfWord BY <1>1
  <2>2. (x * 9 + HalfWord) % (2 * HalfWord) = x * 9 + HalfWord BY <1>1, <2>1
  <2> QED BY <1>1, <2>2 DEF Wrap
<1>3. (x * 9) \div 10 \in 1..(x - 1) OBVIOUS
<1> QED BY <1>2, <1>3 DEF Quo

\* The pings come before the peer's deadline for every deadline of more than a
\* nanosecond of which nine times fits into a time.Duration.
THEOREM PingsBeforeDeadline == Spec => []PingsInTime
<1>1. PingsInTime
  <2> SUFFICES ASSUME NEW x \in 2..((HalfWord - 1) \div 9), cfg.pongDeadline = x
               PROVE  PingPeriod(cfg) \in 1..(x - 1)
    BY DEF PingsInTime
  <2>1. HalfWord \in Nat \ {0} BY ConfigurationAssumption
  <2>2. x \in Int /\ x >= 2 /\ 9 * x <= HalfWord - 1 BY <2>1
  <2> QED BY <2>2, NineTenths DEF PingPeriod
<1> QED BY <1>1, PTL

\* When the forwarder of startTunnel (main.go) has caught up with RunTunnel,
\* the tunnel in use is the last one reported, and a bridge on a tunnel always
\* has one to send through.
THEOREM TunnelIsLatest == Spec => []LatestTunnel
<1>1. StartupInv => LatestTunnel
  <2> SUFFICES ASSUME EventsInv, TunnelInv PROVE LatestTunnel BY DEF StartupInv
  <2>1. events = << >> => DOMAIN events = {} OBVIOUS
  <2>2. events = << >> => atm = built BY <2>1 DEF EventsInv, EventsAre
  <2>3. tunnel # "none" /\ Len(held) >= 2 => atm # 0 BY DEF TunnelInv
  <2> QED BY <2>2, <2>3 DEF LatestTunnel
<1> QED BY <1>1, StartupInvariant, PTL
=============================================================================
