---------------------------- MODULE Configuration ----------------------------
(***************************************************************************)
(* config.json (config.go): what LoadConfig makes of the file, what        *)
(* SaveConfig writes, and the crashes and failed writes in between.  The   *)
(* file carries the bridge's only persistent state, its ADNL key.          *)
(*                                                                         *)
(* A configuration keeps one field of each kind that LoadConfig treats     *)
(* differently: apiKey stands for the fields migrateV1 leaves alone,       *)
(* maxClients for those it replaces; a number that is 0 is a number that   *)
(* is missing, since encoding/json cannot tell them apart.                 *)
(***************************************************************************)
EXTENDS Integers

CONSTANTS
    MaxKeys,    \* bound: keys generated
    Missing,    \* a string, pointer or bool the file does not set
    Malformed,  \* a duration time.ParseDuration refuses
    NoFile,     \* there is no config.json
    Partial,    \* config.json holds a prefix of what was to be written
    Edits,      \* the configurations the operator may write
    MaxEdits,   \* bound: how often the operator does
    HalfWord    \* half of the integers time.Duration can hold (2^63)

ASSUME ConfigurationAssumption ==
    MaxKeys \in Nat /\ MaxEdits \in Nat /\ HalfWord \in Nat \ {0}

\* type Config: what a file that encoding/json accepts can hold.
Configs ==
    [version : Int, key : Nat, apiKey : {Missing} \cup STRING, tunnelSections : Int,
     maxClients : Int, maxInflight : Int, maxSubscriptions : Int,
     subscribe : {Missing} \cup BOOLEAN, pongDeadline : {Missing, Malformed} \cup Int,
     ssrfProtection : {Missing} \cup BOOLEAN]

\* The operator writes such files, and the stand-ins are none of the values.
ASSUME EditsAssumption ==
    /\ Edits \subseteq Configs
    /\ NoFile \notin Configs /\ Partial \notin Configs /\ NoFile # Partial
    /\ Missing \notin Int /\ Missing \notin BOOLEAN /\ Missing # Malformed /\ Malformed \notin Int

VARIABLES
    file,     \* config.json: NoFile, Partial or a configuration
    keys,     \* number of keys generated so far
    edits,    \* number of edits so far
    pc,       \* where the process is; "down" when there is none
    read,     \* the file as LoadConfig found it
    cfg,      \* the configuration in memory
    unsaved   \* the save of a migrated configuration failed (only a warning)

configVars == <<file, keys, edits, pc, read, cfg, unsaved>>

NoKey == 0  \* no key, or one of the wrong length

-----------------------------------------------------------------------------
(* Reading *)

\* The values of DefaultConfig, in proportion.
DefaultConfig ==
    [version |-> 2, key |-> NoKey, apiKey |-> Missing, tunnelSections |-> 0,
     maxClients |-> 3, maxInflight |-> 4, maxSubscriptions |-> 2,
     subscribe |-> TRUE, pongDeadline |-> 10, ssrfProtection |-> TRUE]

\* json.Unmarshal: a missing bool is false, a missing *bool stays nil.
Unmarshal(f) ==
    [f EXCEPT !.ssrfProtection = (@ = TRUE)]

\* IsEnabled: a namespace that does not say is enabled.
IsEnabled(c) == c.subscribe # FALSE

\* migrateV1: the websocket and namespace settings, max_clients and the like
\* become the defaults; the key, api_key and tunnel_sections stay.
migrateV1(c) ==
    [DefaultConfig EXCEPT !.key = c.key, !.apiKey = c.apiKey,
                          !.tunnelSections = c.tunnelSections]

\* Mutant: the default headroom replaces the file's.
MutantApplyDefaults(c) ==
    LET orDefault(v, d) == IF v = 0 THEN d ELSE v
    IN  [c EXCEPT !.maxClients       = orDefault(@, DefaultConfig.maxClients),
                  !.maxInflight      = DefaultConfig.maxInflight,
                  !.maxSubscriptions = orDefault(@, DefaultConfig.maxSubscriptions),
                  !.pongDeadline     = IF @ = Missing THEN DefaultConfig.pongDeadline ELSE @]

\* applyDefaults: zero values only; never a bool, and not the enabled pointer.
applyDefaults(c) ==
    LET orDefault(v, d) == IF v = 0 THEN d ELSE v
    IN  [c EXCEPT !.maxClients       = orDefault(@, DefaultConfig.maxClients),
                  !.maxInflight      = orDefault(@, DefaultConfig.maxInflight),
                  !.maxSubscriptions = orDefault(@, DefaultConfig.maxSubscriptions),
                  !.pongDeadline     = IF @ = Missing THEN DefaultConfig.pongDeadline ELSE @]

\* Validate: durations parse (their sign is not looked at), counts are at
\* least 1, and subscriptions leave room for other requests.
Validate(c) ==
    /\ c.maxClients >= 1
    /\ c.pongDeadline # Malformed
    /\ c.maxInflight >= 1
    /\ IsEnabled(c) => c.maxSubscriptions >= 1 /\ c.maxInflight > c.maxSubscriptions

Migrates(f) == f.version < 2

\* What a parsed file becomes, but for a key that is missing.
Completed(f) ==
    applyDefaults(IF Migrates(f) THEN migrateV1(Unmarshal(f)) ELSE Unmarshal(f))

IsConfig(f) == f \notin {NoFile, Partial}

\* The file does not set the field.
Unset(f, v) ==
    v = IF f \in {"version", "key", "tunnelSections", "maxClients", "maxInflight",
                  "maxSubscriptions"} THEN 0 ELSE Missing

-----------------------------------------------------------------------------
(* The runtime configuration *)

\* Arithmetic of time.Duration: it wraps, and division truncates.
Wrap(x) == ((x + HalfWord) % (2 * HalfWord)) - HalfWord
Quo(x, y) == IF x < 0 THEN -((-x) \div y) ELSE x \div y

\* Mutant: a tenth of the deadline.
MutantPingPeriod(c) == Quo(c.pongDeadline, 10)

\* ToWSBridgeConfig: PingPeriod = (pongDeadline * 9) / 10.
PingPeriod(c) == Quo(Wrap(c.pongDeadline * 9), 10)

-----------------------------------------------------------------------------
(* Loading and saving *)

\* The operator edits the file between two runs (an edit during a run shows at
\* the next start only); the key is kept or removed.
editConfig ==
    /\ pc = "down" /\ edits < MaxEdits
    /\ edits' = edits + 1
    /\ \E c \in Edits, k \in {NoKey} \cup (IF IsConfig(file) THEN {file.key} ELSE {}) :
         file' = [c EXCEPT !.key = k]
    /\ UNCHANGED <<keys, pc, read, cfg, unsaved>>

\* LoadConfig without a file: a new key and the defaults, which are saved
\* (and not validated).
firstLaunch ==
    /\ pc = "down" /\ file = NoFile
    /\ keys < MaxKeys
    /\ keys' = keys + 1
    /\ cfg' = [DefaultConfig EXCEPT !.key = keys']
    /\ read' = NoFile /\ unsaved' = FALSE
    /\ pc' = "save"
    /\ UNCHANGED <<file, edits>>

\* LoadConfig refuses the file: it does not parse, or Validate fails.
refuseConfig ==
    /\ pc = "down"
    /\ file = Partial \/ (IsConfig(file) /\ ~Validate(Completed(file)))
    /\ read' = file
    /\ UNCHANGED <<file, keys, edits, pc, cfg, unsaved>>

\* Mutant: a regenerated key is not marked for saving.
MutantLoadConfig ==
    /\ pc = "down" /\ IsConfig(file) /\ Validate(Completed(file))
    /\ IF file.key # NoKey
         THEN cfg' = Completed(file) /\ UNCHANGED keys
         ELSE /\ keys < MaxKeys /\ keys' = keys + 1
              /\ cfg' = [Completed(file) EXCEPT !.key = keys']
    /\ read' = file /\ unsaved' = FALSE
    /\ pc' = IF Migrates(file) THEN "save" ELSE "loaded"
    /\ UNCHANGED <<file, edits>>

\* LoadConfig reads a file it accepts; one that was migrated or whose key had
\* to be generated is saved.
LoadConfig ==
    /\ pc = "down" /\ IsConfig(file) /\ Validate(Completed(file))
    /\ IF file.key # NoKey
         THEN cfg' = Completed(file) /\ UNCHANGED keys
         ELSE /\ keys < MaxKeys /\ keys' = keys + 1
              /\ cfg' = [Completed(file) EXCEPT !.key = keys']
    /\ read' = file /\ unsaved' = FALSE
    /\ pc' = IF Migrates(file) \/ file.key = NoKey THEN "save" ELSE "loaded"
    /\ UNCHANGED <<file, edits>>

\* os.WriteFile opens the file, which empties it ...
truncate ==
    /\ pc = "save"
    /\ file' = Partial /\ pc' = "write"
    /\ UNCHANGED <<keys, edits, read, cfg, unsaved>>

\* ... and writes the configuration as it is in memory.
SaveConfig ==
    /\ pc = "write"
    /\ file' = cfg /\ pc' = "loaded"
    /\ UNCHANGED <<keys, edits, read, cfg, unsaved>>

\* The directory, the open or the write fails: fatal on the first launch, a
\* warning otherwise.
saveFails ==
    /\ pc \in {"save", "write"}
    /\ pc' = IF read = NoFile THEN "down" ELSE "loaded"
    /\ unsaved' = (read # NoFile)
    /\ UNCHANGED <<file, keys, edits, read, cfg>>

-----------------------------------------------------------------------------
ConfigInit ==
    /\ file = NoFile /\ keys = 0 /\ edits = 0
    /\ pc = "down" /\ read = NoFile /\ cfg = DefaultConfig /\ unsaved = FALSE

ConfigNext ==
    \/ editConfig \/ firstLaunch \/ refuseConfig \/ LoadConfig
    \/ truncate \/ SaveConfig \/ saveFails

Loading == pc \in {"down", "save", "write"}
-----------------------------------------------------------------------------
(* Properties *)

\* A process that got past LoadConfig can be started again with the same
\* result, its key included: nothing of what it runs with exists in memory
\* only, except after the failed save LoadConfig warns about.  The defaults of
\* the first launch, which are saved unseen, must therefore validate.
StartsAgain ==
    ~Loading /\ ~unsaved =>
      IsConfig(file) /\ Validate(Completed(file)) /\ Completed(file) = cfg /\ cfg.key # NoKey

\* What the operator set is what the bridge runs with: a v2 file keeps every
\* value it sets, a v1 file the ones migrateV1 does not replace.
SettingsKept ==
    ~Loading /\ read # NoFile =>
      /\ \A f \in {"key", "apiKey", "tunnelSections"} :
           ~Unset(f, read[f]) => cfg[f] = read[f]
      /\ ~Migrates(read) =>
           \A f \in DOMAIN read : ~Unset(f, read[f]) => cfg[f] = read[f]

\* The pings come before the peer's deadline, and a ticker with that period
\* can be made, for every deadline of more than a nanosecond that is not
\* decades long (nine times it fits into a Duration).
PingsInTime ==
    ~Loading /\ cfg.pongDeadline \in 2..((HalfWord - 1) \div 9) =>
      PingPeriod(cfg) \in 1..(cfg.pongDeadline - 1)

\* docs/configuration.md: missing values receive their defaults.
MissingGetDefaults ==
    ~Loading /\ read # NoFile =>
      \A f \in DOMAIN DefaultConfig \ {"version", "key", "subscribe"} :
        Unset(f, read[f]) => cfg[f] = DefaultConfig[f]
=============================================================================
