---------------------------- MODULE SetupProofs ----------------------------
(***************************************************************************)
(* Proofs about setup: that it never loses what the user last wrote to     *)
(* config.toml, which uses nothing of how the lines are edited, that it    *)
(* never shuts an agent out, which uses where the lines of an edit come    *)
(* from, that the config, config.toml and the daemon agree when it is done *)
(* and that a second run is a no-op, which use what the scanner sees of    *)
(* the lines and what TOML does, and so does what a plan keeps of a file.  *)
(***************************************************************************)
EXTENDS Setup, CodexEditProofs
-----------------------------------------------------------------------------
\* What a process has loaded or is about to write has the fields and the ports
\* of a config.
IsConfig(c) == DOMAIN c = {"token", "port"} /\ c.port \in Ports \cup {Absent}

RunFits ==
  /\ {"at", "targets", "port", "token", "hand", "adds", "edits", "text"} \subseteq DOMAIN run
  /\ run.port \in Ports \cup {Absent} /\ IsConfig(run.hand)
DaemonFits == DOMAIN daemon = {"at", "token", "saving", "hand"} /\ IsConfig(daemon.hand)
ClaudeFits == DOMAIN claude = {"ok", "env"} /\ DOMAIN claude.env = ClaudeKeys

Shapes ==
  IsConfig(config) /\ RunFits /\ DaemonFits /\ ClaudeFits /\ DOMAIN agents = Agents

\* The tokens that anybody can have, if none was lost: none at all, or the one in
\* the config.
Known == {Absent, config.token}

RunKnows ==
  /\ run.at = "token" => config.token = Absent
  /\ run.token \in Known /\ run.text \in Seq(Lines(Known))
DaemonKnows == daemon.token \in Known /\ daemon.hand.token \in Known
FilesKnow == claude.env["headers"] \in Known /\ codex \in Seq(Lines(Known))
AgentsKnow == \A a \in Agents : agents[a] \in Known

\* Everybody has the token of the config, or none.
OneToken == RunKnows /\ DaemonKnows /\ FilesKnow /\ AgentsKnow

TokenInv == Shapes /\ (clash \/ OneToken)

\* The lines that a user writes by hand have no token.
LEMMA UsersHaveNoToken == \A T : UserLines \subseteq Lines(T)
<1> SUFFICES ASSUME NEW T PROVE UserLines \subseteq Lines(T)
  OBVIOUS
<1>1. Setups \in Vals(T) /\ Users \in Vals(T) /\ Spread \in Vals(T)
  BY DEF Vals
<1>2. /\ <<>> \in Paths /\ Otel \in Paths /\ Stale \in Paths /\ Deep \in Paths /\ Tui \in Paths
      /\ "" \in Keys /\ "exporter" \in Keys /\ "environment" \in Keys /\ "note" \in Keys
  <2>1. CodexScalars[1] = "environment"
    BY DEF CodexScalars
  <2> QED
    BY <2>1 DEF Paths, Keys
<1>3. ASSUME NEW kind \in Kinds, NEW path \in Paths, NEW key \in Keys, NEW val \in Vals(T),
             NEW form \in Forms,
             kind = "open" => form # "" /\ (key = "note" \/ (key = "exporter" /\ val = Spread))
      PROVE  Line(kind, path, key, val, form) \in Lines(T)
  BY <1>3 DEF Line, Lines
<1>4. /\ "header" \in Kinds /\ "odd" \in Kinds /\ "tight" \in Kinds /\ "key" \in Kinds
      /\ "open" \in Kinds /\ "close" \in Kinds /\ "elem" \in Kinds /\ "prose" \in Kinds
      /\ "" \in Forms /\ "array" \in Forms /\ "string" \in Forms
  BY DEF Kinds, Forms
<1>5. ASSUME NEW path \in {Otel, Stale, Deep, Tui} PROVE Header(path) \in Lines(T)
  <2>1. path \in Paths
    BY <1>2
  <2> QED
    BY <1>1, <1>2, <1>3, <1>4, <2>1 DEF Header
<1>6. /\ Line("odd", Tui, "", Setups, "") \in Lines(T)
      /\ Line("tight", <<>>, "environment", Users, "") \in Lines(T)
  BY <1>1, <1>2, <1>3, <1>4
<1>7. Key("exporter", Users) \in Lines(T) /\ Key("environment", Users) \in Lines(T)
  BY <1>1, <1>2, <1>3, <1>4 DEF Key
<1>8. ASSUME NEW form \in {"array", "string"}
      PROVE  /\ Line("open", <<>>, "note", Users, form) \in Lines(T)
             /\ Line("close", <<>>, "", Setups, form) \in Lines(T)
  <2>1. form \in Forms /\ form # ""
    BY <1>4
  <2> QED
    BY <1>1, <1>2, <1>3, <1>4, <2>1
<1>9. ASSUME NEW kind \in {"elem", "prose"}
      PROVE  Line(kind, <<>>, "", Setups, "") \in Lines(T)
  <2>1. kind \in Kinds /\ kind # "open"
    BY <1>4
  <2> QED
    BY <1>1, <1>2, <1>3, <1>4, <2>1
<1>10. Line("open", <<>>, "exporter", Spread, "array") \in Lines(T)
  BY <1>1, <1>2, <1>3, <1>4
<1> QED
  BY <1>5, <1>6, <1>7, <1>8, <1>9, <1>10 DEF UserLines

\* Nor is there a key among them that only setup writes.
LEMMA UsersHaveNoMetrics == \A line \in UserLines : line.key # "metrics_exporter"
<1>1. \A path : Header(path).key = ""
  BY DEF Header, Line
<1> SUFFICES ASSUME NEW line \in UserLines PROVE line.key # "metrics_exporter"
  OBVIOUS
<1>2. CASE line \in {Header(path) : path \in {Otel, Stale, Deep, Tui}}
  <2>1. PICK path : line = Header(path)
    BY <1>2
  <2> QED
    BY <2>1, <1>1
<1>3. CASE \/ line \in {Line("odd", Tui, "", Setups, ""), Line("tight", <<>>, "environment", Users, "")}
           \/ line \in {Key("exporter", Users), Key("environment", Users)}
           \/ line \in {Line("open", <<>>, "exporter", Spread, "array")}
  <2>1. CASE line = Line("odd", Tui, "", Setups, "")
    BY <2>1 DEF Line
  <2>2. CASE line = Line("tight", <<>>, "environment", Users, "")
    BY <2>2 DEF Line
  <2>3. ASSUME NEW key \in {"exporter", "environment"}, line = Key(key, Users)
        PROVE  line.key # "metrics_exporter"
    <3>1. line.key = key
      BY <2>3 DEF Key, Line
    <3> QED
      BY <3>1
  <2>4. CASE line = Line("open", <<>>, "exporter", Spread, "array")
    BY <2>4 DEF Line
  <2> QED
    BY <1>3, <2>1, <2>2, <2>3, <2>4
<1>4. CASE line \in {Line("open", <<>>, "note", Users, form) : form \in {"array", "string"}}
  <2>1. PICK form : line = Line("open", <<>>, "note", Users, form)
    BY <1>4
  <2> QED
    BY <2>1 DEF Line
<1>5. CASE \/ line \in {Line("close", <<>>, "", Setups, form) : form \in {"array", "string"}}
           \/ line \in {Line(kind, <<>>, "", Setups, "") : kind \in {"elem", "prose"}}
  <2>1. PICK kind, form : line = Line(kind, <<>>, "", Setups, form)
    BY <1>5
  <2> QED
    BY <2>1 DEF Line
<1> QED
  BY <1>2, <1>3, <1>4, <1>5 DEF UserLines

\* What has tokens of a set has tokens of a larger one.
LEMMA LinesGrow ==
  ASSUME NEW T, NEW U, T \subseteq U
  PROVE  Seq(Lines(T)) \subseteq Seq(Lines(U))
<1>1. Vals(T) \subseteq Vals(U)
  BY DEF Vals
<1>2. Lines(T) \subseteq Lines(U)
  BY <1>1 DEF Lines
<1> QED
  BY <1>2

\* At first there is no token.
LEMMA TokenInit == Init => TokenInv
<1> SUFFICES ASSUME Init PROVE TokenInv
  OBVIOUS
<1>1. config = NoConfig /\ run = Off /\ agents = [a \in Agents |-> Absent]
  BY DEF Init
<1>2. claude \in {NoEnv, Broken, Elsewhere}
  BY DEF Init
<1>3. DaemonFits /\ daemon.token = Absent /\ daemon.hand.token = Absent
  BY DEF Init, DaemonFits, IsConfig, NoConfig
<1>4. ClaudeFits /\ claude.env["headers"] = Absent
  BY <1>2 DEF ClaudeFits, NoEnv, Broken, Elsewhere, ClaudeKeys
<1>5. IsConfig(NoConfig) /\ NoConfig.token = Absent
  BY DEF IsConfig, NoConfig
<1>6. Shapes
  BY <1>1, <1>3, <1>4, <1>5 DEF Shapes, RunFits, Off
<1>7. codex \in Seq(Lines(Known))
  <2>1. codex \in BoundedSeq(UserLines, MaxLines)
    BY DEF Init
  <2>2. codex \in Seq(UserLines)
    BY <2>1, SetupAssumption DEF BoundedSeq, SeqOf
  <2> QED
    BY <2>2, UsersHaveNoToken
<1>8. RunKnows
  BY <1>1, <1>5 DEF RunKnows, Known, Off
<1> QED
  BY <1>1, <1>3, <1>4, <1>6, <1>7, <1>8 DEF TokenInv, OneToken, DaemonKnows, FilesKnow,
     AgentsKnow, Known
-----------------------------------------------------------------------------
\* A step that leaves the config alone is judged by what it tells to whom.
LEMMA SameConfig ==
  ASSUME TokenInv, config' = config, clash' = clash,
         RunFits', DaemonFits', ClaudeFits', DOMAIN agents' = Agents,
         OneToken => RunKnows' /\ DaemonKnows' /\ FilesKnow' /\ AgentsKnow'
  PROVE  TokenInv'
  BY DEF TokenInv, Shapes, OneToken, IsConfig

\* What the daemon has loaded may be saved, unless that loses a token.
LEMMA SavedByDaemon ==
  ASSUME TokenInv, IsConfig(config'), config'.token = daemon.hand.token,
         clash' = (clash \/ Overwrites),
         DaemonFits', OneToken => daemon'.token \in Known /\ daemon'.hand.token \in Known,
         UNCHANGED <<claude, codex, run, agents>>
  PROVE  TokenInv'
<1>1. Shapes'
  BY DEF TokenInv, Shapes, RunFits, ClaudeFits, IsConfig
<1>2. ASSUME ~ clash' PROVE OneToken'
  <2>1. OneToken /\ ~ Overwrites
    BY <1>2 DEF TokenInv
  <2>2. config'.token = config.token
    BY <2>1 DEF Overwrites, OneToken, DaemonKnows, Known
  <2>3. Known' = Known
    BY <2>2 DEF Known
  <2> QED
    BY <2>1, <2>2, <2>3 DEF OneToken, RunKnows, DaemonKnows, FilesKnow, AgentsKnow
<1> QED
  BY <1>1, <1>2 DEF TokenInv

\* Setup mints a token when the config it loaded has none, and then nobody has
\* one.
LEMMA SaveTokenKeeps == TokenInv /\ SaveToken => TokenInv'
<1> SUFFICES ASSUME TokenInv, SaveToken PROVE TokenInv'
  OBVIOUS
<1>1. PICK t : /\ config' = [run.hand EXCEPT !.token = t]
               /\ run' = [run EXCEPT !.at = "plan", !.token = t, !.hand = NoConfig]
  BY DEF SaveToken
<1>2. UNCHANGED <<claude, codex, daemon, agents, clash>> /\ run.at = "token"
  BY DEF SaveToken
<1>3. IsConfig(config') /\ config'.token = t
  BY <1>1 DEF TokenInv, Shapes, RunFits, IsConfig
<1>4. /\ run'.at = "plan" /\ run'.token = t /\ run'.text = run.text
      /\ run'.hand = NoConfig /\ run'.port = run.port /\ DOMAIN run' = DOMAIN run
  BY <1>1 DEF TokenInv, Shapes, RunFits
<1>5. Shapes'
  <2>1. IsConfig(NoConfig)
    BY DEF IsConfig, NoConfig
  <2> QED
    BY <1>2, <1>3, <1>4, <2>1 DEF TokenInv, Shapes, RunFits, DaemonFits, ClaudeFits, IsConfig
<1>6. ASSUME OneToken PROVE OneToken'
  <2>1. Known = {Absent} /\ Known' = {Absent, t}
    BY <1>2, <1>3, <1>6 DEF OneToken, RunKnows, Known
  <2>2. Seq(Lines(Known)) \subseteq Seq(Lines(Known'))
    BY <2>1, LinesGrow
  <2>3. RunKnows'
    BY <1>4, <1>6, <2>1, <2>2 DEF OneToken, RunKnows
  <2>4. DaemonKnows' /\ AgentsKnow'
    BY <1>2, <1>6, <2>1 DEF OneToken, DaemonKnows, AgentsKnow
  <2>5. FilesKnow'
    BY <1>2, <1>6, <2>1, <2>2 DEF OneToken, FilesKnow
  <2> QED
    BY <2>3, <2>4, <2>5 DEF OneToken
<1> QED
  BY <1>2, <1>5, <1>6 DEF TokenInv

\* The steps of setup that tell nobody anything.
LEMMA GoesOn ==
  ASSUME TokenInv, config' = config, NEW at, at # "token", Go(at) \/ End
  PROVE  RunFits' /\ (OneToken => RunKnows')
<1>1. CASE Go(at)
  <2>1. /\ run'.at = at /\ DOMAIN run' = DOMAIN run /\ run'.hand = run.hand
        /\ run'.port = run.port /\ run'.token = run.token /\ run'.text = run.text
    BY <1>1 DEF Go, TokenInv, Shapes, RunFits
  <2> QED
    BY <2>1 DEF TokenInv, Shapes, RunFits, IsConfig, OneToken, RunKnows, Known
<1>2. CASE End
  BY <1>2 DEF End, Off, NoConfig, RunFits, IsConfig, RunKnows, Known
<1> QED
  BY <1>1, <1>2

\* A daemon that is left alone knows what it knew.
LEMMA DaemonAlone ==
  ASSUME TokenInv, UNCHANGED <<config, daemon>>
  PROVE  DaemonFits' /\ (OneToken => DaemonKnows')
  BY DEF TokenInv, Shapes, DaemonFits, IsConfig, OneToken, DaemonKnows, Known

\* The files may change by config.toml's new lines.
LEMMA FilesAlone ==
  ASSUME TokenInv, UNCHANGED <<config, claude>>
  PROVE  ClaudeFits' /\ (OneToken /\ codex' \in Seq(Lines(Known)) => FilesKnow')
  BY DEF TokenInv, Shapes, ClaudeFits, OneToken, FilesKnow, Known

\* Agents know what they knew,
LEMMA AgentsAlone ==
  ASSUME TokenInv, UNCHANGED <<config, agents>>
  PROVE  DOMAIN agents' = Agents /\ (OneToken => AgentsKnow')
  BY DEF TokenInv, Shapes, OneToken, AgentsKnow, Known

\* and so does setup.
LEMMA RunAlone ==
  ASSUME TokenInv, UNCHANGED <<config, run>>
  PROVE  RunFits' /\ (OneToken => RunKnows')
  BY DEF TokenInv, Shapes, RunFits, IsConfig, OneToken, RunKnows, Known

\* The plan's text is made of the lines of the file and the token setup has.
LEMMA PlanKeeps == TokenInv /\ Plan => TokenInv'
<1> SUFFICES ASSUME TokenInv, Plan PROVE TokenInv'
  OBVIOUS
<1>1. UNCHANGED <<config, claude, codex, daemon, agents, clash>>
  BY DEF Plan, files, ghosts
<1>2. ResolvePort \in Ports
  BY SetupAssumption DEF ResolvePort, TokenInv, Shapes, RunFits, IsConfig
<1>3. End \/ \E adds, edits, text :
        /\ Offers(adds, edits, text)
        /\ text \in {<<>>, EditCodex(codex, ResolvePort, run.token)}
  BY DEF Plan
<1>4. RunFits' /\ (OneToken => RunKnows')
  <2>1. CASE End
    BY <1>1, <2>1, GoesOn
  <2>2. ASSUME NEW adds, NEW edits, NEW text, Offers(adds, edits, text),
               text \in {<<>>, EditCodex(codex, ResolvePort, run.token)}
        PROVE  RunFits' /\ (OneToken => RunKnows')
    <3>1. /\ run'.at = "confirm" /\ DOMAIN run' = DOMAIN run /\ run'.hand = run.hand
          /\ run'.port = ResolvePort /\ run'.token = run.token /\ run'.text = text
      BY <2>2 DEF Offers, TokenInv, Shapes, RunFits
    <3>2. OneToken => text \in Seq(Lines(Known))
      <4>1. OneToken => EditCodex(codex, ResolvePort, run.token) \in Seq(Lines(Known))
        BY <1>2, EditKeepsLines DEF OneToken, RunKnows, FilesKnow
      <4>2. <<>> \in Seq(Lines(Known))
        OBVIOUS
      <4> QED
        BY <2>2, <4>1, <4>2
    <3>3. RunFits'
      BY <1>2, <3>1 DEF TokenInv, Shapes, RunFits, IsConfig
    <3> QED
      BY <1>1, <3>1, <3>2, <3>3 DEF OneToken, RunKnows, Known
  <2> QED
    BY <1>3, <2>1, <2>2
<1>5. OneToken => FilesKnow'
  BY <1>1, FilesAlone DEF OneToken, FilesKnow
<1> QED
  BY <1>1, <1>4, <1>5, DaemonAlone, FilesAlone, AgentsAlone, SameConfig

\* Every step keeps to one token, or records that one was lost.
LEMMA TokenStep == TokenInv /\ [Next]_vars => TokenInv'
<1> SUFFICES ASSUME TokenInv, [Next]_vars PROVE TokenInv'
  OBVIOUS
<1>1. ASSUME UNCHANGED <<config, claude, codex, daemon, agents, clash>>,
             RunFits', OneToken => RunKnows'
      PROVE  TokenInv'
  <2>1. OneToken => FilesKnow'
    BY <1>1, FilesAlone DEF OneToken, FilesKnow
  <2> QED
    BY <1>1, <2>1, DaemonAlone, FilesAlone, AgentsAlone, SameConfig
<1>2. ASSUME UNCHANGED <<config, claude, daemon, agents, clash>>, RunFits', OneToken => RunKnows',
             OneToken => codex' \in Seq(Lines(Known))
      PROVE  TokenInv'
  BY <1>2, DaemonAlone, FilesAlone, AgentsAlone, SameConfig
<1>3. ASSUME UNCHANGED <<config, claude, codex, run, agents, clash>>,
             DaemonFits', OneToken => DaemonKnows'
      PROVE  TokenInv'
  <2>1. OneToken => FilesKnow'
    BY <1>3, FilesAlone DEF OneToken, FilesKnow
  <2> QED
    BY <1>3, <2>1, RunAlone, FilesAlone, AgentsAlone, SameConfig
<1>4. ASSUME NEW targets \in (SUBSET Agents) \ {{}}, NEW flag \in Flags, Begin(targets, flag)
      PROVE  TokenInv'
  <2>1. UNCHANGED <<config, claude, codex, daemon, agents, clash>>
    BY <1>4 DEF Begin, files, ghosts
  <2>2. /\ run'.at = IF config.token = Absent THEN "token" ELSE "plan"
        /\ DOMAIN run' = DOMAIN Off /\ run'.port = flag /\ run'.token = config.token
        /\ run'.hand \in {config, NoConfig} /\ run'.text = <<>>
    BY <1>4 DEF Begin, Off
  <2>3. RunFits'
    BY <2>2, SetupAssumption DEF RunFits, Off, NoConfig, IsConfig, TokenInv, Shapes
  <2>4. OneToken => RunKnows'
    BY <2>1, <2>2 DEF OneToken, RunKnows, Known
  <2> QED
    BY <1>1, <2>1, <2>3, <2>4
<1>5. CASE SaveToken
  BY <1>5, SaveTokenKeeps
<1>6. CASE Plan
  BY <1>6, PlanKeeps
<1>7. CASE Confirm
  <2>1. UNCHANGED <<config, claude, codex, daemon, agents, clash>> /\ (Go("claude") \/ End)
    BY <1>7 DEF Confirm, files, ghosts
  <2> QED
    BY <1>1, <2>1, GoesOn
<1>8. CASE ApplyClaude
  <2>1. UNCHANGED <<config, codex, daemon, agents, clash>> /\ Go("codex")
    BY <1>8 DEF ApplyClaude, ghosts
  <2>2. RunFits' /\ (OneToken => RunKnows')
    BY <2>1, GoesOn
  <2>3. claude.env["headers"] \in Known /\ run.token \in Known =>
          ClaudeFits' /\ claude'.env["headers"] \in Known
    BY <1>8 DEF ApplyClaude, ClaudeKeys, ClaudeFits, TokenInv, Shapes
  <2>4. ClaudeFits'
    BY <1>8 DEF ApplyClaude, ClaudeFits, TokenInv, Shapes
  <2>5. OneToken => FilesKnow'
    BY <2>1, <2>3 DEF OneToken, RunKnows, FilesKnow, Known
  <2> QED
    BY <2>1, <2>2, <2>4, <2>5, DaemonAlone, AgentsAlone, SameConfig
<1>9. CASE BackupCodex
  <2>1. UNCHANGED <<config, claude, codex, daemon, agents, clash>>
    BY <1>9 DEF BackupCodex, ghosts
  <2>2. Go("truncate") \/ Go("restart")
    BY <1>9 DEF BackupCodex
  <2> QED
    BY <1>1, <2>1, <2>2, GoesOn
<1>10. CASE TruncateCodex
  <2>1. UNCHANGED <<config, claude, daemon, agents, clash>> /\ Go("write") /\ codex' = <<>>
    BY <1>10 DEF TruncateCodex
  <2> QED
    BY <1>2, <2>1, GoesOn
<1>11. CASE WriteCodex
  <2>1. UNCHANGED <<config, claude, daemon, agents, clash>> /\ Go("restart") /\ codex' = run.text
    BY <1>11 DEF WriteCodex, ghosts
  <2> QED
    BY <1>2, <2>1, GoesOn DEF OneToken, RunKnows
<1>12. CASE Fails
  <2>1. UNCHANGED <<config, codex, daemon, agents, clash>> /\ End /\ claude' \in {claude, Broken}
    BY <1>12 DEF Fails
  <2>2. ClaudeFits' /\ (OneToken => FilesKnow')
    <3>1. /\ DOMAIN Broken = {"ok", "env"} /\ DOMAIN Broken.env = ClaudeKeys
          /\ Broken.env["headers"] = Absent
      BY DEF Broken, NoEnv, ClaudeKeys
    <3> QED
      BY <2>1, <3>1 DEF ClaudeFits, OneToken, FilesKnow, Known, TokenInv, Shapes
  <2> QED
    BY <2>1, <2>2, GoesOn, DaemonAlone, AgentsAlone, SameConfig
<1>13. ASSUME NEW d \in {daemon, Restarted}
       PROVE  /\ DOMAIN d = {"at", "token", "saving", "hand"} /\ IsConfig(d.hand)
              /\ OneToken => d.token \in Known /\ d.hand.token \in Known
  <2>1. CASE d = daemon
    BY <2>1 DEF TokenInv, Shapes, DaemonFits, OneToken, DaemonKnows
  <2>2. CASE d = Restarted
    <3>1. DOMAIN d = DOMAIN daemon /\ d.hand = NoConfig /\ d.token = Absent
      BY <2>2 DEF Restarted, TokenInv, Shapes, DaemonFits
    <3> QED
      BY <3>1 DEF TokenInv, Shapes, DaemonFits, Known, IsConfig, NoConfig
  <2> QED
    BY <2>1, <2>2
<1>14. CASE Restart
  <2>1. UNCHANGED <<config, claude, codex, agents, clash>> /\ End /\ daemon' \in {daemon, Restarted}
    BY <1>14 DEF Restart, files
  <2>2. DaemonFits' /\ (OneToken => DaemonKnows')
    BY <1>13, <2>1 DEF DaemonFits, DaemonKnows, Known, IsConfig
  <2>3. RunFits' /\ (OneToken => RunKnows')
    BY <2>1, GoesOn
  <2>4. ClaudeFits' /\ (OneToken => FilesKnow')
    BY <2>1, FilesAlone DEF OneToken, FilesKnow
  <2> QED
    BY <2>1, <2>2, <2>3, <2>4, AgentsAlone, SameConfig
<1>15. CASE ServeLoad \/ TouchLoad
  <2>1. UNCHANGED <<config, claude, codex, run, agents, clash>>
    BY <1>15 DEF ServeLoad, TouchLoad, files, ghosts
  <2>2. DOMAIN daemon' = DOMAIN daemon /\ daemon'.token = daemon.token /\ daemon'.hand = config
    BY <1>15 DEF ServeLoad, TouchLoad, TokenInv, Shapes, DaemonFits
  <2>3. DaemonFits' /\ (OneToken => DaemonKnows')
    BY <2>1, <2>2 DEF TokenInv, Shapes, DaemonFits, OneToken, DaemonKnows, Known, IsConfig
  <2> QED
    BY <1>3, <2>1, <2>3
<1>16. CASE DaemonStops
  <2>1. UNCHANGED <<config, claude, codex, run, agents, clash>> /\ daemon' = Restarted
    BY <1>16 DEF DaemonStops, files, ghosts
  <2>2. DaemonFits' /\ (OneToken => DaemonKnows')
    BY <1>13, <2>1 DEF DaemonFits, DaemonKnows, Known, IsConfig
  <2> QED
    BY <1>3, <2>1, <2>2
<1>17. CASE TouchSave
  <2>1. /\ UNCHANGED <<claude, codex, run, agents>> /\ clash' = (clash \/ Overwrites)
        /\ daemon' = [daemon EXCEPT !.saving = FALSE, !.hand = NoConfig]
        /\ config' = daemon.hand
    BY <1>17 DEF TouchSave
  <2>2. IsConfig(config') /\ config'.token = daemon.hand.token
    BY <2>1 DEF TokenInv, Shapes, DaemonFits
  <2>3. DaemonFits' /\ (OneToken => daemon'.token \in Known /\ daemon'.hand.token \in Known)
    BY <2>1 DEF TokenInv, Shapes, DaemonFits, OneToken, DaemonKnows, Known, IsConfig, NoConfig
  <2> QED
    BY <2>1, <2>2, <2>3, SavedByDaemon
<1>18. ASSUME NEW p \in Ports, ServeListen(p) PROVE TokenInv'
  <2>1. UNCHANGED <<claude, codex, run, agents>>
    BY <1>18 DEF ServeListen
  <2>2. DaemonFits' /\ (OneToken => daemon'.token \in Known /\ daemon'.hand.token \in Known)
    BY <1>18 DEF ServeListen, TokenInv, Shapes, DaemonFits, OneToken, DaemonKnows, Known,
       IsConfig, NoConfig
  <2>3. CASE UNCHANGED <<config, clash>>
    BY <1>3, <2>1, <2>2, <2>3 DEF DaemonKnows, Known
  <2>4. CASE config' = [daemon.hand EXCEPT !.port = p] /\ clash' = (clash \/ Overwrites)
    <3>1. IsConfig(config') /\ config'.token = daemon.hand.token
      BY <2>4 DEF TokenInv, Shapes, DaemonFits, IsConfig
    <3> QED
      BY <2>1, <2>2, <2>4, <3>1, SavedByDaemon
  <2> QED
    BY <1>18, <2>3, <2>4 DEF ServeListen
<1>19. CASE UserEdits
  <2>1. /\ UNCHANGED <<config, claude, run, daemon, agents, clash>>
        /\ codex' = codex \o <<Header(Tui), Key("environment", Users)>>
    BY <1>19 DEF UserEdits
  <2>2. OneToken => codex' \in Seq(Lines(Known))
    <3>1. Header(Tui) \in Lines(Known) /\ Key("environment", Users) \in Lines(Known)
      BY UsersHaveNoToken DEF UserLines
    <3> QED
      BY <2>1, <3>1 DEF OneToken, FilesKnow
  <2> QED
    BY <1>2, <2>1, <2>2, RunAlone
<1>20. ASSUME NEW a \in Agents, AgentStarts(a) PROVE TokenInv'
  <2>1. UNCHANGED <<config, claude, codex, run, daemon, clash>>
        /\ agents' = [agents EXCEPT ![a] = Settings(a)]
    BY <1>20 DEF AgentStarts, files, ghosts
  <2>2. OneToken => Settings(a) \in Known
    <3>1. OneToken => Value(codex, Otel, "exporter")[2] \in Known \cup {Absent}
      BY ExporterToken DEF OneToken, FilesKnow
    <3> QED
      BY <3>1 DEF Settings, OneToken, FilesKnow, Known
  <2>3. DOMAIN agents' = Agents /\ (OneToken => AgentsKnow')
    BY <2>1, <2>2 DEF TokenInv, Shapes, OneToken, AgentsKnow, Known
  <2>4. OneToken => FilesKnow'
    BY <2>1, FilesAlone DEF OneToken, FilesKnow
  <2> QED
    BY <2>1, <2>3, <2>4, RunAlone, DaemonAlone, FilesAlone, SameConfig
<1>21. CASE UNCHANGED vars
  BY <1>1, <1>21, RunAlone DEF vars, files, ghosts
<1> QED
  BY <1>4, <1>5, <1>6, <1>7, <1>8, <1>9, <1>10, <1>11, <1>12, <1>14, <1>15, <1>16, <1>17,
     <1>18, <1>19, <1>20, <1>21 DEF Next

\* Unless a token is lost from the config, no agent is refused for its token, for
\* every config.toml, any number of runs of setup, of restarts and of other saves
\* of the config.
THEOREM AgentsAreNeverShutOut == Spec => []NoneShutOut
<1>1. TokenInv => NoneShutOut
  <2> SUFFICES ASSUME OneToken PROVE \A a \in Agents : ~ ShutOut(a)
    BY DEF TokenInv, NoneShutOut
  <2> QED
    BY DEF ShutOut, RejectToken, OneToken, AgentsKnow, DaemonKnows, Known
<1> QED
  BY TokenInit, TokenStep, <1>1, PTL DEF Spec
-----------------------------------------------------------------------------
\* A backup has the user's text.
InBackup == users \in saved \/ users = <<>>

\* From the backup until the plan's text is written, the file is not what the
\* user has: a backup is.
BackedUp == run.at \in {"truncate", "write"} => InBackup

KeptInv ==
  /\ "at" \in DOMAIN run
  /\ UserTextIsKept
  /\ BackedUp

\* At first config.toml is as its user left it.
LEMMA KeptInit == Init => KeptInv
  BY DEF Init, KeptInv, UserTextIsKept, BackedUp, Off

\* The steps that leave config.toml, its backups and its user's text alone.
LEMMA OthersKeep ==
  ASSUME KeptInv, UNCHANGED <<codex, saved, users>>,
         "at" \in DOMAIN run',
         run'.at \in {"truncate", "write"} => run.at = run'.at
  PROVE  KeptInv'
  BY DEF KeptInv, UserTextIsKept, BackedUp, InBackup

\* No step of setup, and no end of it, loses the text.
LEMMA KeptStep == KeptInv /\ [Next]_vars => KeptInv'
<1> SUFFICES ASSUME KeptInv, [Next]_vars PROVE KeptInv'
  OBVIOUS
<1> USE DEF KeptInv
<1>1. ASSUME NEW targets \in (SUBSET Agents) \ {{}}, NEW flag \in Flags, Begin(targets, flag)
      PROVE  KeptInv'
  <2>1. run'.at \in {"token", "plan"} /\ "at" \in DOMAIN run'
    BY <1>1 DEF Begin, Off
  <2> QED
    BY <1>1, <2>1, OthersKeep DEF Begin, files, ghosts
<1>2. ASSUME SaveToken PROVE KeptInv'
  <2>1. run'.at = "plan" /\ "at" \in DOMAIN run'
    BY <1>2 DEF SaveToken
  <2> QED
    BY <1>2, <2>1, OthersKeep DEF SaveToken
<1>3. ASSUME Plan PROVE KeptInv'
  <2>1. run'.at \in {"idle", "confirm"} /\ "at" \in DOMAIN run'
    <3>1. CASE End
      BY <3>1 DEF End, Off
    <3>2. CASE \E adds, edits, text : Offers(adds, edits, text)
      BY <3>2 DEF Offers
    <3>3. End \/ \E adds, edits, text : Offers(adds, edits, text)
      BY <1>3 DEF Plan
    <3> QED
      BY <3>1, <3>2, <3>3
  <2> QED
    BY <1>3, <2>1, OthersKeep DEF Plan, files, ghosts
<1>4. ASSUME Confirm PROVE KeptInv'
  <2>1. run'.at \in {"idle", "claude"} /\ "at" \in DOMAIN run'
    BY <1>4 DEF Confirm, End, Go, Off
  <2> QED
    BY <1>4, <2>1, OthersKeep DEF Confirm, files, ghosts
<1>5. ASSUME ApplyClaude PROVE KeptInv'
  <2>1. run'.at = "codex" /\ "at" \in DOMAIN run'
    BY <1>5 DEF ApplyClaude, Go
  <2> QED
    BY <1>5, <2>1, OthersKeep DEF ApplyClaude, ghosts
<1>6. ASSUME BackupCodex PROVE KeptInv'
  <2>1. run'.at \in {"truncate", "restart"} /\ "at" \in DOMAIN run'
    BY <1>6 DEF BackupCodex, Go
  <2>2. UNCHANGED <<codex, users>> /\ saved \subseteq saved'
    BY <1>6 DEF BackupCodex, ghosts
  <2>3. UserTextIsKept'
    BY <2>2 DEF UserTextIsKept
  <2>4. run'.at = "truncate" => codex = <<>> \/ codex \in saved'
    BY <1>6 DEF BackupCodex, Go
  <2> QED
    BY <2>1, <2>2, <2>3, <2>4 DEF UserTextIsKept, BackedUp, InBackup
<1>7. ASSUME TruncateCodex PROVE KeptInv'
  <2>1. run'.at = "write" /\ "at" \in DOMAIN run' /\ UNCHANGED <<saved, users>>
    BY <1>7 DEF TruncateCodex, Go
  <2>2. InBackup
    BY <1>7 DEF TruncateCodex, BackedUp
  <2> QED
    BY <2>1, <2>2 DEF UserTextIsKept, BackedUp, InBackup
<1>8. ASSUME WriteCodex PROVE KeptInv'
  <2>1. run'.at = "restart" /\ "at" \in DOMAIN run' /\ UNCHANGED <<saved, users>>
    BY <1>8 DEF WriteCodex, Go, ghosts
  <2>2. InBackup
    BY <1>8 DEF WriteCodex, BackedUp
  <2> QED
    BY <2>1, <2>2 DEF UserTextIsKept, BackedUp, InBackup
<1>9. ASSUME Fails PROVE KeptInv'
  <2>1. run'.at = "idle" /\ "at" \in DOMAIN run'
    BY <1>9 DEF Fails, End, Off
  <2> QED
    BY <1>9, <2>1, OthersKeep DEF Fails
<1>10. ASSUME Restart PROVE KeptInv'
  <2>1. run'.at = "idle" /\ "at" \in DOMAIN run'
    BY <1>10 DEF Restart, End, Off
  <2> QED
    BY <1>10, <2>1, OthersKeep DEF Restart, files
<1>11. ASSUME UserEdits PROVE KeptInv'
  BY <1>11 DEF UserEdits, UserTextIsKept, BackedUp
<1>12. ASSUME UNCHANGED <<run, codex, saved, users>> PROVE KeptInv'
  BY <1>12, OthersKeep
<1>13. ASSUME NEW p \in Ports, ServeListen(p) PROVE KeptInv'
  BY <1>13, <1>12 DEF ServeListen
<1>14. CASE ServeLoad \/ TouchLoad \/ TouchSave \/ DaemonStops
  BY <1>14, <1>12 DEF ServeLoad, TouchLoad, TouchSave, DaemonStops, files, ghosts
<1>15. ASSUME NEW a \in Agents, AgentStarts(a) PROVE KeptInv'
  BY <1>15, <1>12 DEF AgentStarts, files, ghosts
<1>16. CASE UNCHANGED vars
  BY <1>16, <1>12 DEF vars, files, ghosts
<1> QED
  BY <1>1, <1>2, <1>3, <1>4, <1>5, <1>6, <1>7, <1>8, <1>9, <1>10, <1>11, <1>13,
     <1>14, <1>15, <1>16 DEF Next

\* What the user last wrote to config.toml is in it or in a backup, for every
\* file, any number of runs of setup, and wherever each of them ends.
THEOREM UserTextSurvives == Spec => []UserTextIsKept
<1>1. KeptInv => UserTextIsKept
  BY DEF KeptInv
<1> QED
  BY KeptInit, KeptStep, <1>1, PTL DEF Spec
-----------------------------------------------------------------------------
\* Setup at work, from the moment it has asked.
Working == run.at \notin {"idle", "token", "plan"}

\* Whose token and port are whose.
FitsRun ==
  /\ run.at # "idle" => run.targets # {}
  /\ run.at \notin {"idle", "token"} => run.token \in Tokens
  /\ Working => run.port \in Ports
  /\ run.at \in {"truncate", "write"} => run.edits
  /\ run.at \in {"token", "plan"} => ~ run.edits
FitsDaemon ==
  /\ config.token \in Tokens \cup {Absent} /\ daemon.hand.token \in Tokens \cup {Absent}
  /\ daemon.saving => daemon.at = "on"
FitsDone ==
  /\ done.agree => done.targets # {}
  /\ run.at = "token" => done.targets = {}
  /\ run.at = "write" => done = Undone
  /\ done.targets # {} => config.token # Absent
  /\ run.at = "plan" /\ done.targets # {} => run.token = config.token

\* The text of a plan is sound and has the exporter,
PlanIsRight ==
  run.edits =>
    Sound(run.text) /\ Value(run.text, Otel, "exporter") = Exporter(run.port, run.token)

\* and so has config.toml when there is nothing to write to it, or it is written.
HasIt == run.at = "restart" \/ (run.at \in {"confirm", "claude", "codex"} /\ ~ run.edits)
WrittenIsRight ==
  "codex" \in run.targets /\ HasIt =>
    Value(codex, Otel, "exporter") = Exporter(run.port, run.token)

\* It keeps it, and the token that the daemon has or has loaded is the config's.
DoneIsRight ==
  /\ "codex" \in done.targets =>
       Value(codex, Otel, "exporter") = Exporter(done.port, config.token)
  /\ done.agree => /\ daemon.at = "on" => daemon.token = config.token
                   /\ daemon.at = "loaded" => daemon.hand.token = config.token

AgreeInv ==
  /\ FitsRun /\ FitsDaemon /\ FitsDone
  /\ Sound(codex) /\ PlanIsRight /\ WrittenIsRight /\ DoneIsRight

\* At first there is nothing to agree on.
LEMMA AgreeInit == Init => AgreeInv
<1> SUFFICES ASSUME Init PROVE AgreeInv
  OBVIOUS
<1>1. config = NoConfig /\ run = Off /\ done = Undone /\ IsToml(codex)
  BY DEF Init
<1>2. daemon.token = Absent /\ daemon.saving = FALSE /\ daemon.hand = NoConfig
  BY DEF Init
<1>3. codex \in Seq(Lines({}))
  <2>1. codex \in BoundedSeq(UserLines, MaxLines)
    BY DEF Init
  <2>2. codex \in Seq(UserLines)
    BY <2>1, SetupAssumption DEF BoundedSeq, SeqOf
  <2> QED
    BY <2>2, UsersHaveNoToken
<1>4. Sound(codex)
  <2>1. codex \in Seq(UserLines)
    BY SetupAssumption DEF Init, BoundedSeq, SeqOf
  <2>2. Fresh(codex)
    BY <2>1, UsersHaveNoMetrics DEF Fresh
  <2> QED
    BY <1>1, <1>3, <2>2, SetupAssumption, StartIsSound
<1> QED
  BY <1>1, <1>2, <1>4 DEF AgreeInv, FitsRun, FitsDaemon, FitsDone, PlanIsRight, WrittenIsRight,
     HasIt, DoneIsRight, Working, NoConfig, Off, Undone

\* What a step of setup has to show that leaves the config, config.toml and the
\* daemon alone,
LEMMA RunMoves ==
  ASSUME AgreeInv, UNCHANGED <<config, codex, daemon>>, done' \in {done, Undone},
         FitsRun', PlanIsRight', WrittenIsRight',
         run'.at = "write" => done' = Undone,
         run'.at = "token" => done'.targets = {},
         run'.at = "plan" /\ done'.targets # {} => run'.token = config'.token
  PROVE  AgreeInv'
<1>1. Undone.targets = {} /\ Undone.agree = FALSE
  BY DEF Undone
<1>2. FitsDone'
  BY <1>1 DEF AgreeInv, FitsDone
<1>3. DoneIsRight'
  BY <1>1 DEF AgreeInv, DoneIsRight
<1>4. FitsDaemon'
  BY DEF AgreeInv, FitsDaemon
<1> QED
  BY <1>2, <1>3, <1>4 DEF AgreeInv

\* one that goes on with its plan, or ends,
LEMMA Goes ==
  ASSUME TokenInv, AgreeInv, UNCHANGED <<config, codex, daemon>>, done' \in {done, Undone},
         \/ End
         \/ /\ Working /\ (Go("claude") \/ Go("codex") \/ Go("truncate") \/ Go("restart"))
            /\ run.at \in {"confirm", "claude", "codex"}
            /\ run'.at = "truncate" => run.edits
            /\ run'.at = "restart" => ~ run.edits
  PROVE  AgreeInv'
<1>1. ASSUME End PROVE AgreeInv'
  <2>1. run'.at = "idle" /\ run'.edits = FALSE
    BY <1>1 DEF End, Off
  <2> QED
    BY <2>1, RunMoves DEF FitsRun, Working, PlanIsRight, WrittenIsRight, HasIt
<1>2. ASSUME ~ End PROVE AgreeInv'
  <2>1. PICK at \in {"claude", "codex", "truncate", "restart"} : Go(at)
    BY <1>2
  <2>2. /\ run'.at = at /\ run'.targets = run.targets /\ run'.port = run.port
        /\ run'.token = run.token /\ run'.edits = run.edits /\ run'.text = run.text
    BY <2>1 DEF Go, TokenInv, Shapes, RunFits
  <2>3. FitsRun'
    BY <1>2, <2>2 DEF AgreeInv, FitsRun, Working
  <2>4. PlanIsRight'
    BY <2>2 DEF AgreeInv, PlanIsRight
  <2>5. WrittenIsRight'
    BY <1>2, <2>2 DEF AgreeInv, WrittenIsRight, HasIt
  <2> QED
    BY <2>2, <2>3, <2>4, <2>5, RunMoves
<1> QED
  BY <1>1, <1>2

\* and one of the daemon, or none, that leaves setup and config.toml alone.
LEMMA DaemonMoves ==
  ASSUME AgreeInv, UNCHANGED <<codex, run>>, FitsDaemon',
         \/ done' = Undone
         \/ /\ done' = done /\ config'.token = config.token
            /\ done.agree => /\ daemon'.at = "on" => daemon'.token = config.token
                             /\ daemon'.at = "loaded" => daemon'.hand.token = config.token
  PROVE  AgreeInv'
<1>1. Undone.targets = {} /\ Undone.agree = FALSE
  BY DEF Undone
<1>2. FitsDone'
  BY <1>1 DEF AgreeInv, FitsDone
<1>3. DoneIsRight'
  BY <1>1 DEF AgreeInv, DoneIsRight
<1>4. FitsRun' /\ PlanIsRight' /\ WrittenIsRight'
  BY DEF AgreeInv, FitsRun, Working, PlanIsRight, WrittenIsRight, HasIt
<1> QED
  BY <1>2, <1>3, <1>4 DEF AgreeInv

\* Setup begins with the token of the config, or one that nobody has.
LEMMA BeginAgrees ==
  ASSUME TokenInv, AgreeInv, NEW targets \in (SUBSET Agents) \ {{}}, NEW flag \in Flags,
         Begin(targets, flag)
  PROVE  AgreeInv'
<1>1. UNCHANGED <<config, codex, daemon, done>>
  BY DEF Begin, files, ghosts
<1>2. /\ run'.at = IF config.token = Absent THEN "token" ELSE "plan"
      /\ run'.targets = targets /\ run'.token = config.token /\ run'.edits = FALSE
  BY DEF Begin, Off
<1>3. FitsRun'
  <2>1. config.token # Absent => config.token \in Tokens
    BY DEF AgreeInv, FitsDaemon
  <2>2. run'.at \in {"token", "plan"} /\ run'.targets # {} /\ ~ run'.edits
    BY <1>2
  <2>3. run'.at = "plan" => run'.token \in Tokens
    BY <1>2, <2>1
  <2> QED
    BY <2>2, <2>3 DEF FitsRun, Working
<1>4. PlanIsRight' /\ WrittenIsRight'
  BY <1>2 DEF PlanIsRight, WrittenIsRight, HasIt
<1> QED
  BY <1>1, <1>2, <1>3, <1>4, RunMoves DEF AgreeInv, FitsDone

\* See BeginAgrees.
LEMMA SaveTokenAgrees == TokenInv /\ AgreeInv /\ minted \subseteq Tokens /\ SaveToken => AgreeInv'
<1> SUFFICES ASSUME TokenInv, AgreeInv, minted \subseteq Tokens, SaveToken PROVE AgreeInv'
  OBVIOUS
<1>1. PICK t \in Tokens : /\ config' = [run.hand EXCEPT !.token = t]
                          /\ run' = [run EXCEPT !.at = "plan", !.token = t, !.hand = NoConfig]
  <2>1. \E t \in Tokens : t \notin minted
    BY DEF SaveToken
  <2> QED
    BY <2>1 DEF SaveToken
<1>2. UNCHANGED <<codex, daemon, done>> /\ done.targets = {} /\ run.at = "token"
  BY DEF SaveToken, AgreeInv, FitsDone
<1>3. config'.token = t
  BY <1>1 DEF TokenInv, Shapes, RunFits, IsConfig
<1>4. /\ run'.at = "plan" /\ run'.token = t /\ run'.text = run.text /\ run'.edits = run.edits
      /\ run'.targets = run.targets /\ run'.port = run.port
  BY <1>1 DEF TokenInv, Shapes, RunFits
<1>5. FitsRun' /\ FitsDaemon'
  BY <1>2, <1>3, <1>4 DEF AgreeInv, FitsRun, FitsDaemon, Working
<1>6. FitsDone' /\ DoneIsRight'
  BY <1>2, <1>3, <1>4 DEF AgreeInv, FitsDone, DoneIsRight
<1>7. ~ run.edits
  BY <1>2 DEF AgreeInv, FitsRun
<1>8. PlanIsRight' /\ WrittenIsRight'
  BY <1>4, <1>7 DEF PlanIsRight, WrittenIsRight, HasIt
<1> QED
  BY <1>2, <1>5, <1>6, <1>8 DEF AgreeInv

\* The plan is offered only if it has been verified, or if there is none.
LEMMA PlanAgrees == TokenInv /\ AgreeInv /\ Plan => AgreeInv'
<1> SUFFICES ASSUME TokenInv, AgreeInv, Plan PROVE AgreeInv'
  OBVIOUS
<1>1. UNCHANGED <<config, codex, daemon, done>> /\ run.at = "plan"
  BY DEF Plan, files, ghosts
<1>2. ResolvePort \in Ports
  BY SetupAssumption DEF ResolvePort, TokenInv, Shapes, RunFits, IsConfig
<1>3. run.token \in Tokens /\ run.targets # {} /\ Sound(codex) /\ Absent \notin Tokens
  BY <1>1, SetupAssumption DEF AgreeInv, FitsRun
<1> DEFINE text == EditCodex(codex, ResolvePort, run.token)
           edits == "codex" \in run.targets /\ text # codex
<1>4. \/ End
      \/ /\ ~ Refuses(text)
         /\ \E adds : Offers(adds, edits, IF edits THEN text ELSE <<>>)
  BY DEF Plan
<1>5. CASE End
  BY <1>1, <1>5, Goes
<1>6. ASSUME ~ Refuses(text), NEW adds, Offers(adds, edits, IF edits THEN text ELSE <<>>)
      PROVE  AgreeInv'
  <2>1. /\ run'.at = "confirm" /\ run'.port = ResolvePort /\ run'.edits = edits
        /\ run'.text = IF edits THEN text ELSE <<>>
        /\ run'.targets = run.targets /\ run'.token = run.token
    BY <1>6 DEF Offers, TokenInv, Shapes, RunFits
  <2>2. FitsRun'
    BY <1>2, <1>3, <2>1 DEF FitsRun, Working
  <2>3. PlanIsRight'
    <3> SUFFICES ASSUME edits
                 PROVE  Sound(text) /\ Value(text, Otel, "exporter") = Exporter(ResolvePort, run.token)
      BY <2>1 DEF PlanIsRight
    <3>1. IsToml(text) /\ Value(text, Otel, "exporter") = Exporter(ResolvePort, run.token)
      BY <1>6 DEF Refuses, VerifyCodexEdit
    <3> QED
      BY <1>2, <1>3, <3>1, EditIsSound
  <2>4. WrittenIsRight'
    <3> SUFFICES ASSUME ~ edits, "codex" \in run.targets
                 PROVE  Value(codex, Otel, "exporter") = Exporter(ResolvePort, run.token)
      BY <1>1, <2>1 DEF WrittenIsRight, HasIt
    <3>1. text = codex
      OBVIOUS
    <3> QED
      BY <1>2, <1>3, <3>1, FixpointHasExporter
  <2> QED
    BY <1>1, <2>1, <2>2, <2>3, <2>4, RunMoves
<1> QED
  BY <1>4, <1>5, <1>6

\* The file is emptied, and then it has the plan's text.
LEMMA WritesAgree == TokenInv /\ AgreeInv /\ (TruncateCodex \/ WriteCodex) => AgreeInv'
<1> SUFFICES ASSUME TokenInv, AgreeInv, TruncateCodex \/ WriteCodex PROVE AgreeInv'
  OBVIOUS
<1>1. UNCHANGED <<config, daemon>> /\ FitsDaemon'
  BY DEF TruncateCodex, WriteCodex, ghosts, AgreeInv, FitsDaemon
<1>2. /\ run'.targets = run.targets /\ run'.port = run.port /\ run'.token = run.token
      /\ run'.edits = run.edits /\ run'.text = run.text /\ run.edits
      /\ run'.at = IF TruncateCodex THEN "write" ELSE "restart"
  BY DEF TruncateCodex, WriteCodex, Go, AgreeInv, FitsRun, TokenInv, Shapes, RunFits
<1>3. FitsRun' /\ PlanIsRight'
  BY <1>2 DEF TruncateCodex, WriteCodex, AgreeInv, FitsRun, Working, PlanIsRight
<1>4. done' = Undone
  BY DEF TruncateCodex, WriteCodex, ghosts, AgreeInv, FitsDone
<1>5. FitsDone' /\ DoneIsRight'
  BY <1>2, <1>4 DEF FitsDone, DoneIsRight, Undone
<1>6. CASE TruncateCodex
  <2>1. Sound(codex')
    BY <1>6, SetupAssumption, EmptyIsSound DEF TruncateCodex
  <2>2. WrittenIsRight'
    BY <1>2, <1>6 DEF WrittenIsRight, HasIt
  <2> QED
    BY <1>1, <1>3, <1>5, <2>1, <2>2 DEF AgreeInv
<1>7. CASE WriteCodex
  <2>1. codex' = run.text
    BY <1>7 DEF WriteCodex
  <2>2. Sound(codex') /\ Value(codex', Otel, "exporter") = Exporter(run.port, run.token)
    BY <1>2, <2>1 DEF AgreeInv, PlanIsRight
  <2>3. WrittenIsRight'
    BY <1>2, <2>2 DEF WrittenIsRight
  <2> QED
    BY <1>1, <1>3, <1>5, <2>2, <2>3 DEF AgreeInv
<1> QED
  BY <1>6, <1>7

\* Setup is done: the daemon, if it runs, was started with the token.
LEMMA RestartAgrees == TokenInv /\ AgreeInv /\ Restart => AgreeInv'
<1> SUFFICES ASSUME TokenInv, AgreeInv, Restart PROVE AgreeInv'
  OBVIOUS
<1>1. UNCHANGED <<config, codex>> /\ run.at = "restart" /\ run' = Off
  BY DEF Restart, files, End
<1>2. FitsDaemon'
  <2>1. daemon' = daemon \/ daemon' = Restarted
    BY DEF Restart
  <2>2. daemon' = Restarted => daemon'.hand = NoConfig /\ daemon'.saving = FALSE
    BY DEF Restarted, TokenInv, Shapes, DaemonFits
  <2> QED
    BY <1>1, <2>1, <2>2 DEF AgreeInv, FitsDaemon, NoConfig
<1>3. FitsRun' /\ PlanIsRight' /\ WrittenIsRight'
  BY <1>1 DEF Off, FitsRun, Working, PlanIsRight, WrittenIsRight, HasIt
<1>4. FitsDone' /\ DoneIsRight'
  <2>1. CASE done' = Undone
    BY <1>1, <2>1 DEF FitsDone, DoneIsRight, Undone, Off
  <2>2. CASE done' # Undone
    <3>1. /\ config.token = run.token
          /\ done' = [targets |-> run.targets, port |-> run.port,
                      agree |-> daemon'.at \notin {"loaded", "on"}]
      BY <2>2 DEF Restart, Finished
    <3>2. run.token \in Tokens /\ run.targets # {} /\ Absent \notin Tokens
      BY <1>1, SetupAssumption DEF AgreeInv, FitsRun
    <3>3. "codex" \in run.targets => Value(codex, Otel, "exporter") = Exporter(run.port, run.token)
      BY <1>1 DEF AgreeInv, WrittenIsRight, HasIt
    <3> QED
      BY <1>1, <3>1, <3>2, <3>3 DEF FitsDone, DoneIsRight, Off
  <2> QED
    BY <2>1, <2>2
<1> QED
  BY <1>1, <1>2, <1>3, <1>4 DEF AgreeInv

\* What the user adds leaves the exporter as it is.
LEMMA UserAgrees == TokenInv /\ AgreeInv /\ UserEdits => AgreeInv'
<1> SUFFICES ASSUME TokenInv, AgreeInv, UserEdits PROVE AgreeInv'
  OBVIOUS
<1>1. UNCHANGED <<config, run, daemon>> /\ done' = Undone
  BY DEF UserEdits
<1>2. /\ Sound(codex')
      /\ Value(codex', Otel, "exporter") = Value(codex, Otel, "exporter")
  <2>1. codex' = codex \o Addition /\ IsToml(codex') /\ Sound(codex)
    BY DEF UserEdits, Addition, AgreeInv
  <2> QED
    BY <2>1, SetupAssumption, AdditionIsSound
<1>3. FitsRun' /\ FitsDaemon' /\ PlanIsRight'
  BY <1>1 DEF AgreeInv, FitsRun, FitsDaemon, Working, PlanIsRight
<1>4. WrittenIsRight'
  BY <1>1, <1>2 DEF AgreeInv, WrittenIsRight, HasIt
<1>5. FitsDone' /\ DoneIsRight'
  BY <1>1 DEF UserEdits, FitsDone, DoneIsRight, Undone
<1> QED
  BY <1>2, <1>3, <1>4, <1>5 DEF AgreeInv

\* The daemon changes nothing that setup has done, or setup is no longer done.
LEMMA DaemonAgrees ==
  ASSUME TokenInv, AgreeInv,
         ServeLoad \/ TouchLoad \/ TouchSave \/ DaemonStops \/ \E p \in Ports : ServeListen(p)
  PROVE  AgreeInv'
<1>1. UNCHANGED <<codex, run>>
  BY DEF ServeLoad, TouchLoad, TouchSave, DaemonStops, ServeListen, files, ghosts
<1>2. DOMAIN daemon = {"at", "token", "saving", "hand"} /\ FitsDaemon
  BY DEF TokenInv, Shapes, DaemonFits, AgreeInv
<1>3. CASE ServeLoad
  <2>1. /\ daemon'.at = "loaded" /\ daemon'.hand = config /\ daemon'.saving = daemon.saving
        /\ daemon.at = "off" /\ UNCHANGED <<config, done>>
    BY <1>2, <1>3 DEF ServeLoad, files, ghosts
  <2> QED
    BY <1>1, <1>2, <2>1, DaemonMoves DEF FitsDaemon
<1>4. CASE TouchLoad
  <2>1. /\ daemon'.at = "on" /\ daemon'.hand = config /\ daemon'.token = daemon.token
        /\ daemon.at = "on" /\ UNCHANGED <<config, done>>
    BY <1>2, <1>4 DEF TouchLoad, files, ghosts
  <2> QED
    BY <1>1, <1>2, <2>1, DaemonMoves DEF FitsDaemon, AgreeInv, DoneIsRight
<1>5. CASE TouchSave
  <2>1. /\ daemon'.at = daemon.at /\ daemon'.token = daemon.token /\ daemon'.saving = FALSE
        /\ daemon'.hand = NoConfig /\ daemon.saving /\ config' = daemon.hand
        /\ done' \in {done, Undone} /\ (config' # config => done' = Undone)
    BY <1>2, <1>5 DEF TouchSave
  <2>2. FitsDaemon' /\ daemon.at = "on"
    BY <1>2, <2>1 DEF FitsDaemon, NoConfig
  <2> QED
    BY <1>1, <2>1, <2>2, DaemonMoves DEF AgreeInv, DoneIsRight
<1>6. CASE DaemonStops
  <2>1. /\ daemon'.at = "off" /\ daemon'.saving = FALSE /\ daemon'.hand = NoConfig
        /\ UNCHANGED <<config, done>>
    BY <1>2, <1>6 DEF DaemonStops, Restarted, files, ghosts
  <2>2. FitsDaemon'
    BY <1>2, <2>1 DEF FitsDaemon, NoConfig
  <2> QED
    BY <1>1, <2>1, <2>2, DaemonMoves
<1>7. ASSUME NEW p \in Ports, ServeListen(p) PROVE AgreeInv'
  <2>1. /\ daemon.at = "loaded" /\ daemon'.at = "on" /\ daemon'.token = daemon.hand.token
        /\ daemon'.hand = NoConfig /\ daemon'.saving = daemon.saving
        /\ UNCHANGED <<config, done>> \/ (config' = [daemon.hand EXCEPT !.port = p] /\ done' = Undone)
    BY <1>2, <1>7 DEF ServeListen
  <2>2. config'.token \in {config.token, daemon.hand.token}
    BY <2>1 DEF TokenInv, Shapes, DaemonFits, IsConfig
  <2>3. FitsDaemon'
    BY <1>2, <2>1, <2>2 DEF FitsDaemon, NoConfig
  <2> QED
    BY <1>1, <2>1, <2>3, DaemonMoves DEF AgreeInv, DoneIsRight
<1> QED
  BY <1>3, <1>4, <1>5, <1>6, <1>7

\* No step of anybody disturbs it.
LEMMA AgreeStep == TokenInv /\ AgreeInv /\ minted \subseteq Tokens /\ [Next]_vars => AgreeInv'
<1> SUFFICES ASSUME TokenInv, AgreeInv, minted \subseteq Tokens, [Next]_vars PROVE AgreeInv'
  OBVIOUS
<1>1. ASSUME NEW targets \in (SUBSET Agents) \ {{}}, NEW flag \in Flags, Begin(targets, flag)
      PROVE  AgreeInv'
  BY <1>1, BeginAgrees
<1>2. CASE SaveToken
  BY <1>2, SaveTokenAgrees
<1>3. CASE Plan
  BY <1>3, PlanAgrees
<1>4. CASE Confirm
  <2>1. /\ UNCHANGED <<config, codex, daemon, done>> /\ (End \/ Go("claude"))
        /\ run.at = "confirm" /\ Working
    BY <1>4 DEF Confirm, files, ghosts, Working
  <2>2. End \/ run'.at = "claude"
    BY <2>1 DEF Go, TokenInv, Shapes, RunFits
  <2> QED
    BY <2>1, <2>2, Goes
<1>5. CASE ApplyClaude
  <2>1. UNCHANGED <<config, codex, daemon, done>> /\ Go("codex") /\ run.at = "claude" /\ Working
    BY <1>5 DEF ApplyClaude, ghosts, Working
  <2>2. run'.at = "codex"
    BY <2>1 DEF Go, TokenInv, Shapes, RunFits
  <2> QED
    BY <2>1, <2>2, Goes
<1>6. CASE BackupCodex
  <2>1. /\ UNCHANGED <<config, codex, daemon, done>> /\ run.at = "codex" /\ Working
        /\ Go(IF run.edits THEN "truncate" ELSE "restart")
    BY <1>6 DEF BackupCodex, ghosts, Working
  <2>2. run'.at = IF run.edits THEN "truncate" ELSE "restart"
    BY <2>1 DEF Go, TokenInv, Shapes, RunFits
  <2>3. Go("truncate") \/ Go("restart")
    BY <2>1
  <2> QED
    BY <2>1, <2>2, <2>3, Goes
<1>7. CASE TruncateCodex \/ WriteCodex
  BY <1>7, WritesAgree
<1>8. CASE Fails
  <2>1. UNCHANGED <<config, codex, daemon>> /\ End /\ done' = Undone
    BY <1>8 DEF Fails
  <2> QED
    BY <2>1, Goes
<1>9. CASE Restart
  BY <1>9, RestartAgrees
<1>10. CASE UserEdits
  BY <1>10, UserAgrees
<1>11. CASE ServeLoad \/ TouchLoad \/ TouchSave \/ DaemonStops \/ \E p \in Ports : ServeListen(p)
  BY <1>11, DaemonAgrees
<1>12. ASSUME UNCHANGED <<config, codex, run, daemon, done>> PROVE AgreeInv'
  <2>1. FitsDaemon'
    BY <1>12 DEF AgreeInv, FitsDaemon
  <2> QED
    BY <1>12, <2>1, DaemonMoves DEF AgreeInv, DoneIsRight
<1>13. ASSUME NEW a \in Agents, AgentStarts(a) PROVE AgreeInv'
  BY <1>12, <1>13 DEF AgentStarts, files, ghosts
<1>14. CASE UNCHANGED vars
  BY <1>12, <1>14 DEF vars, files, ghosts
<1> QED
  BY <1>1, <1>2, <1>3, <1>4, <1>5, <1>6, <1>7, <1>8, <1>9, <1>10, <1>11, <1>13, <1>14 DEF Next

\* Setup mints tokens.
LEMMA MintedAreTokens == Spec => [](minted \subseteq Tokens)
<1>1. Init => minted \subseteq Tokens
  BY DEF Init
<1>2. minted \subseteq Tokens /\ [Next]_vars => (minted \subseteq Tokens)'
  <2> SUFFICES ASSUME minted \subseteq Tokens, [Next]_vars PROVE minted' \subseteq Tokens
    OBVIOUS
  <2>1. CASE SaveToken
    <3>1. \E t \in Tokens : t \notin minted
      BY <2>1 DEF SaveToken
    <3> QED
      BY <2>1, <3>1 DEF SaveToken
  <2>2. CASE ~ SaveToken
    <3>1. minted' = minted
      BY <2>2 DEF Next, Begin, Plan, Confirm, ApplyClaude, BackupCodex, TruncateCodex, WriteCodex,
         Fails, Restart, ServeLoad, TouchLoad, TouchSave, DaemonStops, UserEdits, ServeListen,
         AgentStarts, vars, ghosts
    <3> QED
      BY <3>1
  <2> QED
    BY <2>1, <2>2
<1> QED
  BY <1>1, <1>2, PTL DEF Spec

\* What AgreeInv needs of the others.
LEMMA SetupSafe == Spec => [](TokenInv /\ AgreeInv)
<1>1. Spec => []TokenInv
  BY TokenInit, TokenStep, PTL DEF Spec
<1> QED
  BY <1>1, AgreeInit, AgreeStep, MintedAreTokens, PTL DEF Spec

\* When setup has finished and restarted the daemon, the config, config.toml and
\* the daemon that runs have the same token: for every config.toml that is TOML,
\* whatever the scanner makes of it, any number of runs of setup, of edits of the
\* user between and during them, and of other saves of the config.
THEOREM SetupAgrees == Spec => []AgreeAfterSetup
<1>1. AgreeInv => AgreeAfterSetup
  BY DEF AgreeInv, DoneIsRight, AgreeAfterSetup
<1> QED
  BY <1>1, SetupSafe, PTL
-----------------------------------------------------------------------------
\* A plan of setup is the edit of config.toml, and it is offered if it has been
\* verified, or there is nothing to do.
LEMMA PlanIsEdit ==
  ASSUME TokenInv, AgreeInv, run.at = "plan", run' # run, [Next]_vars,
         NEW text, text = EditCodex(codex, ResolvePort, run.token)
  PROVE  /\ Sound(codex) /\ ResolvePort \in Ports /\ run.token \in Tokens
         /\ Plan /\ UNCHANGED <<config, codex, claude, done>>
         /\ run'.edits => "codex" \in run.targets /\ run'.text = text
         /\ run'.at = "confirm" =>
              /\ run'.port = ResolvePort /\ run'.targets = run.targets /\ run'.token = run.token
              /\ ~ Refuses(text)
              /\ run'.edits <=> "codex" \in run.targets /\ text # codex
              /\ run'.adds = IF "claude" \in run.targets THEN PlanClaude ELSE {}
         /\ run'.at # "confirm" =>
              /\ End /\ run'.at = "idle" /\ ~ run'.edits
              /\ Refuses(text) \/ ("codex" \in run.targets => text = codex)
<1>1. Plan
  BY DEF Next, Begin, SaveToken, Plan, Confirm, ApplyClaude, BackupCodex, TruncateCodex, WriteCodex,
     Fails, Restart, ServeLoad, TouchLoad, TouchSave, DaemonStops, UserEdits, ServeListen,
     AgentStarts, vars
<1>2. Sound(codex) /\ ResolvePort \in Ports /\ run.token \in Tokens
  BY SetupAssumption DEF ResolvePort, TokenInv, Shapes, RunFits, IsConfig, AgreeInv, FitsRun
<1>3. UNCHANGED <<config, codex, claude, done>>
  BY <1>1 DEF Plan, files, ghosts
<1> DEFINE adds == IF "claude" \in run.targets THEN PlanClaude ELSE {}
           edits == "codex" \in run.targets /\ text # codex
<1>4. \/ End /\ (Refuses(text) \/ (adds = {} /\ ~ edits))
      \/ ~ Refuses(text) /\ Offers(adds, edits, IF edits THEN text ELSE <<>>)
  BY <1>1 DEF Plan
<1>5. End => run'.at = "idle" /\ ~ run'.edits
  BY DEF End, Off
<1>6. Offers(adds, edits, IF edits THEN text ELSE <<>>) =>
        /\ run'.at = "confirm" /\ run'.port = ResolvePort /\ run'.adds = adds /\ run'.edits = edits
        /\ run'.text = IF edits THEN text ELSE <<>>
        /\ run'.targets = run.targets /\ run'.token = run.token
  BY DEF Offers, TokenInv, Shapes, RunFits
<1> QED
  BY <1>1, <1>2, <1>3, <1>4, <1>5, <1>6

\* What it keeps of a file that the scanner reads as TOML does, if it can edit
\* the exporter there.
LEMMA EditPreserves ==
  ASSUME NEW L, Sound(L), Regular(L), Editable(L), NEW port \in Ports, NEW token \in Tokens,
         NEW M, M = EditCodex(L, port, token)
  PROVE  Preserves(L, M)
<1>1. L \in Seq(Lines(Tokens)) /\ IsToml(L)
  BY DEF Sound
<1>2. /\ \A k \in Read(L).keys :
           ~ (k.table = Stale \/ (k.table = Otel /\ k.key = "exporter")) => k \in Read(M).keys
      /\ \A k \in Read(M).keys : k \in Read(L).keys \/ k.table = Otel
  BY <1>1, RegularKeeps
<1>3. Range(CodexScalars) \subseteq {k.key : k \in Assigned(M, Otel)}
  BY <1>1, RegularIsVerified DEF Settled
<1> QED
  BY <1>2, <1>3 DEF Preserves, Assigned

\* See EditsRight.
LEMMA PlanIsRightThen == TokenInv /\ AgreeInv /\ [Next]_vars => EditsRight
<1> SUFFICES ASSUME TokenInv, AgreeInv, [Next]_vars, run.at = "plan", run' # run,
                    "codex" \in run.targets, "claude" \in run.targets => claude.ok
             PROVE  LET text == IF run'.edits THEN run'.text ELSE codex
                        planned == run'.at = "confirm"
                    IN /\ planned => /\ IsToml(text)
                                     /\ Value(text, Otel, "exporter") = Exporter(run'.port, run.token)
                       /\ Regular(codex) /\ Editable(codex) =>
                            /\ Preserves(codex, text)
                            /\ planned \/ EditCodex(codex, ResolvePort, run.token) = codex
  BY DEF EditsRight
<1>1. PICK M : M = EditCodex(codex, ResolvePort, run.token)
  OBVIOUS
<1>2. /\ Sound(codex) /\ ResolvePort \in Ports /\ run.token \in Tokens
      /\ run'.edits => run'.text = M
      /\ run'.at = "confirm" =>
           /\ run'.port = ResolvePort
           /\ ~ Refuses(M)
           /\ run'.edits <=> M # codex
      /\ run'.at # "confirm" => ~ run'.edits /\ (Refuses(M) \/ M = codex)
  BY <1>1, PlanIsEdit
<1>3. PICK text : text = IF run'.edits THEN run'.text ELSE codex
  OBVIOUS
<1>4. ASSUME run'.at = "confirm"
      PROVE  IsToml(text) /\ Value(text, Otel, "exporter") = Exporter(run'.port, run.token)
  <2>1. CASE M = codex
    <3>1. Value(codex, Otel, "exporter") = Exporter(ResolvePort, run.token)
      <4>1. Absent \notin Tokens
        BY SetupAssumption
      <4>2. EditCodex(codex, ResolvePort, run.token) = codex
        BY <1>1, <2>1
      <4> QED
        BY <1>2, <4>1, <4>2, FixpointHasExporter
    <3> QED
      BY <1>2, <1>3, <1>4, <2>1, <3>1 DEF Sound
  <2>2. CASE M # codex
    BY <1>2, <1>3, <1>4, <2>2 DEF Refuses, VerifyCodexEdit
  <2> QED
    BY <2>1, <2>2
<1>5. ASSUME Regular(codex), Editable(codex)
      PROVE  Preserves(codex, text) /\ (run'.at = "confirm" \/ M = codex)
  <2>1. codex \in Seq(Lines(Tokens)) /\ IsToml(codex)
    BY <1>2 DEF Sound
  <2>2. ~ Refuses(M)
    BY <1>1, <1>2, <1>5, <2>1, RegularIsVerified DEF Refuses
  <2>3. text = M
    BY <1>2, <1>3, <2>2
  <2> QED
    BY <1>1, <1>2, <1>5, <2>2, <2>3, EditPreserves
<1> QED
  BY <1>1, <1>3, <1>4, <1>5

\* Whatever config.toml that is TOML setup edits, its plan is TOML and has the
\* exporter; and one that the scanner reads as TOML does keeps every value but the
\* exporter's and is not refused, of any length, unless its exporter is a value of
\* several lines or has a table other than the stale one.
THEOREM EditsAreRight == Spec => EditIsRight
<1>1. TokenInv /\ AgreeInv /\ [Next]_vars => EditsRight
  BY PlanIsRightThen
<1> QED
  BY <1>1, SetupSafe, PTL DEF Spec, EditIsRight
-----------------------------------------------------------------------------
\* What setup has to find when it is run again: config.toml, as it is planned,
\* as it is written and as it stays, is what the edit leaves alone, if the
\* scanner reads it as TOML does,
Settles(lines, port, token) == Regular(lines) => Settled(lines, Exporter(port, token))
CodexSettles ==
  /\ run.edits => Settles(run.text, run.port, run.token)
  /\ "codex" \in run.targets /\ HasIt => Settles(codex, run.port, run.token)
  /\ "codex" \in done.targets => Settles(codex, done.port, config.token)

\* and the env of Claude has what it needs, or is planned to.
Present(k) == claude.env[k] # Absent
ClaudeSettles ==
  /\ Working /\ "claude" \in run.targets =>
       claude.ok /\ \A k \in ClaudeKeys : Present(k) \/ (run.at \in {"confirm", "claude"} /\ k \in run.adds)
  /\ "claude" \in done.targets => claude.ok /\ \A k \in ClaudeKeys : Present(k)

NoopInv == CodexSettles /\ ClaudeSettles

LEMMA NoopInit == Init => NoopInv
<1> SUFFICES ASSUME Init PROVE NoopInv
  OBVIOUS
<1>1. run = Off /\ done = Undone
  BY DEF Init
<1> QED
  BY <1>1 DEF NoopInv, CodexSettles, ClaudeSettles, HasIt, Working, Off, Undone

\* What a step shows that leaves both files alone.
LEMMA FilesStay ==
  ASSUME NoopInv, UNCHANGED <<codex, claude>>,
         done' = Undone \/ (done' = done /\ (done.targets = {} \/ config'.token = config.token)),
         \/ UNCHANGED run
         \/ run'.at \in {"idle", "token", "plan"} /\ ~ run'.edits
         \/ /\ Working /\ run'.at \in {"claude", "truncate", "restart"}
            /\ run'.targets = run.targets /\ run'.port = run.port /\ run'.token = run.token
            /\ run'.edits = run.edits /\ run'.text = run.text /\ run'.adds = run.adds
            /\ run'.at = "claude" => run.at = "confirm"
            /\ run'.at = "truncate" => run.edits /\ run.at = "codex"
            /\ run'.at = "restart" => ~ run.edits /\ run.at = "codex"
  PROVE  NoopInv'
<1>1. Undone.targets = {}
  BY DEF Undone
<1>2. "codex" \in done'.targets => Settles(codex', done'.port, config'.token)
  BY <1>1 DEF NoopInv, CodexSettles
<1>3. "claude" \in done'.targets => claude'.ok /\ \A k \in ClaudeKeys : Present(k)'
  BY <1>1 DEF NoopInv, ClaudeSettles, Present
<1>4. CASE UNCHANGED run
  BY <1>2, <1>3, <1>4 DEF NoopInv, CodexSettles, ClaudeSettles, HasIt, Working, Present, Settles
<1>5. CASE run'.at \in {"idle", "token", "plan"} /\ ~ run'.edits
  BY <1>2, <1>3, <1>5 DEF NoopInv, CodexSettles, ClaudeSettles, HasIt, Working
<1>6. CASE /\ Working /\ run'.at \in {"claude", "truncate", "restart"}
           /\ run'.targets = run.targets /\ run'.port = run.port /\ run'.token = run.token
           /\ run'.edits = run.edits /\ run'.text = run.text /\ run'.adds = run.adds
           /\ run'.at = "claude" => run.at = "confirm"
           /\ run'.at = "truncate" => run.edits /\ run.at = "codex"
           /\ run'.at = "restart" => ~ run.edits /\ run.at = "codex"
  <2>1. run'.edits => Settles(run'.text, run'.port, run'.token)
    BY <1>6 DEF NoopInv, CodexSettles
  <2>2. "codex" \in run'.targets /\ HasIt' => Settles(codex', run'.port, run'.token)
    BY <1>6 DEF NoopInv, CodexSettles, HasIt
  <2>3. Working' /\ "claude" \in run'.targets =>
          claude'.ok /\ \A k \in ClaudeKeys :
            Present(k)' \/ (run'.at \in {"confirm", "claude"} /\ k \in run'.adds)
    BY <1>6 DEF NoopInv, ClaudeSettles, Present, Working
  <2> QED
    BY <1>2, <1>3, <2>1, <2>2, <2>3 DEF NoopInv, CodexSettles, ClaudeSettles
<1> QED
  BY <1>4, <1>5, <1>6

\* The plan: what is not edited is settled, and what is will be.
LEMMA PlanSettles ==
  ASSUME TokenInv, AgreeInv, NoopInv, run.at = "plan", run' # run, [Next]_vars
  PROVE  NoopInv'
<1>1. PICK M : M = EditCodex(codex, ResolvePort, run.token)
  OBVIOUS
<1>2. /\ Sound(codex) /\ ResolvePort \in Ports /\ run.token \in Tokens
      /\ UNCHANGED <<config, codex, claude, done>>
      /\ run'.edits => run'.text = M
      /\ run'.at = "confirm" =>
           /\ run'.port = ResolvePort /\ run'.targets = run.targets /\ run'.token = run.token
           /\ ~ Refuses(M)
           /\ run'.edits <=> "codex" \in run.targets /\ M # codex
           /\ run'.adds = IF "claude" \in run.targets THEN PlanClaude ELSE {}
      /\ run'.at # "confirm" => run'.at = "idle" /\ ~ run'.edits
  BY <1>1, PlanIsEdit
<1>3. CASE run'.at # "confirm"
  BY <1>2, <1>3, FilesStay
<1>4. ASSUME run'.at = "confirm" PROVE NoopInv'
  <2>1. Absent \notin Tokens /\ Absent # "setup"
    BY SetupAssumption
  <2>2. run'.edits => Settles(M, ResolvePort, run.token)
    <3> SUFFICES ASSUME run'.edits, Regular(M) PROVE Settled(M, Exporter(ResolvePort, run.token))
      BY DEF Settles
    <3>1. VerifyCodexEdit(M, ResolvePort, run.token, Added(codex))
      BY <1>2, <1>4 DEF Refuses
    <3> QED
      BY <1>1, <1>2, <2>1, <3>1, VerifiedIsSettled
  <2>3. "codex" \in run.targets /\ ~ run'.edits => Settles(codex, ResolvePort, run.token)
    <3> SUFFICES ASSUME M = codex, Regular(codex)
                 PROVE  Settled(codex, Exporter(ResolvePort, run.token))
      BY <1>2, <1>4 DEF Settles
    <3>1. codex \in Seq(Lines(Tokens)) /\ IsToml(codex)
      BY <1>2 DEF Sound
    <3>2. Editable(codex)
      BY <1>1, <1>2, <2>1, FixpointIsEditable
    <3> QED
      BY <1>1, <1>2, <3>1, <3>2, RegularIsVerified
  <2>4. CodexSettles'
    <3>1. run'.edits => Settles(run'.text, run'.port, run'.token)
      BY <1>2, <1>4, <2>2
    <3>2. "codex" \in run'.targets /\ HasIt' => Settles(codex', run'.port, run'.token)
      BY <1>2, <1>4, <2>3 DEF HasIt
    <3>3. "codex" \in done'.targets => Settles(codex', done'.port, config'.token)
      BY <1>2 DEF NoopInv, CodexSettles
    <3> QED
      BY <3>1, <3>2, <3>3 DEF CodexSettles
  <2>5. ClaudeSettles'
    BY <1>2, <1>4 DEF NoopInv, ClaudeSettles, Refuses, PlanClaude, Present
  <2> QED
    BY <2>4, <2>5 DEF NoopInv
<1> QED
  BY <1>3, <1>4

\* The env of Claude gets what it lacks.
LEMMA ClaudeIsFilled ==
  ASSUME TokenInv, AgreeInv, NoopInv, ApplyClaude
  PROVE  NoopInv'
<1>1. /\ UNCHANGED <<config, codex, done>> /\ run.at = "claude" /\ Working
      /\ claude' = [claude EXCEPT !.env =
           [k \in ClaudeKeys |->
              IF k \notin run.adds THEN @[k]
              ELSE IF k = "endpoint" THEN run.port ELSE run.token]]
  BY DEF ApplyClaude, ghosts, Working
<1>2. /\ run'.at = "codex" /\ run'.targets = run.targets /\ run'.port = run.port
      /\ run'.token = run.token /\ run'.edits = run.edits /\ run'.text = run.text
  BY DEF ApplyClaude, Go, TokenInv, Shapes, RunFits
<1>3. run.port # Absent /\ run.token # Absent
  BY <1>1, SetupAssumption DEF AgreeInv, FitsRun, Working
<1>4. /\ claude'.ok = claude.ok
      /\ \A k \in ClaudeKeys : Present(k) \/ k \in run.adds => Present(k)'
  BY <1>1, <1>3 DEF Present, TokenInv, Shapes, ClaudeFits
<1>5. ClaudeSettles'
  BY <1>1, <1>2, <1>4 DEF NoopInv, ClaudeSettles
<1>6. CodexSettles'
  BY <1>1, <1>2 DEF NoopInv, CodexSettles, HasIt
<1> QED
  BY <1>5, <1>6 DEF NoopInv

\* config.toml is emptied, and gets the plan's text.
LEMMA WritesSettle ==
  ASSUME TokenInv, AgreeInv, NoopInv, TruncateCodex \/ WriteCodex
  PROVE  NoopInv'
<1>1. /\ run'.targets = run.targets /\ run'.port = run.port /\ run'.token = run.token
      /\ run'.edits = run.edits /\ run'.text = run.text /\ run.edits /\ Working
      /\ run'.at = IF TruncateCodex THEN "write" ELSE "restart"
  BY DEF TruncateCodex, WriteCodex, Go, AgreeInv, FitsRun, TokenInv, Shapes, RunFits, Working
<1>2. done' = Undone /\ claude' = claude /\ (WriteCodex => codex' = run.text)
  BY DEF TruncateCodex, WriteCodex, ghosts, AgreeInv, FitsDone
<1>3. CodexSettles'
  BY <1>1, <1>2 DEF NoopInv, CodexSettles, HasIt, Undone
<1>4. run.at \in {"truncate", "write"}
  BY DEF TruncateCodex, WriteCodex
<1>5. ClaudeSettles'
  BY <1>1, <1>2, <1>4 DEF NoopInv, ClaudeSettles, Present, Undone
<1> QED
  BY <1>3, <1>5 DEF NoopInv

\* What a user adds leaves [otel] as it is.
LEMMA AdditionSettles ==
  ASSUME NEW L, Sound(L), NEW M, M = L \o Addition, NEW port, NEW token, Settles(L, port, token)
  PROVE  Settles(M, port, token)
<1> SUFFICES ASSUME Regular(M) PROVE Settled(M, Exporter(port, token))
  BY DEF Settles
<1>1. L \in Seq(Lines(Tokens)) /\ IsToml(L) /\ Absent \notin Tokens
  BY SetupAssumption DEF Sound
<1>2. /\ Len(L) \in Nat /\ Len(M) = Len(L) + 2 /\ SameStart(L, M, Len(L) + 1) /\ M \in Seq(Lines(Tokens))
  BY <1>1, AdditionStarts
<1>3. /\ DOMAIN L = 1 .. Len(L) /\ DOMAIN M = 1 .. Len(M)
      /\ \A i \in 1 .. Len(L) : i \in 1 .. Len(M) /\ M[i] = L[i]
  <2>1. \A i \in 1 .. Len(L) : i \in 1 .. (Len(L) + 1) - 1
    BY <1>2
  <2>2. DOMAIN L = 1 .. Len(L) /\ DOMAIN M = 1 .. Len(M)
    BY <1>1, <1>2
  <2> QED
    BY <1>2, <2>1, <2>2 DEF SameStart
<1>4. Regular(L)
  BY <1>3 DEF Regular
<1>5. Assigned(M, Otel) = Assigned(L, Otel) /\ \A key : Value(M, Otel, key) = Value(L, Otel, key)
  BY <1>1, AdditionReads
<1> QED
  BY <1>4, <1>5 DEF Settles, Settled

\* See AdditionSettles.
LEMMA UserSettles ==
  ASSUME TokenInv, AgreeInv, NoopInv, UserEdits
  PROVE  NoopInv'
<1>1. UNCHANGED <<config, claude, run>> /\ done' = Undone
  BY DEF UserEdits
<1>2. codex' = codex \o Addition /\ Sound(codex)
  BY DEF UserEdits, Addition, AgreeInv
<1>3. Settles(codex, run.port, run.token) => Settles(codex', run.port, run.token)
  BY <1>2, AdditionSettles
<1>4. CodexSettles'
  BY <1>1, <1>3 DEF NoopInv, CodexSettles, HasIt, Undone
<1>5. ClaudeSettles'
  BY <1>1 DEF NoopInv, ClaudeSettles, Present, Working, Undone
<1> QED
  BY <1>4, <1>5 DEF NoopInv

\* Setup that finishes has done what it planned; one that fails nothing.
LEMMA EndSettles ==
  ASSUME TokenInv, AgreeInv, NoopInv, Restart \/ Fails
  PROVE  NoopInv'
<1>1. run' = Off /\ UNCHANGED <<config, codex>>
  BY DEF Restart, Fails, End, files
<1>2. CASE done' = Undone
  BY <1>1, <1>2 DEF NoopInv, CodexSettles, ClaudeSettles, HasIt, Working, Off, Undone
<1>3. CASE done' # Undone
  <2>1. Restart
    BY <1>3 DEF Fails
  <2>2. /\ run.at = "restart" /\ claude' = claude /\ config.token = run.token
        /\ done'.targets = run.targets /\ done'.port = run.port
    BY <1>3, <2>1 DEF Restart, Finished, files
  <2>3. CodexSettles'
    BY <1>1, <2>2 DEF NoopInv, CodexSettles, HasIt, Off
  <2>4. ClaudeSettles'
    BY <1>1, <2>2 DEF NoopInv, ClaudeSettles, Present, Working, Off
  <2> QED
    BY <2>3, <2>4 DEF NoopInv
<1> QED
  BY <1>2, <1>3

\* No step of anybody disturbs it.
LEMMA NoopStep == TokenInv /\ AgreeInv /\ NoopInv /\ [Next]_vars => NoopInv'
<1> SUFFICES ASSUME TokenInv, AgreeInv, NoopInv, [Next]_vars PROVE NoopInv'
  OBVIOUS
<1>1. ASSUME NEW targets \in (SUBSET Agents) \ {{}}, NEW flag \in Flags, Begin(targets, flag)
      PROVE  NoopInv'
  <2>1. UNCHANGED <<config, codex, claude, done>>
    BY <1>1 DEF Begin, files, ghosts
  <2>2. run'.at \in {"token", "plan"} /\ ~ run'.edits
    BY <1>1 DEF Begin, Off
  <2> QED
    BY <2>1, <2>2, FilesStay
<1>2. CASE SaveToken
  <2>1. UNCHANGED <<codex, claude, done>> /\ done.targets = {} /\ ~ run.edits
    BY <1>2 DEF SaveToken, AgreeInv, FitsDone, FitsRun
  <2>2. run'.at = "plan" /\ run'.edits = run.edits
    BY <1>2 DEF SaveToken, TokenInv, Shapes, RunFits
  <2> QED
    BY <2>1, <2>2, FilesStay
<1>3. CASE Plan
  <2>1. run.at = "plan" /\ UNCHANGED <<config, codex, claude, done>>
    BY <1>3 DEF Plan, files, ghosts
  <2>2. CASE run' = run
    BY <2>1, <2>2, FilesStay
  <2> QED
    BY <2>1, <2>2, PlanSettles
<1>4. CASE Confirm
  <2>1. UNCHANGED <<config, codex, claude, done>> /\ run.at = "confirm" /\ Working
    BY <1>4 DEF Confirm, files, ghosts, Working
  <2>2. CASE End
    BY <2>1, <2>2, FilesStay DEF End, Off
  <2>3. CASE Go("claude")
    <3>1. /\ run'.at = "claude" /\ run'.targets = run.targets /\ run'.port = run.port
          /\ run'.token = run.token /\ run'.edits = run.edits /\ run'.text = run.text
          /\ run'.adds = run.adds
      BY <2>3 DEF Go, TokenInv, Shapes, RunFits
    <3> QED
      BY <2>1, <3>1, FilesStay
  <2> QED
    BY <1>4, <2>2, <2>3 DEF Confirm
<1>5. CASE ApplyClaude
  BY <1>5, ClaudeIsFilled
<1>6. CASE BackupCodex
  <2>1. UNCHANGED <<config, codex, claude, done>> /\ run.at = "codex" /\ Working
    BY <1>6 DEF BackupCodex, ghosts, Working
  <2>2. /\ run'.at = IF run.edits THEN "truncate" ELSE "restart"
        /\ run'.targets = run.targets /\ run'.port = run.port
        /\ run'.token = run.token /\ run'.edits = run.edits /\ run'.text = run.text
        /\ run'.adds = run.adds
    BY <1>6 DEF BackupCodex, Go, TokenInv, Shapes, RunFits
  <2>3. run'.at = "truncate" => run.edits
    BY <2>2
  <2>4. run'.at = "restart" => ~ run.edits
    BY <2>2
  <2>5. run'.at \in {"truncate", "restart"}
    BY <2>2
  <2> QED
    BY <2>1, <2>2, <2>3, <2>4, <2>5, FilesStay
<1>7. CASE TruncateCodex \/ WriteCodex
  BY <1>7, WritesSettle
<1>8. CASE Restart \/ Fails
  BY <1>8, EndSettles
<1>9. CASE UserEdits
  BY <1>9, UserSettles
<1>10. CASE ServeLoad \/ TouchLoad \/ DaemonStops
  BY <1>10, FilesStay DEF ServeLoad, TouchLoad, DaemonStops, files, ghosts
<1>11. CASE TouchSave
  <2>1. UNCHANGED <<codex, claude, run>> /\ (done' = Undone \/ (done' = done /\ config' = config))
    BY <1>11 DEF TouchSave
  <2> QED
    BY <2>1, FilesStay
<1>12. ASSUME NEW p \in Ports, ServeListen(p) PROVE NoopInv'
  <2>1. UNCHANGED <<codex, claude, run>> /\ (done' = Undone \/ (done' = done /\ config' = config))
    BY <1>12 DEF ServeListen
  <2> QED
    BY <2>1, FilesStay
<1>13. ASSUME NEW a \in Agents, AgentStarts(a) PROVE NoopInv'
  BY <1>13, FilesStay DEF AgentStarts, files, ghosts
<1>14. CASE UNCHANGED vars
  BY <1>14, FilesStay DEF vars, files, ghosts
<1> QED
  BY <1>1, <1>2, <1>3, <1>4, <1>5, <1>6, <1>7, <1>8, <1>9, <1>10, <1>11, <1>12, <1>13, <1>14 DEF Next

\* So a run that plans what was done finds nothing to do.
LEMMA SecondRunEnds ==
  TokenInv /\ AgreeInv /\ NoopInv /\ [Next]_vars => (Regular(codex) => IsNoop)
<1> SUFFICES ASSUME TokenInv, AgreeInv, NoopInv, [Next]_vars, Regular(codex),
                    run.at = "plan", run' # run, run.targets \subseteq done.targets,
                    ResolvePort = done.port
             PROVE  run'.at = "idle" /\ ~ Refuses(EditCodex(codex, ResolvePort, run.token))
  BY DEF IsNoop
<1>1. PICK M : M = EditCodex(codex, ResolvePort, run.token)
  OBVIOUS
<1>2. /\ Sound(codex) /\ ResolvePort \in Ports /\ run.token \in Tokens
      /\ run'.edits => "codex" \in run.targets
      /\ run'.at = "confirm" =>
           /\ run'.edits <=> "codex" \in run.targets /\ M # codex
           /\ run'.adds = IF "claude" \in run.targets THEN PlanClaude ELSE {}
      /\ run'.at # "confirm" => run'.at = "idle"
  BY <1>1, PlanIsEdit
<1>3. run.targets # {} /\ run.token = config.token
  BY DEF AgreeInv, FitsRun, FitsDone
<1>4. "codex" \in run.targets => M = codex
  <2> SUFFICES ASSUME "codex" \in run.targets PROVE M = codex
    OBVIOUS
  <2>1. Settled(codex, Exporter(ResolvePort, run.token))
    BY <1>3 DEF NoopInv, CodexSettles, Settles
  <2>2. Absent \notin Tokens
    BY SetupAssumption
  <2> QED
    BY <1>1, <1>2, <2>1, <2>2, SettledIsFixed
<1>5. "claude" \in run.targets => claude.ok /\ PlanClaude = {}
  BY DEF NoopInv, ClaudeSettles, PlanClaude, Present
<1>6. ~ Refuses(M)
  BY <1>4, <1>5 DEF Refuses
<1>7. run'.at # "confirm"
  <2>1. Plan
    BY PlanIsEdit
  <2>2. End
    BY <1>1, <1>4, <1>5, <2>1 DEF Plan
  <2> QED
    BY <2>2 DEF End, Off
<1> QED
  BY <1>1, <1>2, <1>6, <1>7

\* A second run of setup is a no-op, as its help says, for every config.toml that
\* the scanner reads as TOML does when it is run again, of any length: whatever
\* the daemon and the agents did since, and whatever the user added while the
\* first one asked.
THEOREM SecondRunChangesNothing == Spec => SecondRunIsNoop
<1>1. Spec => []NoopInv
  BY NoopInit, NoopStep, SetupSafe, PTL DEF Spec
<1>2. TokenInv /\ AgreeInv /\ NoopInv /\ [Next]_vars => (Regular(codex) => IsNoop)
  BY SecondRunEnds
<1> QED
  BY <1>1, <1>2, SetupSafe, PTL DEF Spec, SecondRunIsNoop
=============================================================================
