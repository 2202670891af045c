------------------------------- MODULE Setup -------------------------------
(***************************************************************************)
(* The setup command beside the daemon and the two agents it configures    *)
(* (src/cmd/burndown-cli/setup.go, src/internal/setup): the receiver token *)
(* it mints and everybody must agree on, the plan it makes, shows and      *)
(* writes, its backups, the restart of the daemon, and what becomes of     *)
(* them when the daemon saves the config it loaded earlier, the user edits *)
(* config.toml at the prompt, or the command is killed.                    *)
(***************************************************************************)
EXTENDS CodexEdit

CONSTANTS
  DefaultPort,  \* receiver.DefaultPort
  Flags,        \* bound: the values of --port, and Absent
  MaxLines,     \* bound: lines of the config.toml that setup first finds
  MaxSetups,    \* bound: runs of setup
  MaxTroubles   \* bound: other saves of the config by the daemon, edits of
                \*   config.toml by the user, kills, failed writes and restarts

ASSUME SetupAssumption ==
  /\ DefaultPort \in Ports /\ Flags \subseteq Ports \cup {Absent}
  /\ Absent \notin Ports \cup Tokens /\ Absent # "setup"
  /\ \A n \in {MaxLines, MaxSetups, MaxTroubles} : n \in Nat

VARIABLES
  config,   \* receiver_token and receiver_port of config.json
  claude,   \* the env of settings.json that depends on them, whether it is JSON
  codex,    \* the lines of config.toml
  saved,    \* the backups of config.toml
  run,      \* the setup command
  daemon,   \* serve: the token it runs with, a config it holds
  agents,   \* the token each agent has read when it started
  users,    \* config.toml as its user last left it
  done,     \* what the last finished setup configured, if nobody has changed it
  clash,    \* a stale config was saved over a newer token
  minted,   \* the tokens there have ever been
  count     \* of what is bounded

files == <<config, claude, codex, saved>>
ghosts == <<users, done, clash, minted>>
vars == <<files, run, daemon, agents, ghosts, count>>
-----------------------------------------------------------------------------
NoConfig == [token |-> Absent, port |-> Absent]
ClaudeKeys == {"endpoint", "headers"}

NoEnv == [ok |-> TRUE, env |-> [k \in ClaudeKeys |-> Absent]]
Broken == [NoEnv EXCEPT !.ok = FALSE]
Elsewhere == [NoEnv EXCEPT !.env.endpoint = DefaultPort]

\* edits: whether the plan changes config.toml, to text.
Off == [at |-> "idle", targets |-> {}, port |-> Absent, token |-> Absent,
        hand |-> NoConfig, adds |-> {}, edits |-> FALSE, text |-> <<>>]
Undone == [targets |-> {}, port |-> Absent, agree |-> FALSE]

\* The one file that meets with a daemon and with trouble; the others meet with
\* setup alone.
Main == codex = <<Key("environment", Users)>>

Init ==
  /\ config = NoConfig
  /\ codex \in {lines \in BoundedSeq(UserLines, MaxLines) : IsToml(lines)}
  /\ claude \in IF Main THEN {NoEnv, Broken, Elsewhere} ELSE {NoEnv}
  /\ saved = {} /\ run = Off
  /\ daemon = [at |-> IF Main THEN "off" ELSE "none", token |-> Absent,
               saving |-> FALSE, hand |-> NoConfig]
  /\ agents = [a \in Agents |-> Absent]
  /\ users = codex /\ done = Undone /\ clash = FALSE /\ minted = {}
  /\ count = [setups |-> 0, troubles |-> IF Main THEN 0 ELSE MaxTroubles]

Trouble == count.troubles < MaxTroubles /\ count' = [count EXCEPT !.troubles = @ + 1]
Go(at) == run' = [run EXCEPT !.at = at]
End == run' = Off
-----------------------------------------------------------------------------
\* Mutant: a run of setup rotates the token.
Begin_Rotates(targets, flag) ==
  /\ run.at = "idle" /\ count.setups < MaxSetups /\ count' = [count EXCEPT !.setups = @ + 1]
  /\ run' = [Off EXCEPT !.at = "token", !.targets = targets, !.port = flag, !.hand = config]
  /\ UNCHANGED <<files, daemon, agents, ghosts>>

\* gatherPlans: the agents that were detected or that flags name, the --port
\* flag or Absent, and the config as EnsureReceiverToken loads it.
Begin(targets, flag) ==
  /\ run.at = "idle" /\ count.setups < MaxSetups /\ count' = [count EXCEPT !.setups = @ + 1]
  /\ run' = [Off EXCEPT !.at = IF config.token = Absent THEN "token" ELSE "plan",
               !.targets = targets, !.port = flag, !.token = config.token,
               !.hand = IF config.token = Absent THEN config ELSE NoConfig]
  /\ UNCHANGED <<files, daemon, agents, ghosts>>

\* A config without a token gets one there has not been, and is saved as it
\* was loaded.
SaveToken ==
  /\ run.at = "token" /\ Tokens # minted
  /\ LET t == CHOOSE t \in Tokens : t \notin minted
     IN /\ config' = [run.hand EXCEPT !.token = t]
        /\ minted' = minted \cup {t}
        /\ run' = [run EXCEPT !.at = "plan", !.token = t, !.hand = NoConfig]
  /\ UNCHANGED <<claude, codex, saved, daemon, agents, users, done, clash, count>>

\* The flag, or the port serve has recorded, or the default one.
ResolvePort ==
  IF run.port # Absent THEN run.port
  ELSE IF config.port # Absent THEN config.port
  ELSE DefaultPort

\* Mutant: what the env of Claude has is written again.
PlanClaude_Rewrites == ClaudeKeys

\* What the env of Claude lacks; what it has is kept.
PlanClaude == {k \in ClaudeKeys : claude.env[k] = Absent}

\* Either file may make setup refuse, and then it configures neither agent.
Refuses(text) ==
  \/ "claude" \in run.targets /\ ~ claude.ok
  \/ /\ "codex" \in run.targets /\ text # codex
     /\ ~ VerifyCodexEdit(text, ResolvePort, run.token, Added(codex))

\* The plan is shown, as --check does, or asked about.
Offers(adds, edits, text) ==
  run' = [run EXCEPT !.at = "confirm", !.port = ResolvePort,
                     !.adds = adds, !.edits = edits, !.text = text]

\* buildPlans: if nothing is pending setup is over.
Plan ==
  /\ run.at = "plan"
  /\ LET text == EditCodex(codex, ResolvePort, run.token)
         adds == IF "claude" \in run.targets THEN PlanClaude ELSE {}
         edits == "codex" \in run.targets /\ text # codex
     IN IF Refuses(text) \/ (adds = {} /\ ~ edits) THEN End
        ELSE Offers(adds, edits, IF edits THEN text ELSE <<>>)
  /\ UNCHANGED <<files, daemon, agents, ghosts, count>>

\* --check ends here, and so does a no; --yes does not ask.
Confirm ==
  /\ run.at = "confirm"
  /\ End \/ Go("claude")
  /\ UNCHANGED <<files, daemon, agents, ghosts, count>>

\* Claude's file: backed up, then written with the additions.
ApplyClaude ==
  /\ run.at = "claude"
  /\ Go("codex")
  /\ claude' = [claude EXCEPT !.env =
       [k \in ClaudeKeys |->
          IF k \notin run.adds THEN @[k]
          ELSE IF k = "endpoint" THEN run.port ELSE run.token]]
  /\ UNCHANGED <<config, codex, saved, daemon, agents, ghosts, count>>

\* Mutant: one backup is enough.
BackupCodex_Once ==
  /\ run.at = "codex"
  /\ Go(IF run.edits THEN "truncate" ELSE "restart")
  /\ saved' = IF run.edits /\ codex # <<>> /\ saved = {} THEN {codex} ELSE saved
  /\ UNCHANGED <<config, claude, codex, daemon, agents, ghosts, count>>

\* backupFile: config.toml as it is now, if there is one.
BackupCodex ==
  /\ run.at = "codex"
  /\ Go(IF run.edits THEN "truncate" ELSE "restart")
  /\ saved' = IF run.edits /\ codex # <<>> THEN saved \cup {codex} ELSE saved
  /\ UNCHANGED <<config, claude, codex, daemon, agents, ghosts, count>>

\* os.WriteFile empties the file before it writes the plan's text, which is
\* that of the moment the plan was made.
TruncateCodex ==
  /\ run.at = "truncate" /\ Go("write")
  /\ codex' = <<>> /\ done' = Undone
  /\ UNCHANGED <<config, claude, saved, daemon, agents, users, clash, minted, count>>

WriteCodex ==
  /\ run.at = "write" /\ Go("restart")
  /\ codex' = run.text
  /\ UNCHANGED <<config, claude, saved, daemon, agents, ghosts, count>>

\* A write that fails, or a kill, ends setup; settings.json may be left torn.
Fails ==
  /\ run.at \in {"claude", "codex", "truncate", "write", "restart"} /\ Trouble /\ End
  /\ claude' \in {claude} \cup (IF run.at = "claude" /\ run.adds # {} THEN {Broken} ELSE {})
  /\ done' = Undone
  /\ UNCHANGED <<config, codex, saved, daemon, agents, users, clash, minted>>

\* restartCollectorService: a service that runs is started again, and loads
\* the config again. One that is not managed, or that launchctl cannot start,
\* is left to the user.
Restarted == [daemon EXCEPT !.at = "off", !.saving = FALSE, !.hand = NoConfig,
                            !.token = Absent]
Finished(agree) ==
  done' = IF config.token # run.token THEN Undone
          ELSE [targets |-> run.targets, port |-> run.port, agree |-> agree]

\* Mutant: a daemon that runs is left as it is.
Restart_Skipped ==
  /\ run.at = "restart" /\ End
  /\ Finished(TRUE)
  /\ UNCHANGED <<files, daemon, agents, users, clash, minted, count>>

Restart ==
  /\ run.at = "restart" /\ End
  /\ daemon' \in {daemon, IF daemon.at = "none" THEN daemon ELSE Restarted}
  /\ Finished(daemon'.at \notin {"loaded", "on"})
  /\ UNCHANGED <<files, agents, users, clash, minted, count>>
-----------------------------------------------------------------------------
\* serve loads the config, records the port it is given, and listens with the
\* token it has loaded.
ServeLoad ==
  /\ daemon.at = "off"
  /\ daemon' = [daemon EXCEPT !.at = "loaded", !.hand = config]
  /\ UNCHANGED <<files, run, agents, ghosts, count>>

\* A save of what was loaded before there was the token there is now.
Overwrites == config.token # Absent /\ daemon.hand.token # config.token

ServeListen(port) ==
  /\ daemon.at = "loaded"
  /\ daemon' = [daemon EXCEPT !.at = "on", !.token = daemon.hand.token,
                              !.hand = NoConfig]
  /\ IF daemon.hand.port = port THEN UNCHANGED <<config, done, clash>>
     ELSE /\ config' = [daemon.hand EXCEPT !.port = port]
          /\ clash' = (clash \/ Overwrites)
          /\ done' = Undone
  /\ UNCHANGED <<claude, codex, saved, run, agents, users, minted, count>>

\* mutateConfig: the daemon loads the config to change another field of it,
TouchLoad ==
  /\ daemon.at = "on" /\ ~ daemon.saving /\ Trouble
  /\ daemon' = [daemon EXCEPT !.saving = TRUE, !.hand = config]
  /\ UNCHANGED <<files, run, agents, ghosts>>

\* and saves the whole of it.
TouchSave ==
  /\ daemon.saving
  /\ daemon' = [daemon EXCEPT !.saving = FALSE, !.hand = NoConfig]
  /\ config' = daemon.hand
  /\ clash' = (clash \/ Overwrites)
  /\ done' = IF config' = config THEN done ELSE Undone
  /\ UNCHANGED <<claude, codex, saved, run, agents, users, minted, count>>

DaemonStops ==
  /\ daemon.at \in {"loaded", "on"} /\ Trouble
  /\ daemon' = Restarted
  /\ UNCHANGED <<files, run, agents, ghosts>>
-----------------------------------------------------------------------------
\* The token an agent reads when it is started.
Settings(a) ==
  IF a = "claude" THEN claude.env.headers ELSE Value(codex, Otel, "exporter")[2]

\* While setup runs an agent reads a file as it is before or after.
AgentStarts(a) ==
  /\ run.at = "idle" /\ daemon.at # "none"
  /\ IF a = "claude" THEN claude.ok ELSE IsToml(codex)
  /\ agents[a] # Settings(a)
  /\ agents' = [agents EXCEPT ![a] = Settings(a)]
  /\ UNCHANGED <<files, run, daemon, ghosts, count>>

\* The user, or Codex, adds to config.toml, between runs or at the prompt.
UserEdits ==
  /\ run.at \in {"idle", "confirm"} /\ Trouble
  /\ codex' = codex \o <<Header(Tui), Key("environment", Users)>>
  /\ IsToml(codex')
  /\ users' = codex' /\ done' = Undone
  /\ UNCHANGED <<config, claude, saved, run, daemon, agents, clash, minted>>

\* rejectToken: a token that is not the daemon's, if it has one.
RejectToken(got) == got # Absent /\ daemon.token # Absent /\ got # daemon.token
ShutOut(a) == daemon.at = "on" /\ RejectToken(agents[a])

Next ==
  \/ \E targets \in (SUBSET Agents) \ {{}}, flag \in Flags : Begin(targets, flag)
  \/ SaveToken \/ Plan \/ Confirm \/ ApplyClaude \/ BackupCodex \/ TruncateCodex \/ WriteCodex
  \/ Fails \/ Restart
  \/ ServeLoad \/ TouchLoad \/ TouchSave \/ DaemonStops \/ UserEdits
  \/ \E p \in Ports : ServeListen(p)
  \/ \E a \in Agents : AgentStarts(a)

Spec == Init /\ [][Next]_vars
-----------------------------------------------------------------------------
\* However often setup is run, an agent that it configured is never refused by
\* the receiver for its token (token.go:17-25, receiver.go:235-250), whichever
\* of the three was started first; unless a token was lost from the config.
NoneShutOut == clash \/ \A a \in Agents : ~ ShutOut(a)

\* Once setup has finished and restarted the daemon, the config, config.toml
\* and the daemon that runs have the same token, after a lost one too
\* (cmd/burndown-cli/setup.go:219-246, codex.go:51-54).
AgreeAfterSetup ==
  done.agree /\ "codex" \in done.targets =>
    /\ Value(codex, Otel, "exporter") = Exporter(done.port, config.token)
    /\ daemon.at = "on" => daemon.token = config.token

\* Setup never loses what the user last wrote to config.toml: it is there or in
\* a backup, also when the user wrote it while setup asked, and whichever step
\* of setup was its last (codex.go:182-196, internal/setup/setup.go:73-94).
UserTextIsKept == codex = users \/ users \in saved \/ users = <<>>

\* What an edit leaves of the user's assignments, and adds to them.
Preserves(old, new) ==
  LET replaced == {k \in Read(old).keys :
                     k.table = Stale \/ (k.table = Otel /\ k.key = "exporter")}
      mine == Assigned(new, Otel)
  IN /\ Read(old).keys \ replaced \subseteq Read(new).keys
     /\ Read(new).keys \subseteq Read(old).keys \cup mine
     /\ Range(CodexScalars) \subseteq {k.key : k \in mine}

\* What a plan does to config.toml. Its text is that of the file if it is
\* left alone.
EditsRight ==
  run.at = "plan" /\ run' # run /\ "codex" \in run.targets /\ ("claude" \in run.targets => claude.ok) =>
    LET text == IF run'.edits THEN run'.text ELSE codex
        planned == run'.at = "confirm"
    IN /\ planned => /\ IsToml(text)
                     /\ Value(text, Otel, "exporter") = Exporter(run'.port, run.token)
       /\ Regular(codex) /\ Editable(codex) =>
            /\ Preserves(codex, text)
            /\ planned \/ EditCodex(codex, ResolvePort, run.token) = codex

\* Whatever the file, a plan is TOML with the exporter in its place.  A file that
\* the line scanner reads as TOML does is not refused, and its plan keeps every
\* value but the exporter (codex.go:51-62), unless the exporter is a value of
\* several lines or a table other than the stale one: of those the edit leaves a
\* part behind (codex.go:249-263, 269-289).
EditIsRight == [][EditsRight]_vars

\* What a run that plans what the last finished one did finds: nothing to add,
\* to refuse or to write.
IsNoop ==
  run.at = "plan" /\ run' # run /\ run.targets \subseteq done.targets /\ ResolvePort = done.port =>
    run'.at = "idle" /\ ~ Refuses(EditCodex(codex, ResolvePort, run.token))

\* A second run is a no-op (cmd/burndown-cli/setup.go:30-32), for a config.toml that the line
\* scanner reads as TOML does; whatever the daemon and the agents did since.
SecondRunIsNoop == [][Regular(codex) => IsNoop]_vars

\* The same for every config.toml, as cmd/burndown-cli/setup.go:30-32 says. (It is not so: after
\* a bracket in a multi-line string the scanner sees nothing of what setup has
\* added, adds it again, and refuses.)
EverySecondRunIsNoop == [][IsNoop]_vars
=============================================================================
