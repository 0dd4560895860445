---------------------------- MODULE Configuration ----------------------------
(***************************************************************************)
(* How the automation service finds its configuration                      *)
(* (automation/automation_service/config.py): a YAML file, on top of it    *)
(* the environment of the process, and beneath that the variables of a     *)
(* .env file.  An environment is a function from the names that are set.   *)
(* The values of the rule are one field, for they all come from the file.  *)
(***************************************************************************)

\* The settings of both, where a name that both have is the upper one's.
Over(upper, lower) ==
  [name \in DOMAIN upper \cup DOMAIN lower |->
     IF name \in DOMAIN upper THEN upper[name] ELSE lower[name]]

\* Mutant: load_dotenv(override=True).
MutantEnvironment(process, dotenv) == Over(dotenv, process)

\* load_dotenv sets only what the process does not have, be it removed on purpose.
Environment(process, dotenv) == Over(process, dotenv)

\* os.environ.get
Setting(environment, name, default) ==
  IF name \in DOMAIN environment THEN environment[name] ELSE default

\* An empty path counts as none.
DefaultConfigPath(environment) ==
  LET override == Setting(environment, "BATHROOM_VENT_CONFIG_PATH", "")
  IN  IF override # "" THEN override ELSE "config/defaults.yaml"

\* What the file and the environment make of the settings; an empty variable does
\* count, as an empty value.
LoadConfig(environment, files) ==
  LET raw == files[DefaultConfigPath(environment)]
  IN  [rule     |-> raw.rule,
       host     |-> Setting(environment, "MQTT_HOST", raw.host),
       port     |-> Setting(environment, "MQTT_PORT", raw.port),
       username |-> Setting(environment, "MQTT_AUTOMATION_USERNAME", ""),
       useTls   |-> Setting(environment, "MQTT_USE_TLS", "false") = "true",
       deviceId |-> Setting(environment, "MQTT_DEVICE_ID", raw.deviceId)]

=============================================================================
